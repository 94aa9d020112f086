-------------------------- MODULE MCRefreshScheduler --------------------------
(* Four calls: three compete for one key, the fourth is alone on another.    *)
EXTENDS RefreshScheduler, TLC

CONSTANTS c1, c2, c3, c4, models, capabilities

MCKeyOf == (c1 :> models) @@ (c2 :> models) @@ (c3 :> models) @@ (c4 :> capabilities)
===============================================================================
