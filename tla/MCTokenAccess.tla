---------------------------- MODULE MCTokenAccess ----------------------------
(* A small instance of TokenAccess: one token limited to a single model and  *)
(* to MaxUse concurrent requests, and one unlimited token that expires.      *)
EXTENDS TokenAccess, TLC

CONSTANTS r1, r2, r3, t1, t2, m1, m2, MaxUse

MCLimit == (t1 :> MaxUse) @@ (t2 :> 0)
MCWhitelist == (t1 :> {m1}) @@ (t2 :> {})
=============================================================================
