------------------------------ MODULE MCOAuthFlow ------------------------------
(* Two flows, so that one's callback may reach the other's listener, and     *)
(* three completions to compete for them.                                    *)
EXTENDS OAuthFlow

CONSTANTS f1, f2, c1, c2, c3
===============================================================================
