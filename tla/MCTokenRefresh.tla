---------------------------- MODULE MCTokenRefresh ----------------------------
(* Three requests for one account: a leader, one that waits, and one that    *)
(* comes with an old reference.                                              *)
EXTENDS TokenRefresh

CONSTANTS r1, r2, r3
===============================================================================
