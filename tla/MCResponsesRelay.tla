--------------------------- MODULE MCResponsesRelay ---------------------------
(* Two requests, either of which may begin a conversation or continue the    *)
(* other's; two accounts to fail over between and one that is only monitored.*)
EXTENDS ResponsesRelay

CONSTANTS r1, r2, a1, a2, mon, h1

MCOrder == <<mon, a1, a2>>
=============================================================================
