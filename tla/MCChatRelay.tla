----------------------------- MODULE MCChatRelay -----------------------------
(* A small instance of ChatRelay: two accounts that may serve the model and  *)
(* one that is only monitored, under three policies.                         *)
EXTENDS ChatRelay

CONSTANTS r1, a1, a2, mon

Entry(a, p) == [account |-> a, priority |-> p]

MCListing == <<mon, a1, a2>>

\* No policy; a disabled one; one that puts the account listed last before the
\* first, with the monitored account in front of both.
MCPolicies ==
    {[kind |-> "absent", cands |-> <<>>],
     [kind |-> "disabled", cands |-> <<Entry(a1, 1)>>],
     [kind |-> "enabled", cands |-> <<Entry(mon, 1), Entry(a1, 2), Entry(a2, 1)>>]}
=============================================================================
