----------------------------- MODULE RoutePolicy -----------------------------
(***************************************************************************)
(* Routing policies and candidate selection (router.resolveCandidates),    *)
(* the part of the router that /v1/chat/completions, /v1/responses and     *)
(* /v1/messages share: who may be tried for a model, and in which order.   *)
(***************************************************************************)
EXTENDS Sequences, Selection

CONSTANTS
    Accounts,
    MonitorOnly,   \* accounts whose mode is monitor_only (never changes)
    Listing,       \* all accounts in ListAccounts order
    Serving,       \* accounts whose model table lists the requested model
    Priorities,    \* priorities that occur in policies
    Policies       \* policies an administrator may store for the model

AccountStatus == {"active", "disabled"}
Candidate == [account : Accounts, priority : Priorities]
PolicyKind == {"absent", "disabled", "enabled"}

ASSUME PolicyAssumption ==
    /\ MonitorOnly \subseteq Accounts
    /\ Serving \subseteq Accounts
    /\ Listing \in Seq(Accounts)
    /\ Priorities \subseteq Nat /\ 1 \in Priorities
    /\ \A p \in Policies : /\ DOMAIN p = {"kind", "cands"}
                           /\ p.kind \in PolicyKind
                           /\ p.cands \in Seq(Candidate)

\* Seeded fault: the mode of the account is not looked at.
UsableAnyMode(status, a) == status[a] = "active"

\* accountUsable: active, and not an account that is only monitored.
Usable(status, a) == status[a] = "active" /\ a \notin MonitorOnly

\* defaultCandidates: without a policy, every usable account that has the
\* model, all with priority 1.
DefaultCandidates(status) ==
    LET usable == {i \in DOMAIN Listing :
                      Usable(status, Listing[i]) /\ Listing[i] \in Serving}
        direct == [i \in DOMAIN Listing |-> [account |-> Listing[i], priority |-> 1]]
    IN  Kept(direct, usable)

\* sort.SliceStable by priority.
ByPriority(cands) == StableSort(cands, [i \in DOMAIN cands |-> cands[i].priority])
=============================================================================
