----------------------------- MODULE TokenRefresh -----------------------------
(***************************************************************************)
(* Using an OAuth account: resolveOAuthTarget and Service.Refresh for one  *)
(* account (calls for different accounts share nothing).                   *)
(*                                                                         *)
(* A request reads the account, with the reference to its vault entry,     *)
(* then either leads a refresh or waits for the one in flight.  The leader *)
(* loads the tokens; if they are due it presents the refresh token, which  *)
(* the platform replaces, stores the new tokens under a new name, and      *)
(* deletes the old entry.  Afterwards everyone who shares the result       *)
(* points the account at it.  Administrators may revoke the account,       *)
(* accesses may fail, and the process may die between any two steps.       *)
(*                                                                         *)
(* The Keychain vault puts a prefix before the service name it is given,   *)
(* and a refresh gives it the name it got back the last time: the entry    *)
(* stored from entry n is entry n+1, the number of prefixes.               *)
(***************************************************************************)
EXTENDS Naturals, FiniteSets, Functions

CONSTANTS Requests, Nobody

ASSUME NobodyAssumption == Nobody \notin Requests

VARIABLES
    row,        \* the account: its vault entry, and whether a fingerprint is set
    authState,  \* accounts.auth_state
    vault,      \* the entries there are, with the tokens (a generation) in each
    due,        \* generations whose access token is expired or nearly so
    current,    \* the platform: the refresh token (a generation) it accepts
    inflight,   \* Service.inflight: who leads the refresh in flight
    pc,
    ref,        \* the account as the request has read it
    call,       \* the leader whose result the request shares
    token,      \* leader: the tokens it has loaded, or received
    result,     \* inflightCall of a leader
    revoking,   \* where revokeAccount is, and the entry it has read
    presented,  \* history: refresh tokens the platform has replaced
    replayed,   \* history: such tokens that were presented again
    revoked,    \* history: a revocation has begun
    faults      \* something failed half way that the code cannot undo

account == <<row, authState>>
platform == <<due, current>>
flight == <<inflight, call, result>>
local == <<ref, token>>
history == <<presented, replayed>>
admin == <<revoking, revoked>>
vars == <<account, vault, platform, flight, pc, local, history, admin, faults>>

Step == {"new", "asking", "loading", "posting", "storing", "deleting",
         "releasing", "waiting", "using", "done"}
Row == [slot : Nat, printed : BOOLEAN]
\* What a refresh comes to: nothing yet, an error, a refusal by the platform,
\* the tokens as they were, or new ones in entry slot.
Result == [kind : {"none", "failed", "rejected", "kept", "renewed"}, slot : Nat]
NoResult == [kind |-> "none", slot |-> 0]
\* The account as completeFlowAccount leaves it.
FirstRow == [slot |-> 0, printed |-> TRUE]

Leading(r) == pc[r] \in {"loading", "posting", "storing", "deleting", "releasing"}

TypeOK ==
    /\ row \in Row
    /\ authState \in {"ok", "reauth_required"}
    /\ DOMAIN vault \subseteq Nat
    /\ \A s \in DOMAIN vault : vault[s] \in 0..current
    /\ due \subseteq 0..current
    /\ current \in Nat
    /\ inflight \in Requests \cup {Nobody}
    /\ pc \in [Requests -> Step]
    /\ ref \in [Requests -> Row]
    /\ call \in [Requests -> Requests \cup {Nobody}]
    /\ token \in [Requests -> 0..current]
    /\ result \in [Requests -> Result]
    /\ revoking \in [step : {"idle", "deleting", "marking"}, slot : Nat]
    /\ presented \subseteq 0..current
    /\ replayed \subseteq presented
    /\ revoked \in BOOLEAN
    /\ faults \in BOOLEAN

Init ==
    /\ row = FirstRow
    /\ authState = "ok"
    /\ vault = [s \in {0} |-> 0]
    /\ due = {}
    /\ current = 0
    /\ inflight = Nobody
    /\ pc = [r \in Requests |-> "new"]
    /\ ref = [r \in Requests |-> FirstRow]
    /\ call = [r \in Requests |-> Nobody]
    /\ token = [r \in Requests |-> 0]
    /\ result = [r \in Requests |-> NoResult]
    /\ revoking = [step |-> "idle", slot |-> 0]
    /\ presented = {}
    /\ replayed = {}
    /\ revoked = FALSE
    /\ faults = FALSE

Goto(r, step) == pc' = [pc EXCEPT ![r] = step]

\* resolveOAuthTarget returns; its local variables go.
Return(S) ==
    /\ pc' = [r \in Requests |-> IF r \in S THEN "done" ELSE pc[r]]
    /\ ref' = [r \in Requests |-> IF r \in S THEN FirstRow ELSE ref[r]]
    /\ call' = [r \in Requests |-> IF r \in S THEN Nobody ELSE call[r]]
    /\ token' = [r \in Requests |-> IF r \in S THEN 0 ELSE token[r]]

-----------------------------------------------------------------------------
(* Service.Refresh: one leader, and those who wait for it.                 *)

\* The relay reads the account it is about to use.
ReadAccount(r) ==
    /\ pc[r] = "new"
    /\ ref' = [ref EXCEPT ![r] = row]
    /\ Goto(r, "asking")
    /\ UNCHANGED <<account, vault, platform, flight, token, history, admin, faults>>

\* Seeded fault: the request does not look for a refresh in flight.
LeadAnyway(r) ==
    /\ pc[r] = "asking"
    /\ inflight' = r
    /\ call' = [call EXCEPT ![r] = r]
    /\ Goto(r, "loading")
    /\ UNCHANGED <<account, vault, platform, result, local, history, admin, faults>>

\* Nobody refreshes the account: this request leads.
Lead(r) ==
    /\ pc[r] = "asking"
    /\ inflight = Nobody
    /\ inflight' = r
    /\ call' = [call EXCEPT ![r] = r]
    /\ Goto(r, "loading")
    /\ UNCHANGED <<account, vault, platform, result, local, history, admin, faults>>

Wait(r) ==
    /\ pc[r] = "asking"
    /\ inflight # Nobody
    /\ call' = [call EXCEPT ![r] = inflight]
    /\ Goto(r, "waiting")
    /\ UNCHANGED <<account, vault, platform, inflight, result, local, history, admin, faults>>

\* Seeded fault: the result is shared without its reference.
ConcludeWithoutRef(r, kind, slot) ==
    /\ result' = [result EXCEPT ![r] = [kind |-> kind]]
    /\ Goto(r, "releasing")
    /\ UNCHANGED <<inflight, call>>

\* refreshOnce has come to an end.
Conclude(r, kind, slot) ==
    /\ result' = [result EXCEPT ![r] = [kind |-> kind, slot |-> slot]]
    /\ Goto(r, "releasing")
    /\ UNCHANGED <<inflight, call>>

\* The tokens are loaded; if they are not due yet they are used as they are.
Load(r) ==
    /\ pc[r] = "loading"
    /\ LET s == ref[r].slot IN
       \/ Conclude(r, "failed", s) /\ UNCHANGED token
       \/ /\ s \in DOMAIN vault /\ vault[s] \notin due
          /\ Conclude(r, "kept", s) /\ UNCHANGED token
       \/ /\ s \in DOMAIN vault /\ vault[s] \in due
          /\ token' = [token EXCEPT ![r] = vault[s]]
          /\ Goto(r, "posting")
          /\ UNCHANGED flight
    /\ UNCHANGED <<account, vault, platform, ref, history, admin, faults>>

\* The platform accepts the current refresh token only, and replaces it; the
\* answer may get lost.  Or the request does not reach it at all.
Post(r) ==
    /\ pc[r] = "posting"
    /\ \/ Conclude(r, "failed", ref[r].slot) /\ UNCHANGED <<platform, token, history, faults>>
       \/ /\ token[r] # current
          /\ replayed' = replayed \cup (presented \cap {token[r]})
          /\ Conclude(r, "rejected", ref[r].slot)
          /\ UNCHANGED <<platform, token, presented, faults>>
       \/ /\ token[r] = current
          /\ presented' = presented \cup {current}
          /\ current' = current + 1
          /\ \/ /\ token' = [token EXCEPT ![r] = current + 1]
                /\ Goto(r, "storing")
                /\ UNCHANGED <<flight, faults>>
             \/ /\ Conclude(r, "failed", ref[r].slot)
                /\ faults' = TRUE
                /\ UNCHANGED token
          /\ UNCHANGED <<due, replayed>>
    /\ UNCHANGED <<account, vault, ref, admin>>

\* Vault.Store; if it fails the new tokens are lost.
Store(r) ==
    /\ pc[r] = "storing"
    /\ \/ /\ LET s == ref[r].slot + 1 IN
             vault' = [x \in DOMAIN vault \cup {s} |-> IF x = s THEN token[r] ELSE vault[x]]
          /\ Goto(r, "deleting")
          /\ UNCHANGED <<flight, faults>>
       \/ /\ Conclude(r, "failed", ref[r].slot)
          /\ faults' = TRUE
          /\ UNCHANGED vault
    /\ UNCHANGED <<account, platform, local, history, admin>>

\* Seeded fault: the old entry is left in the vault.
DeleteNothing(r) ==
    /\ pc[r] = "deleting"
    /\ Conclude(r, "renewed", ref[r].slot + 1)
    /\ UNCHANGED <<account, vault, platform, local, history, admin, faults>>

\* The old entry goes; whether that succeeds is not looked at.
DeleteOld(r) ==
    /\ pc[r] = "deleting"
    /\ \/ vault' = Restrict(vault, DOMAIN vault \ {ref[r].slot}) /\ UNCHANGED faults
       \/ faults' = TRUE /\ UNCHANGED vault
    /\ Conclude(r, "renewed", ref[r].slot + 1)
    /\ UNCHANGED <<account, platform, local, history, admin>>

\* The refresh is no longer in flight, and done is closed: the next request
\* may lead another one before those who wait have woken up.
Release(r) ==
    /\ pc[r] = "releasing"
    /\ inflight' = IF inflight = r THEN Nobody ELSE inflight
    /\ Goto(r, "using")
    /\ UNCHANGED <<account, vault, platform, call, result, local, history, admin, faults>>

\* Seeded fault: a waiter only wakes for a result it can use.
ResumeOnSuccess(r) ==
    /\ pc[r] = "waiting"
    /\ pc[call[r]] \in {"using", "done"}
    /\ result[call[r]].kind \in {"kept", "renewed"}
    /\ Goto(r, "using")
    /\ UNCHANGED <<account, vault, platform, flight, local, history, admin, faults>>

\* done is closed: those who wait share the result.
Resume(r) ==
    /\ pc[r] = "waiting"
    /\ pc[call[r]] \in {"using", "done"}
    /\ Goto(r, "using")
    /\ UNCHANGED <<account, vault, platform, flight, local, history, admin, faults>>

-----------------------------------------------------------------------------
(* resolveOAuthTarget, after the refresh.                                  *)

\* A refusal marks the account.  The account is pointed at the result when the
\* fingerprints differ; the reference of a result that was "kept" has none.
UseResult(r) ==
    /\ pc[r] = "using"
    /\ LET got == result[call[r]]
           differs == got.kind = "renewed" \/ (got.kind = "kept" /\ ref[r].printed)
       IN \/ /\ got.kind = "rejected"
             /\ authState' = "reauth_required"
             /\ UNCHANGED <<row, faults>>
          \/ /\ differs
             /\ row' = [slot |-> got.slot, printed |-> got.kind = "renewed"]
             /\ UNCHANGED <<authState, faults>>
          \/ /\ differs \/ got.kind = "rejected"
             /\ faults' = TRUE
             /\ UNCHANGED account
          \/ /\ ~differs /\ got.kind # "rejected"
             /\ UNCHANGED <<account, faults>>
    /\ Return({r})
    /\ UNCHANGED <<vault, platform, inflight, result, history, admin>>

-----------------------------------------------------------------------------
(* The outside world.                                                      *)

\* The access token of a vault entry nears its end (refreshLead).
Expire(s) ==
    /\ vault[s] \notin due
    /\ due' = due \cup {vault[s]}
    /\ UNCHANGED <<account, vault, current, flight, pc, local, history, admin, faults>>

\* revokeAccount reads the account, ...
RevokeReads ==
    /\ revoking.step = "idle"
    /\ revoking' = [step |-> "deleting", slot |-> row.slot]
    /\ revoked' = TRUE
    /\ UNCHANGED <<account, vault, platform, flight, pc, local, history, faults>>

\* ... deletes the entry it found (or tells the administrator to try again), ...
RevokeDeletes ==
    /\ revoking.step = "deleting"
    /\ \/ /\ vault' = Restrict(vault, DOMAIN vault \ {revoking.slot})
          /\ revoking' = [revoking EXCEPT !.step = "marking"]
       \/ /\ revoking' = [step |-> "idle", slot |-> 0]
          /\ UNCHANGED vault
    /\ UNCHANGED <<account, platform, flight, pc, local, history, revoked, faults>>

\* ... and marks the account, or fails to without a word.
RevokeMarks ==
    /\ revoking.step = "marking"
    /\ authState' \in {authState, "reauth_required"}
    /\ revoking' = [step |-> "idle", slot |-> 0]
    /\ UNCHANGED <<row, vault, platform, flight, pc, local, history, revoked, faults>>

\* The process dies; what it was doing is lost, the vault and the table stay.
Restart ==
    LET live == {r \in Requests : pc[r] \notin {"new", "done"}} IN
    /\ faults' = (faults \/ \E r \in live : pc[r] \in {"storing", "deleting"}
                         \/ result[r].kind = "renewed")
    /\ Return(live)
    /\ inflight' = Nobody
    /\ revoking' = [step |-> "idle", slot |-> 0]
    /\ UNCHANGED <<account, vault, platform, result, history, revoked>>

RequestStep(r) ==
    \/ Lead(r)
    \/ Wait(r)
    \/ Load(r)
    \/ Post(r)
    \/ Store(r)
    \/ DeleteOld(r)
    \/ Release(r)
    \/ Resume(r)
    \/ UseResult(r)

Next ==
    \/ \E r \in Requests : ReadAccount(r) \/ RequestStep(r)
    \/ \E s \in DOMAIN vault : Expire(s)
    \/ RevokeReads
    \/ RevokeDeletes
    \/ RevokeMarks
    \/ Restart

Spec == Init /\ [][Next]_vars

\* A request that has read the account goes on: calls of the platform end
\* within refreshTimeout, and the vault and the database answer.
Fairness == \A r \in Requests : WF_vars(RequestStep(r))
FairSpec == Spec /\ Fairness

-----------------------------------------------------------------------------
(* Properties.                                                             *)

\* However many requests find the tokens due at once, one of them refreshes
\* (service.go:33); the others never touch the vault or the platform.
OneRefreshAtATime == \A r, q \in Requests : Leading(r) /\ Leading(q) => r = q

\* A refresh token the platform has replaced is never presented again, however
\* old the reference a request goes by, unless an access failed half way.
RefreshTokenUsedOnce == ~faults => replayed = {}

\* Requests that race with one another never cost the user a new login: the
\* account is only marked after a revocation or a failure half way.
ReauthIsDeserved == authState = "reauth_required" => revoked \/ faults

\* A request that waits for another one's refresh does not wait for ever.
WaiterWakes == \A r \in Requests : pc[r] = "waiting" ~> pc[r] # "waiting"

\* checklist, MR-007 step 4 (refresh lock and comparison of versions): as long
\* as nothing fails and nobody revokes, the tokens of an account at rest can be
\* loaded.
TokensStayReachable ==
    ~faults /\ ~revoked /\ (\A r \in Requests : pc[r] \in {"new", "done"})
    => row.slot \in DOMAIN vault
===============================================================================
