----------------------------- MODULE TokenAccess -----------------------------
(***************************************************************************)
(* The inference door of the gateway: access.Service together with the     *)
(* requireToken middleware in front of every /v1/* handler.  A request     *)
(* presents a token, is authenticated against the access_tokens table,     *)
(* takes one of the token's concurrency slots, is checked against the      *)
(* token's model whitelist, is forwarded upstream and gives the slot back. *)
(* Administrators create, disable, enable and delete tokens meanwhile;     *)
(* the clock passes expiry dates; the process may crash and restart.       *)
(*                                                                         *)
(* The slot counter lives in memory (Service.inUse), the tokens in the     *)
(* database.  A request works on the copy of the token it read when it was *)
(* authenticated: nothing re-reads the row afterwards.                     *)
(***************************************************************************)
EXTENDS Naturals, FiniteSets

CONSTANTS
    Requests,     \* request slots of the HTTP server (one goroutine each)
    Tokens,       \* identities of access tokens, each created at most once
    Models,       \* logical model names a request may ask for
    Limit,        \* Limit[t]: max_concurrency of token t, 0 means unlimited
    Whitelist,    \* Whitelist[t]: model_whitelist of t, {} allows every model
    Expiring,     \* the tokens created with a non-empty expires_at
    NoToken       \* what a request holds before it is authenticated

ASSUME ConstantsAssumption ==
    /\ IsFiniteSet(Requests)
    /\ Limit \in [Tokens -> Nat]
    /\ Whitelist \in [Tokens -> SUBSET Models]
    /\ Expiring \subseteq Tokens
    /\ NoToken \notin Tokens

VARIABLES
    row,       \* row[t]: the row of t in access_tokens
    expired,   \* tokens whose expires_at lies in the past
    inUse,     \* Service.inUse
    pc,        \* pc[r]: where request r is in its handler
    tok        \* tok[r]: the token copy r was authenticated with

vars == <<row, expired, inUse, pc, tok>>

RowState == {"none", "enabled", "disabled", "deleted"}
Step == {"idle", "authenticated", "admitted", "forwarding", "closing"}

\* Requests that own a slot of token t, from Acquire to the deferred release.
Holding == {"admitted", "forwarding", "closing"}
Holders(t) == {r \in Requests : tok[r] = t /\ pc[r] \in Holding}

\* FindTokenByKeyHash finds the row, it is enabled and not expired.
Valid(t) == row[t] = "enabled" /\ t \notin expired

\* access.ModelAllowed: an empty whitelist allows every model.
ModelAllowed(t, m) == Whitelist[t] = {} \/ m \in Whitelist[t]

TypeOK ==
    /\ row \in [Tokens -> RowState]
    /\ expired \subseteq Expiring
    /\ inUse \in [Tokens -> Nat]
    /\ pc \in [Requests -> Step]
    /\ tok \in [Requests -> Tokens \cup {NoToken}]

Init ==
    /\ row = [t \in Tokens |-> "none"]
    /\ expired = {}
    /\ inUse = [t \in Tokens |-> 0]
    /\ pc = [r \in Requests |-> "idle"]
    /\ tok = [r \in Requests |-> NoToken]

-----------------------------------------------------------------------------
(* The request side: requireToken and the handler behind it.               *)

\* Seeded fault: the enabled/expiry checks of Authenticate are forgotten.
AuthenticateUnchecked(r, t) ==
    /\ pc[r] = "idle"
    /\ row[t] # "none"
    /\ pc' = [pc EXCEPT ![r] = "authenticated"]
    /\ tok' = [tok EXCEPT ![r] = t]
    /\ UNCHANGED <<row, expired, inUse>>

\* A request arrives bearing t; Authenticate reads the row and accepts it.
\* A missing, unknown, disabled or expired token is answered 401 and changes
\* nothing, so a refused arrival is no step of this model.
Authenticate(r, t) ==
    /\ pc[r] = "idle"
    /\ Valid(t)
    /\ pc' = [pc EXCEPT ![r] = "authenticated"]
    /\ tok' = [tok EXCEPT ![r] = t]
    /\ UNCHANGED <<row, expired, inUse>>

\* Seeded fault: the limit test is off by one.
AcquireOffByOne(r) ==
    /\ pc[r] = "authenticated"
    /\ LET t == tok[r] IN
       /\ ~(Limit[t] > 0 /\ inUse[t] > Limit[t])
       /\ inUse' = [inUse EXCEPT ![t] = @ + 1]
    /\ pc' = [pc EXCEPT ![r] = "admitted"]
    /\ UNCHANGED <<row, expired, tok>>

\* Service.Acquire under the mutex; the limit is that of the token copy.
Acquire(r) ==
    /\ pc[r] = "authenticated"
    /\ LET t == tok[r] IN
       /\ ~(Limit[t] > 0 /\ inUse[t] >= Limit[t])
       /\ inUse' = [inUse EXCEPT ![t] = @ + 1]
    /\ pc' = [pc EXCEPT ![r] = "admitted"]
    /\ UNCHANGED <<row, expired, tok>>

\* Service.Acquire returns ErrConcurrencyLimit: 429, nothing acquired.
RefuseSlot(r) ==
    /\ pc[r] = "authenticated"
    /\ LET t == tok[r] IN Limit[t] > 0 /\ inUse[t] >= Limit[t]
    /\ pc' = [pc EXCEPT ![r] = "idle"]
    /\ tok' = [tok EXCEPT ![r] = NoToken]
    /\ UNCHANGED <<row, expired, inUse>>

\* checkModelAllowed lets the request through to the forwarding loop.
AdmitModel(r, m) ==
    /\ pc[r] = "admitted"
    /\ ModelAllowed(tok[r], m)
    /\ pc' = [pc EXCEPT ![r] = "forwarding"]
    /\ UNCHANGED <<row, expired, inUse, tok>>

\* Seeded fault: the 403 path returns without giving the slot back.
RefuseModelLeaks(r, m) ==
    /\ pc[r] = "admitted"
    /\ ~ModelAllowed(tok[r], m)
    /\ pc' = [pc EXCEPT ![r] = "idle"]
    /\ tok' = [tok EXCEPT ![r] = NoToken]
    /\ UNCHANGED <<row, expired, inUse>>

\* checkModelAllowed answers 403 and the handler returns.
RefuseModel(r, m) ==
    /\ pc[r] = "admitted"
    /\ ~ModelAllowed(tok[r], m)
    /\ pc' = [pc EXCEPT ![r] = "closing"]
    /\ UNCHANGED <<row, expired, inUse, tok>>

\* The handler returns: answered, failed, cancelled by the client, panicked; or
\* before it has looked at the model, with an unreadable body or no need of one.
HandlerReturns(r) ==
    /\ pc[r] \in {"admitted", "forwarding"}
    /\ pc' = [pc EXCEPT ![r] = "closing"]
    /\ UNCHANGED <<row, expired, inUse, tok>>

\* The deferred release: once per acquisition, never below zero.
Release(r) ==
    /\ pc[r] = "closing"
    /\ inUse' = [inUse EXCEPT ![tok[r]] = IF @ > 0 THEN @ - 1 ELSE @]
    /\ pc' = [pc EXCEPT ![r] = "idle"]
    /\ tok' = [tok EXCEPT ![r] = NoToken]
    /\ UNCHANGED <<row, expired>>

-----------------------------------------------------------------------------
(* The administration side, the clock and the process.                     *)

\* createToken: a fresh random id, inserted enabled.
CreateToken(t) ==
    /\ row[t] = "none"
    /\ row' = [row EXCEPT ![t] = "enabled"]
    /\ UNCHANGED <<expired, inUse, pc, tok>>

\* tokenAction PATCH: 404 (no change) when the row does not exist.
SetTokenEnabled(t, on) ==
    /\ row[t] \in {"enabled", "disabled"}
    /\ row' = [row EXCEPT ![t] = IF on THEN "enabled" ELSE "disabled"]
    /\ UNCHANGED <<expired, inUse, pc, tok>>

\* tokenAction DELETE: the row goes, requests in flight keep their copy.
DeleteToken(t) ==
    /\ row[t] \in {"enabled", "disabled"}
    /\ row' = [row EXCEPT ![t] = "deleted"]
    /\ UNCHANGED <<expired, inUse, pc, tok>>

\* The clock passes the expires_at of t.
Expire(t) ==
    /\ t \in Expiring \ expired
    /\ expired' = expired \cup {t}
    /\ UNCHANGED <<row, inUse, pc, tok>>

\* The process dies and is started again: memory is lost, the table is not.
Restart ==
    /\ inUse' = [t \in Tokens |-> 0]
    /\ pc' = [r \in Requests |-> "idle"]
    /\ tok' = [r \in Requests |-> NoToken]
    /\ UNCHANGED <<row, expired>>

\* The steps a request takes by itself, without a word from anybody.
DoorStep(r) == Acquire(r) \/ RefuseSlot(r) \/ Release(r)

HandlerStep(r) ==
    \/ DoorStep(r)
    \/ \E m \in Models : AdmitModel(r, m) \/ RefuseModel(r, m)
    \/ HandlerReturns(r)

Arrival(r) == \E t \in Tokens : Authenticate(r, t)

Admin ==
    \E t \in Tokens :
        \/ CreateToken(t)
        \/ \E on \in BOOLEAN : SetTokenEnabled(t, on)
        \/ DeleteToken(t)
        \/ Expire(t)

Next ==
    \/ \E r \in Requests : Arrival(r) \/ HandlerStep(r)
    \/ Admin
    \/ Restart

Spec == Init /\ [][Next]_vars

\* A goroutine at the door keeps running.  Behind it nothing is fair: a client
\* may never finish its body or read its answer, an upstream may stop sending,
\* and neither the server nor the client of the responses and messages relays
\* has a timeout for that (main.go:90-98, 135-139).  Nor must anybody arrive.
Fairness == \A r \in Requests : WF_vars(DoorStep(r))
FairSpec == Spec /\ Fairness

-----------------------------------------------------------------------------
(* Properties.                                                             *)

\* The in-memory counter of a token is exactly the number of requests that
\* hold one of its slots: no path (401, 403, 429, error, panic, restart)
\* leaks a slot or returns it twice (access.go:102-103).
SlotAccounting == \A t \in Tokens : inUse[t] = Cardinality(Holders(t))

\* A token with a positive max_concurrency never has more requests past the
\* door than that, however acquisitions and releases interleave.
ConcurrencyCap ==
    \A t \in Tokens : Limit[t] > 0 => Cardinality(Holders(t)) <= Limit[t]

\* The holders of t in whose handler the next move is the client's or the
\* upstream's.
Waiting(t) == {r \in Holders(t) : pc[r] \in {"admitted", "forwarding"}}

\* Revocation drains: once a token stays disabled, deleted or expired, nobody
\* keeps or takes a slot of it but who was admitted before and whose client or
\* upstream never moves again.
RevocationDrains ==
    \A t \in Tokens :
        <>[](~Valid(t)) =>
            \A r \in Requests : <>[](r \notin Holders(t)) \/ <>[](r \in Waiting(t))

\* No slot is lost for good: a limited token is free to be used again and
\* again, unless as many requests as it admits wait for ever for their client
\* or upstream.
SlotComesBack ==
    \A t \in Tokens :
        Limit[t] > 0 => \/ []<>(inUse[t] < Limit[t])
                        \/ <>[](Cardinality(Waiting(t)) >= Limit[t])
=============================================================================
