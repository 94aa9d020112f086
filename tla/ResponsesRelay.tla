---------------------------- MODULE ResponsesRelay ----------------------------
(***************************************************************************)
(* /v1/responses: handleResponses with its own forwarding loop,            *)
(* forwardResponses, and the response_bindings table that ties a           *)
(* conversation handle (a response id minted upstream) to the account that *)
(* minted it.  A request that continues a conversation must reach that     *)
(* account and no other; a fresh request may fail over.                    *)
(*                                                                         *)
(* Candidate resolution is the router's (modelled step by step in          *)
(* ChatRelay) and is one step here.                                        *)
(***************************************************************************)
EXTENDS Sequences, SequencesExt, Selection

CONSTANTS
    Requests,
    Accounts,
    MonitorOnly,   \* accounts whose mode is monitor_only
    Order,         \* the routing policy of the model: accounts by priority
    Handles,       \* response ids upstreams hand out
    Failures,      \* ways responses.Forward may fail
    NoHandle,
    NoAccount

\* An HTTP status; a transport error whose text holds one of the words
\* responsesRetryable looks for; one without (DNS, a cancelled context).
Statuses == {"status429", "status5xx", "status4xx"}
Errors == {"network", "silent"}

ASSUME RelayAssumption ==
    /\ MonitorOnly \subseteq Accounts
    /\ Order \in Seq(Accounts)
    /\ Failures \subseteq Statuses \cup Errors
    /\ NoHandle \notin Handles
    /\ NoAccount \notin Accounts

VARIABLES
    status,     \* accounts.status
    binding,    \* response_bindings: handle -> account
    expired,    \* handles whose binding's expires_at has passed
    pc,
    prev,       \* previous_response_id of a request
    queue,      \* candidate accounts of a request
    at,         \* position in queue
    started,    \* forwardResponses of this candidate has written something
    meta,       \* the response id seen in this candidate's output
    outcome,    \* how the call ended, or lastErr
    usage,      \* usage_events rows of the request
    unsaved,    \* requests one of whose ledger or binding writes failed
    written,    \* candidates (positions) whose bytes were written
    ended       \* how the reply is closed; "lost" once the client is gone

bindings == <<binding, expired>>
loop == <<prev, queue, at>>
call == <<started, meta, outcome>>
log == <<usage, unsaved>>
wire == <<written, ended>>
vars == <<status, bindings, pc, loop, call, log, wire>>

Step == {"new", "bound", "choosing", "calling", "returned", "binding",
         "failed", "closing", "done"}
Result == {"none", "ok", "unresolved", "write"} \cup Statuses \cup Errors
Usage == [account : Accounts \cup {NoAccount}, ok : BOOLEAN]

Gone(r) == ended[r] = "lost"
Current(r) == queue[r][at[r]]
Sticky(r) == prev[r] # NoHandle
Usable(a) == status[a] = "active" /\ a \notin MonitorOnly

TypeOK ==
    /\ status \in [Accounts -> {"active", "disabled"}]
    /\ binding \in [Handles -> Accounts \cup {NoAccount}]
    /\ expired \subseteq Handles
    /\ pc \in [Requests -> Step]
    /\ prev \in [Requests -> Handles \cup {NoHandle}]
    /\ queue \in [Requests -> Seq(Accounts)]
    /\ at \in [Requests -> Nat]
    /\ started \in [Requests -> BOOLEAN]
    /\ meta \in [Requests -> Handles \cup {NoHandle}]
    /\ outcome \in [Requests -> Result]
    /\ usage \in [Requests -> Seq(Usage)]
    /\ unsaved \subseteq Requests
    /\ written \in [Requests -> SUBSET Nat]
    /\ ended \in [Requests -> {"open", "finished", "refused", "lost"}]

Init ==
    /\ status \in [Accounts -> {"active", "disabled"}]
    /\ binding = [h \in Handles |-> NoAccount]
    /\ expired = {}
    /\ pc = [r \in Requests |-> "new"]
    /\ prev = [r \in Requests |-> NoHandle]
    /\ queue = [r \in Requests |-> <<>>]
    /\ at = [r \in Requests |-> 1]
    /\ started = [r \in Requests |-> FALSE]
    /\ meta = [r \in Requests |-> NoHandle]
    /\ outcome = [r \in Requests |-> "none"]
    /\ usage = [r \in Requests |-> <<>>]
    /\ unsaved = {}
    /\ written = [r \in Requests |-> {}]
    /\ ended = [r \in Requests |-> "open"]

Goto(r, step) == pc' = [pc EXCEPT ![r] = step]
Close(r, how) == ended' = [ended EXCEPT ![r] = IF @ = "open" THEN how ELSE @]
Clear(f, S, value) == [r \in Requests |-> IF r \in S THEN value ELSE f[r]]

\* Handlers end; their local variables go with them.
Return(S) ==
    /\ pc' = Clear(pc, S, "done")
    /\ prev' = Clear(prev, S, NoHandle)
    /\ queue' = Clear(queue, S, <<>>)
    /\ at' = Clear(at, S, 1)
    /\ started' = Clear(started, S, FALSE)
    /\ meta' = Clear(meta, S, NoHandle)
    /\ outcome' = Clear(outcome, S, "none")

\* The handler answers with an error before the loop: nothing is recorded.
Reject(r) ==
    /\ Close(r, "refused")
    /\ Return({r})
    /\ UNCHANGED <<status, bindings, log, written>>

-----------------------------------------------------------------------------
(* Choosing the candidates.                                                *)

\* The policy's accounts that may be used, in its order.
Candidates == Kept(Order, {i \in DOMAIN Order : Usable(Order[i])})

\* No previous_response_id: ResolveCandidates.
StartFresh(r) ==
    /\ pc[r] = "new"
    /\ LET cands == IF Gone(r) THEN <<>> ELSE Candidates IN
       \/ cands = <<>> /\ Reject(r)
       \/ /\ cands # <<>>
          /\ queue' = [queue EXCEPT ![r] = cands]
          /\ Goto(r, "choosing")
          /\ UNCHANGED <<status, bindings, prev, at, call, log, wire>>

\* A request with previous_response_id: GetResponseBinding.
StartContinuation(r, h) ==
    /\ pc[r] = "new"
    /\ IF binding[h] = NoAccount \/ h \in expired \/ Gone(r) THEN Reject(r)
       ELSE /\ prev' = [prev EXCEPT ![r] = h]
            /\ queue' = [queue EXCEPT ![r] = <<binding[h]>>]
            /\ Goto(r, "bound")
            /\ UNCHANGED <<status, bindings, at, call, log, wire>>

\* Seeded fault: when the bound account is out, the policy's others step in.
CheckBoundElseOthers(r) ==
    /\ pc[r] = "bound"
    /\ IF Usable(Current(r)) THEN UNCHANGED queue
       ELSE queue' = [queue EXCEPT ![r] = Candidates]
    /\ Goto(r, "choosing")
    /\ UNCHANGED <<status, bindings, prev, at, call, log, wire>>

\* The bound account must still be usable: no other account stands in for it.
CheckBound(r) ==
    /\ pc[r] = "bound"
    /\ IF Usable(Current(r)) /\ ~Gone(r)
       THEN Goto(r, "choosing") /\ UNCHANGED <<status, bindings, loop, call, log, wire>>
       ELSE Reject(r)

-----------------------------------------------------------------------------
(* The forwarding loop.                                                    *)

Advance(r) == at' = [at EXCEPT ![r] = @ + 1]

\* GetAccount or resolveTarget fails: the next candidate, or, when the account
\* needs a new authorisation, no further one.
SkipCandidate(r) ==
    /\ pc[r] = "choosing" /\ at[r] <= Len(queue[r])
    /\ outcome' = [outcome EXCEPT ![r] = "unresolved"]
    /\ \/ Advance(r) /\ UNCHANGED pc
       \/ Goto(r, "failed") /\ UNCHANGED at
    /\ UNCHANGED <<status, bindings, prev, queue, started, meta, log, wire>>

\* The account is read and resolved again, and the request goes out to it.
Send(r) ==
    /\ pc[r] = "choosing" /\ at[r] <= Len(queue[r])
    /\ status[Current(r)] = "active" /\ ~Gone(r)
    /\ started' = [started EXCEPT ![r] = FALSE]
    /\ meta' = [meta EXCEPT ![r] = NoHandle]
    /\ Goto(r, "calling")
    /\ UNCHANGED <<status, bindings, loop, outcome, log, wire>>

\* Every candidate had its turn.
RunOut(r) ==
    /\ pc[r] = "choosing" /\ at[r] > Len(queue[r])
    /\ Goto(r, "failed")
    /\ UNCHANGED <<status, bindings, loop, call, log, wire>>

\* A piece of the upstream's answer goes to the client; if it carries a
\* response id, that is the reply's handle from now on.
Output(r) ==
    /\ pc[r] = "calling" /\ ~Gone(r)
    /\ started' = [started EXCEPT ![r] = TRUE]
    /\ written' = [written EXCEPT ![r] = @ \cup {at[r]}]
    /\ \E h \in Handles \cup {meta[r]} : meta' = [meta EXCEPT ![r] = h]
    /\ UNCHANGED <<status, bindings, pc, loop, outcome, log, ended>>

\* The write to a client that has left fails.
OutputFails(r) ==
    /\ pc[r] = "calling" /\ Gone(r)
    /\ started' = [started EXCEPT ![r] = TRUE]
    /\ outcome' = [outcome EXCEPT ![r] = "write"]
    /\ Goto(r, "returned")
    /\ UNCHANGED <<status, bindings, loop, meta, log, wire>>

\* responses.Forward returns: the body has ended (a stream that ends early is
\* no error), or the call fails.
CallReturns(r, result) ==
    /\ pc[r] = "calling"
    /\ result \in Statuses => ~started[r]
    /\ outcome' = [outcome EXCEPT ![r] = result]
    /\ Goto(r, "returned")
    /\ UNCHANGED <<status, bindings, loop, started, meta, log, wire>>

\* recordResponsesUsage; a failing write is only logged.
Charge(r, account, ok) ==
    \/ /\ usage' = [usage EXCEPT ![r] = Append(@, [account |-> account, ok |-> ok])]
       /\ UNCHANGED unsaved
    \/ unsaved' = unsaved \cup {r} /\ UNCHANGED usage

\* responsesRetryable: 429, 5xx, or a text that smells of the network.
Retryable(result) == result \in {"status429", "status5xx", "network", "write"}

\* Seeded fault: a call counts as a success as soon as it has output.
ChargeOnOutput(r) == Charge(r, Current(r), started[r])

\* What forwardResponses records when the call is over: a success, or a
\* failure after output.  The rest is left to the loop.
ChargeCall(r) ==
    IF outcome[r] = "ok" \/ started[r] THEN Charge(r, Current(r), outcome[r] = "ok")
                                       ELSE UNCHANGED log

\* forwardResponses and the loop body end.  The flag started stays behind in
\* the call: the loop decides on the error alone.
Settle(r) ==
    /\ pc[r] = "returned"
    /\ ChargeCall(r)
    /\ \/ outcome[r] = "ok" /\ Goto(r, "binding") /\ UNCHANGED at
       \/ /\ outcome[r] # "ok" /\ ~Sticky(r) /\ Retryable(outcome[r])
          /\ Advance(r) /\ Goto(r, "choosing")
       \/ /\ outcome[r] # "ok" /\ (Sticky(r) \/ ~Retryable(outcome[r]))
          /\ Goto(r, "failed") /\ UNCHANGED at
    /\ UNCHANGED <<status, bindings, prev, queue, call, wire>>

\* Seeded fault: the upsert updates the account of a handle it knows.
BoundToLatest(r, h) == Current(r)

\* SaveResponseBinding: the conflict clause leaves account_id alone.
BoundTo(r, h) == IF binding[h] = NoAccount THEN Current(r) ELSE binding[h]

\* Seeded fault: the handle is saved after the handler has returned.
SaveBindingLate(r) ==
    /\ pc[r] = "binding"
    /\ Goto(r, "closing")
    /\ UNCHANGED <<status, bindings, loop, call, log, wire>>

\* The handle is saved, and its expiry renewed, in a context the client
\* cannot cancel, before the handler returns; a failing write is only logged.
SaveBinding(r) ==
    /\ pc[r] = "binding"
    /\ LET h == meta[r] IN
       \/ h = NoHandle /\ UNCHANGED <<bindings, unsaved>>
       \/ /\ h # NoHandle
          /\ binding' = [binding EXCEPT ![h] = BoundTo(r, h)]
          /\ expired' = expired \ {h}
          /\ UNCHANGED unsaved
       \/ /\ h # NoHandle
          /\ unsaved' = unsaved \cup {r}
          /\ UNCHANGED bindings
    /\ Goto(r, "closing")
    /\ UNCHANGED <<status, loop, call, usage, wire>>

\* The handler returns and the server closes the reply.
CloseReply(r) ==
    /\ pc[r] = "closing"
    /\ Close(r, "finished")
    /\ Return({r})
    /\ UNCHANGED <<status, bindings, log, written>>

\* Seeded fault: a refused reply is marked as failed.
FailAsFailed(r) ==
    /\ pc[r] = "failed"
    /\ Charge(r, NoAccount, FALSE)
    /\ Close(r, "failed")
    /\ Return({r})
    /\ UNCHANGED <<status, bindings, written>>

\* The loop is left with an error: it is charged to nobody and written out.
Fail(r) ==
    /\ pc[r] = "failed"
    /\ Charge(r, NoAccount, FALSE)
    /\ Close(r, "refused")
    /\ Return({r})
    /\ UNCHANGED <<status, bindings, written>>

-----------------------------------------------------------------------------
(* The outside world.                                                      *)

Leave(r) ==
    /\ pc[r] # "done" /\ ended[r] = "open"
    /\ ended' = [ended EXCEPT ![r] = "lost"]
    /\ UNCHANGED <<status, bindings, pc, loop, call, log, written>>

SetAccountStatus(a, s) ==
    /\ status' = [status EXCEPT ![a] = s]
    /\ UNCHANGED <<bindings, pc, loop, call, log, wire>>

\* responsesBindingTTL passes.
Expire(h) ==
    /\ binding[h] # NoAccount
    /\ expired' = expired \cup {h}
    /\ UNCHANGED <<status, binding, pc, loop, call, log, wire>>

\* The process dies and starts again; the bindings are in the database.
Restart ==
    LET live == {r \in Requests : pc[r] \notin {"new", "done"}} IN
    /\ Return(live)
    /\ ended' = [r \in Requests |->
                    IF r \in live /\ ended[r] = "open" THEN "lost" ELSE ended[r]]
    /\ UNCHANGED <<status, bindings, log, written>>

HandlerStep(r) ==
    \/ StartFresh(r)
    \/ \E h \in Handles : StartContinuation(r, h)
    \/ CheckBound(r)
    \/ SkipCandidate(r)
    \/ Send(r)
    \/ RunOut(r)
    \/ Output(r)
    \/ OutputFails(r)
    \/ \E result \in Failures \cup {"ok"} : CallReturns(r, result)
    \/ Settle(r)
    \/ SaveBinding(r)
    \/ CloseReply(r)
    \/ Fail(r)

Next ==
    \/ \E r \in Requests : HandlerStep(r) \/ Leave(r)
    \/ \E a \in Accounts, s \in {"active", "disabled"} : SetAccountStatus(a, s)
    \/ \E h \in Handles : Expire(h)
    \/ Restart

Spec == Init /\ [][Next]_vars

-----------------------------------------------------------------------------
(* Properties.                                                             *)

\* A request that continues a conversation is sent to the account its handle
\* is bound to and to no other, whatever was disabled, failed over, minted
\* again or restarted in between; that account is not one that is only
\* monitored (responses_oauth.go:86-87, 144).
ConversationAffinity ==
    \A r \in Requests : Sticky(r) /\ pc[r] \in {"calling", "returned", "binding", "closing"} =>
        Current(r) = binding[prev[r]] /\ Current(r) \notin MonitorOnly

\* A handle stays with one account for good: no later reply, not even one of
\* another account with the same id, moves a binding.
BindingNeverMoves ==
    [][\A h \in Handles : binding[h] # NoAccount => binding'[h] = binding[h]]_vars

\* A conversation can be continued from the moment the client sees the end of
\* its reply, unless the write of the binding failed.
HandleKnownAfterReply ==
    [][\A r \in Requests :
          ended[r] = "open" /\ ended'[r] = "finished" /\ meta[r] # NoHandle
          => binding[meta[r]] # NoAccount \/ r \in unsaved]_vars

\* The ledger knows who answered: the account of a reply that came to its end
\* has the last usage event of the request, the only one without an error.
UsageTellsWhoAnswered ==
    \A r \in Requests \ unsaved :
        /\ pc[r] \in {"binding", "closing"} =>
              usage[r] # <<>> /\ Last(usage[r]) = [account |-> Current(r), ok |-> TRUE]
        /\ \A k \in DOMAIN usage[r] : usage[r][k].ok =>
              k = Len(usage[r]) /\ pc[r] \in {"binding", "closing", "done"}

\* responses_oauth.go:200-201: once output has started no other candidate is
\* tried, and no error body is written after it.
Contract == INSTANCE ReplyContract
ReplyKept == Contract!Spec
=============================================================================
