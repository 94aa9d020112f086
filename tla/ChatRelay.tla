------------------------------ MODULE ChatRelay ------------------------------
(***************************************************************************)
(* One logical model served by /v1/chat/completions: the handler           *)
(* (handleChatCompletions, streamChat), the router's forwarding loop       *)
(* (Forward, ForwardStream), the connector's error classes, the attempt    *)
(* recorder and the usage ledger.                                          *)
(*                                                                         *)
(* A request reads the routing policy, reads each candidate's account,     *)
(* then tries the candidates in priority order: resolve the account again, *)
(* record the attempt, call upstream, record the outcome, fail over or     *)
(* stop.  Administrators change policies and accounts between any two of   *)
(* these steps, clients leave, any write to the ledger may fail, and the   *)
(* process may die and recover.                                            *)
(***************************************************************************)
EXTENDS RoutePolicy

CONSTANTS
    Requests,      \* request ids (each names one HTTP request)
    Failures,      \* ways an upstream call may end badly
    NoAccount

\* What can go wrong with a call: an HTTP status, no response at all, or a
\* response body that breaks off or does not decode.
NoResponse == {"status429", "statusAuth", "status404", "status5xx",
               "status4xx", "connect"}
BrokenBody == {"reset", "timeout", "malformed"}
Cause == NoResponse \cup BrokenBody

ASSUME RelayAssumption ==
    /\ Failures \subseteq Cause
    /\ NoAccount \notin Accounts

VARIABLES
    status,     \* accounts.status
    policy,     \* the routing_policies row of the model
    streaming,  \* the requests that ask for stream=true
    pc,         \* where the handler of a request is
    todo,       \* candidates whose account is still to be read
    queue,      \* usable candidates, in the order they will be tried
    at,         \* position in queue
    selected,   \* Decision.Selected: position of the last resolved candidate
    streamed,   \* something was handed to the client callback
    sealed,     \* the connector has seen [DONE]
    outcome,    \* lastErr, or "ok"
    attempts,   \* request_attempts rows of the request
    usage,      \* usage_events rows of the request
    skipped,    \* requests one of whose ledger writes failed
    written,    \* attempts whose bytes were written to the client
    ended       \* how the reply is closed; "lost" once the client is gone

given == <<status, policy, streaming>>
loop == <<todo, queue, at, selected>>
call == <<streamed, sealed, outcome>>
ledger == <<attempts, usage, skipped>>
wire == <<written, ended>>
vars == <<given, pc, loop, call, ledger, wire>>

Step == {"new", "filtering", "choosing", "calling", "settling", "accounting",
         "replying", "done", "dead"}
Result == {"none", "ok", "noCandidate", "unresolved", "truncated", "canceled",
           "write"} \cup Cause
Terminal == {"success", "failed", "partial", "interrupted"}
Attempt == [try : Nat, account : Accounts, status : Terminal \cup {"started"},
            metering : {"unset", "unknown", "reported"}]
Usage == [account : Accounts \cup {NoAccount}, ok : BOOLEAN]

Gone(r) == ended[r] = "lost"
Live(r) == pc[r] \notin {"new", "done", "dead"}

TypeOK ==
    /\ status \in [Accounts -> AccountStatus]
    /\ policy \in Policies
    /\ streaming \subseteq Requests
    /\ pc \in [Requests -> Step]
    /\ todo \in [Requests -> Seq(Candidate)]
    /\ queue \in [Requests -> Seq(Candidate)]
    /\ at \in [Requests -> Nat]
    /\ selected \in [Requests -> Nat]
    /\ streamed \in [Requests -> BOOLEAN]
    /\ sealed \in [Requests -> BOOLEAN]
    /\ outcome \in [Requests -> Result]
    /\ attempts \in [Requests -> SUBSET Attempt]
    /\ usage \in [Requests -> Seq(Usage)]
    /\ skipped \subseteq Requests
    /\ written \in [Requests -> SUBSET Nat]
    /\ ended \in [Requests -> {"open", "finished", "refused", "lost"}]

Init ==
    /\ status \in [Accounts -> AccountStatus]
    /\ policy \in Policies
    /\ streaming \in SUBSET Requests
    /\ pc = [r \in Requests |-> "new"]
    /\ todo = [r \in Requests |-> <<>>]
    /\ queue = [r \in Requests |-> <<>>]
    /\ at = [r \in Requests |-> 0]
    /\ selected = [r \in Requests |-> 0]
    /\ streamed = [r \in Requests |-> FALSE]
    /\ sealed = [r \in Requests |-> FALSE]
    /\ outcome = [r \in Requests |-> "none"]
    /\ attempts = [r \in Requests |-> {}]
    /\ usage = [r \in Requests |-> <<>>]
    /\ skipped = {}
    /\ written = [r \in Requests |-> {}]
    /\ ended = [r \in Requests |-> "open"]

-----------------------------------------------------------------------------
(* Candidate resolution: the policy is read once, the accounts one by one. *)

Goto(r, step) == pc' = [pc EXCEPT ![r] = step]

\* resolveCandidates gives up: no decision, the error goes to the handler.
NoCandidates(r, err) ==
    /\ outcome' = [outcome EXCEPT ![r] = err]
    /\ Goto(r, "accounting")
    /\ UNCHANGED <<loop, streamed, sealed>>

\* The candidates to try are known, and there is at least one.
StartLoop(r, cands) ==
    /\ queue' = [queue EXCEPT ![r] = cands]
    /\ todo' = [todo EXCEPT ![r] = <<>>]
    /\ at' = [at EXCEPT ![r] = 1]
    /\ outcome' = [outcome EXCEPT ![r] = "noCandidate"]
    /\ Goto(r, "choosing")
    /\ UNCHANGED <<selected, streamed, sealed>>

\* GetRoutingPolicyByAlias, and ListAccounts when there is no policy.
ReadPolicy(r) ==
    /\ pc[r] = "new"
    /\ \/ Gone(r) /\ NoCandidates(r, "canceled")
       \/ /\ ~Gone(r) /\ policy.kind # "absent"
          /\ policy.kind = "enabled" => policy.cands = <<>>
          /\ NoCandidates(r, "noCandidate")
       \/ /\ ~Gone(r) /\ policy.kind = "enabled" /\ policy.cands # <<>>
          /\ todo' = [todo EXCEPT ![r] = policy.cands]
          /\ Goto(r, "filtering")
          /\ UNCHANGED <<queue, at, selected, call>>
       \/ /\ ~Gone(r) /\ policy.kind = "absent"
          /\ LET cands == DefaultCandidates(status) IN
             IF cands = <<>> THEN NoCandidates(r, "noCandidate")
                             ELSE StartLoop(r, cands)
    /\ UNCHANGED <<given, ledger, wire>>

\* accountUsable for the next candidate; an unreadable account (deleted, or
\* the client has cancelled) is dropped like an unusable one.
FilterCandidate(r) ==
    /\ pc[r] = "filtering"
    /\ LET c == Head(todo[r])
           rest == Tail(todo[r])
           admit == Usable(status, c.account) /\ ~Gone(r)
           kept == IF admit THEN Append(queue[r], c) ELSE queue[r]
       IN \/ /\ rest # <<>>
             /\ todo' = [todo EXCEPT ![r] = rest]
             /\ queue' = [queue EXCEPT ![r] = kept]
             /\ UNCHANGED <<pc, at, selected, call>>
          \/ rest = <<>> /\ kept = <<>> /\ NoCandidates(r, "noCandidate")
          \/ rest = <<>> /\ kept # <<>> /\ StartLoop(r, ByPriority(kept))
    /\ UNCHANGED <<given, ledger, wire>>

-----------------------------------------------------------------------------
(* The forwarding loop.                                                    *)

Current(r) == queue[r][at[r]].account

\* connectors.Classify, as far as the failure reaches it: what client.Do or a
\* JSON decoder reports is handed on as it is.
Class(r, c) ==
    CASE c = "status429" -> "rate_limited"
      [] c = "statusAuth" -> "auth"
      [] c = "status404" -> "model_unavailable"
      [] c \in {"status5xx", "status4xx"} -> "upstream"
      [] c = "reset" /\ r \in streaming -> "network"
      [] c = "timeout" /\ r \in streaming -> "timeout"
      [] c = "truncated" -> "truncated"
      [] OTHER -> "unclassified"

\* connectors.Retryable on the class of the error.
Retryable(r, c) ==
    Class(r, c) \in {"rate_limited", "timeout", "network", "truncated", "upstream"}

\* A ledger write happens, or fails and is only logged.
Recorded(r, done) ==
    \/ done /\ UNCHANGED skipped
    \/ skipped' = skipped \cup {r} /\ UNCHANGED <<attempts, usage>>

\* Seeded fault: a failed resolve does not move on to the next candidate.
SkipCandidateStuck(r) ==
    /\ pc[r] = "choosing" /\ at[r] <= Len(queue[r])
    /\ outcome' = [outcome EXCEPT ![r] = "unresolved"]
    /\ UNCHANGED <<given, pc, loop, streamed, sealed, ledger, wire>>

\* resolve fails (the account was disabled, its credential is gone, the
\* client has cancelled): the candidate is passed over.
SkipCandidate(r) ==
    /\ pc[r] = "choosing" /\ at[r] <= Len(queue[r])
    /\ outcome' = [outcome EXCEPT ![r] = "unresolved"]
    /\ at' = [at EXCEPT ![r] = @ + 1]
    /\ UNCHANGED <<given, pc, todo, queue, selected, streamed, sealed, ledger, wire>>

\* resolve re-reads the account; then StartAttempt inserts the attempt.
BeginAttempt(r) ==
    /\ pc[r] = "choosing" /\ at[r] <= Len(queue[r])
    /\ status[Current(r)] = "active" /\ ~Gone(r)
    /\ selected' = [selected EXCEPT ![r] = at[r]]
    /\ sealed' = [sealed EXCEPT ![r] = FALSE]
    /\ Recorded(r, /\ attempts' = [attempts EXCEPT ![r] = @ \cup
                         {[try |-> at[r], account |-> Current(r),
                           status |-> "started", metering |-> "unset"]}]
                   /\ UNCHANGED usage)
    /\ Goto(r, "calling")
    /\ UNCHANGED <<given, todo, queue, at, streamed, outcome, wire>>

\* Every candidate has been tried or passed over.
GiveUp(r) ==
    /\ pc[r] = "choosing" /\ at[r] > Len(queue[r])
    /\ Goto(r, "accounting")
    /\ UNCHANGED <<given, loop, call, ledger, wire>>

\* One SSE event goes to the client; the last one of a whole stream holds
\* [DONE].  Once the client is gone nothing reaches it any more.
StreamEvent(r) ==
    /\ pc[r] = "calling" /\ r \in streaming
    /\ streamed' = [streamed EXCEPT ![r] = TRUE]
    /\ \E last \in BOOLEAN : sealed' = [sealed EXCEPT ![r] = @ \/ last]
    /\ written' = [written EXCEPT ![r] = IF Gone(r) THEN @ ELSE @ \cup {at[r]}]
    /\ UNCHANGED <<given, pc, loop, outcome, ledger, ended>>

EndCall(r, result) ==
    /\ outcome' = [outcome EXCEPT ![r] = result]
    /\ Goto(r, "settling")
    /\ UNCHANGED <<given, loop, streamed, sealed, ledger, wire>>

\* The upstream call returns to the loop.
CallReturns(r) ==
    /\ pc[r] = "calling"
    /\ \/ r \notin streaming /\ EndCall(r, "ok")
       \/ r \in streaming /\ EndCall(r, IF sealed[r] THEN "ok" ELSE "truncated")
       \/ \E c \in Failures \cap NoResponse : ~streamed[r] /\ EndCall(r, c)
       \/ \E c \in Failures \cap BrokenBody : EndCall(r, c)
       \/ Gone(r) /\ EndCall(r, "canceled")
       \/ Gone(r) /\ streamed[r] /\ EndCall(r, "write")

\* Seeded fault: an attempt that broke off after output counts as failed.
FinishAttemptNoPartial(r, result, metering) ==
    attempts' = [attempts EXCEPT ![r] =
        {IF a.try # at[r] THEN a
         ELSE [a EXCEPT !.status = IF result = "partial" THEN "failed" ELSE result,
                        !.metering = metering] : a \in @}]

\* Seeded fault: the update selects rows by request only, not by attempt.
FinishAttemptWholeRequest(r, result, metering) ==
    attempts' = [attempts EXCEPT ![r] =
        {[a EXCEPT !.status = result, !.metering = metering] : a \in @}]

\* Seeded fault: the reason code is stored where the status belongs.
FinishAttemptReason(r, result, metering) ==
    attempts' = [attempts EXCEPT ![r] =
        {IF a.try = at[r] THEN [a EXCEPT !.status = outcome[r], !.metering = metering]
                          ELSE a : a \in @}]

\* The row of the attempt in flight after FinishAttempt.
FinishAttempt(r, result, metering) ==
    attempts' = [attempts EXCEPT ![r] =
        {IF a.try = at[r] THEN [a EXCEPT !.status = result, !.metering = metering]
                          ELSE a : a \in @}]

\* How usage is marked: a stream hands back a Usage that nothing ever fills,
\* unless the call did not get as far as a response.
MeteringOf(r) ==
    IF r \in streaming
    THEN CASE outcome[r] = "connect" -> {"unknown"}
           [] outcome[r] = "canceled" /\ ~streamed[r] -> {"unknown", "reported"}
           [] OTHER -> {"reported"}
    ELSE IF outcome[r] = "ok" THEN {"unknown", "reported"} ELSE {"unknown"}

\* Seeded faults: output does not stop the failover; it skips rate limits.
FailoverReplays(r) == Retryable(r, outcome[r])
FailoverNotRateLimited(r) ==
    ~streamed[r] /\ Retryable(r, outcome[r]) /\ Class(r, outcome[r]) # "rate_limited"

\* Whether the loop goes on to the next candidate after a failed attempt.
Failover(r) == ~streamed[r] /\ Retryable(r, outcome[r])

\* The attempt is finished in the ledger; return, fail over or stop.
SettleAttempt(r) ==
    /\ pc[r] = "settling"
    /\ LET result == CASE outcome[r] = "ok" -> "success"
                       [] streamed[r] /\ outcome[r] # "ok" -> "partial"
                       [] OTHER -> "failed"
       IN  \E m \in MeteringOf(r) :
              Recorded(r, FinishAttempt(r, result, m) /\ UNCHANGED usage)
    /\ IF outcome[r] # "ok" /\ Failover(r)
       THEN at' = [at EXCEPT ![r] = @ + 1] /\ Goto(r, "choosing")
       ELSE UNCHANGED at /\ Goto(r, "accounting")
    /\ UNCHANGED <<given, todo, queue, selected, call, wire>>

\* Seeded fault: the usage write uses the request's own context.
RecordUsageCancelled(r) ==
    /\ pc[r] = "accounting"
    /\ LET account == IF selected[r] = 0 THEN NoAccount
                      ELSE queue[r][selected[r]].account
       IN  IF Gone(r) THEN UNCHANGED ledger
           ELSE Recorded(r, /\ usage' = [usage EXCEPT ![r] =
                                 Append(@, [account |-> account, ok |-> outcome[r] = "ok"])]
                            /\ UNCHANGED attempts)
    /\ Goto(r, "replying")
    /\ UNCHANGED <<given, loop, call, wire>>

\* recordUsage, in a context the client cannot cancel.
RecordUsage(r) ==
    /\ pc[r] = "accounting"
    /\ LET account == IF selected[r] = 0 THEN NoAccount
                      ELSE queue[r][selected[r]].account
       IN  Recorded(r, /\ usage' = [usage EXCEPT ![r] =
                              Append(@, [account |-> account, ok |-> outcome[r] = "ok"])]
                       /\ UNCHANGED attempts)
    /\ Goto(r, "replying")
    /\ UNCHANGED <<given, loop, call, wire>>

\* The handler writes the body, the error, or the end of the stream.
Reply(r) ==
    /\ pc[r] = "replying"
    /\ IF Gone(r) THEN UNCHANGED wire
       ELSE IF r \notin streaming /\ outcome[r] = "ok"
       THEN /\ written' = [written EXCEPT ![r] = @ \cup {at[r]}]
            /\ ended' = [ended EXCEPT ![r] = "finished"]
       ELSE /\ ended' = [ended EXCEPT ![r] = IF streamed[r] THEN "finished" ELSE "refused"]
            /\ UNCHANGED written
    /\ Goto(r, "done")
    /\ UNCHANGED <<given, loop, call, ledger>>

-----------------------------------------------------------------------------
(* The outside world.                                                      *)

\* The client closes its connection; the handler's context is cancelled.
Leave(r) ==
    /\ pc[r] # "done" /\ ended[r] = "open"
    /\ ended' = [ended EXCEPT ![r] = "lost"]
    /\ UNCHANGED <<given, pc, loop, call, ledger, written>>

\* An administrator enables or disables an account.
SetAccountStatus(a, s) ==
    /\ status' = [status EXCEPT ![a] = s]
    /\ UNCHANGED <<policy, streaming, pc, loop, call, ledger, wire>>

\* An administrator stores a policy for the model; policies are never deleted.
SavePolicy(p) ==
    /\ p.kind # "absent"
    /\ policy' = p
    /\ UNCHANGED <<status, streaming, pc, loop, call, ledger, wire>>

\* The process dies and starts again: before it listens it marks what was
\* left started as interrupted, unless that write fails.
Restart ==
    /\ pc' = [r \in Requests |-> IF Live(r) THEN "dead" ELSE pc[r]]
    /\ ended' = [r \in Requests |->
                    IF Live(r) /\ ended[r] = "open" THEN "lost" ELSE ended[r]]
    /\ \/ /\ attempts' = [r \in Requests |->
                 {IF a.status = "started"
                    THEN [a EXCEPT !.status = "interrupted", !.metering = "unknown"]
                    ELSE a : a \in attempts[r]}]
          /\ UNCHANGED skipped
       \/ /\ skipped' = skipped \cup {r \in Requests :
                 \E a \in attempts[r] : a.status = "started"}
          /\ UNCHANGED attempts
    /\ UNCHANGED <<given, loop, call, usage, written>>

HandlerStep(r) ==
    \/ ReadPolicy(r)
    \/ FilterCandidate(r)
    \/ SkipCandidate(r)
    \/ BeginAttempt(r)
    \/ GiveUp(r)
    \/ CallReturns(r)
    \/ SettleAttempt(r)
    \/ RecordUsage(r)
    \/ Reply(r)

Next ==
    \/ \E r \in Requests : HandlerStep(r) \/ StreamEvent(r) \/ Leave(r)
    \/ \E a \in Accounts, s \in AccountStatus : SetAccountStatus(a, s)
    \/ \E p \in Policies : SavePolicy(p)
    \/ Restart

Spec == Init /\ [][Next]_vars

\* The handler may be in a write that waits until the client reads.
Writing(r) ==
    /\ ~Gone(r)
    /\ pc[r] = "replying" \/ (pc[r] = "calling" /\ streamed[r])

\* A handler that has started keeps running, and every upstream call of the
\* chat connectors ends within defaultTimeout.  Streams may trickle on, and as
\* the server has no WriteTimeout (main.go:135-139) nothing ends a write.
Fairness == \A r \in Requests : WF_vars(Live(r) /\ ~Writing(r) /\ HandlerStep(r))
FairSpec == Spec /\ Fairness

-----------------------------------------------------------------------------
(* Properties.                                                             *)

\* The reply obeys the common contract: one attempt supplies all its bytes,
\* errors only come before output, a closed reply stays closed (router.go:209).
Contract == INSTANCE ReplyContract
ReplyKept == Contract!Spec

\* The attempts table tells what happened on the wire: success and partial
\* rows supplied the bytes the client saw, failed rows none; a row that is
\* still open belongs to a call in flight, an interrupted one to a dead
\* process (usage/attempts, main.go:76-79).
AttemptsTellTruth ==
    \A r \in Requests \ skipped : \A a \in attempts[r] :
        /\ a.status = "failed" => a.try \notin written[r]
        /\ a.status = "partial" => written[r] \subseteq {a.try}
        /\ a.status = "success" => /\ written[r] \subseteq {a.try}
                                   /\ ended[r] # "refused"
        /\ a.status = "started" => pc[r] \in {"calling", "settling"} /\ a.try = at[r]
        /\ a.status = "interrupted" => pc[r] = "dead"

\* A finished request has exactly one usage event, cancelled by the client or
\* not (api.go:1160), charged to the account of its last attempt, and counted
\* as a success exactly when that attempt succeeded.
UsageMatchesAttempts ==
    \A r \in Requests \ skipped : pc[r] \in {"replying", "done"} =>
        LET last == {a \in attempts[r] : \A b \in attempts[r] : b.try <= a.try}
        IN  /\ Len(usage[r]) = 1
            /\ usage[r][1].ok = \E a \in attempts[r] : a.status = "success"
            /\ {usage[r][1].account} =
                  IF attempts[r] = {} THEN {NoAccount} ELSE {a.account : a \in last}

\* A request only comes back with an error that another account could have
\* cured once every candidate had its turn.
FailoverExhausts ==
    \A r \in Requests : ended[r] = "refused" /\ Retryable(r, outcome[r]) =>
        at[r] > Len(queue[r])

\* An account that is only monitored is never called (data-contracts-v1.md:11),
\* whatever the stored policy names.
MonitorOnlyNeverTried ==
    \A r \in Requests : \A a \in attempts[r] : a.account \notin MonitorOnly

\* The outcome of an attempt is written once: no later failover, restart or
\* other attempt rewrites it.
OutcomesAreFinal ==
    [][\A r \in Requests : \A a \in attempts[r] :
           a.status \in Terminal => a \in attempts'[r]]_vars

\* A request that has entered the handler is answered, or dies with the
\* process, or its client for ever neither reads nor leaves: the loop cannot
\* hang or go round for ever.
RequestAnswered ==
    \A r \in Requests : Live(r) ~> (pc[r] \in {"done", "dead"} \/ []Writing(r))

\* router.go:342: failover on 429, timeouts, network errors, truncation and
\* 5xx.  An error of that kind before any output only reaches the client when
\* no candidate is left.
DocumentedFailover ==
    \A r \in Requests :
        /\ ended[r] = "refused"
        /\ outcome[r] \in {"status429", "timeout", "connect", "reset", "truncated", "status5xx"}
        => at[r] > Len(queue[r])
=============================================================================
