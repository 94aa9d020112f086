--------------------------- MODULE ChatRelay_proofs ---------------------------
(***************************************************************************)
(* ChatRelay implements ReplyContract, and its two ledgers tell the truth, *)
(* for any number of requests, accounts and policies, whatever             *)
(* administrators, clients and crashes do.                                 *)
(***************************************************************************)
EXTENDS ChatRelay, Selection_proofs

\* The variables the argument is about, with their domains.
Shape ==
    /\ pc \in [Requests -> Step]
    /\ at \in [Requests -> Nat]
    /\ streamed \in [Requests -> BOOLEAN]
    /\ written \in [Requests -> SUBSET Nat]
    /\ ended \in [Requests -> {"open", "finished", "refused", "lost"}]

\* Why no second attempt can reach the client: bytes are always those of the
\* candidate in hand; the loop only moves on while the flag streamed is
\* clear, and while it is clear nothing has been written.
OneSource(r) ==
    /\ written[r] \subseteq {at[r]}
    /\ pc[r] # "done" => /\ ended[r] \in {"open", "lost"}
                         /\ ~streamed[r] => written[r] = {}
    /\ pc[r] \in {"new", "filtering", "choosing"} => ~streamed[r]
    /\ streamed[r] => r \in streaming
    /\ streamed[r] /\ ended[r] = "open" => written[r] # {}

Inv == Shape /\ \A r \in Requests : OneSource(r)

-----------------------------------------------------------------------------
(* One lemma per group of steps: each keeps Inv and is a step of the       *)
(* contract or leaves its variables alone.                                 *)

LEMMA ResolutionStep ==
  ASSUME Inv, NEW r \in Requests,
         ReadPolicy(r) \/ FilterCandidate(r)
  PROVE  Inv' /\ UNCHANGED wire
<1> USE DEF Inv, Shape, OneSource, Step, Goto, loop, call, wire, given
<1>1. pc[r] \in {"new", "filtering"} /\ UNCHANGED <<wire, streaming>>
  BY DEF ReadPolicy, FilterCandidate
<1>2. \/ \E err : NoCandidates(r, err)
      \/ \E cands : StartLoop(r, cands)
      \/ Goto(r, "filtering") /\ UNCHANGED <<at, streamed>>
      \/ UNCHANGED <<pc, at, streamed>>
  <2>1. CASE ReadPolicy(r)
    <3>. DEFINE D == DefaultCandidates(status)
    <3>1. \/ NoCandidates(r, "canceled")
          \/ NoCandidates(r, "noCandidate")
          \/ StartLoop(r, D)
          \/ Goto(r, "filtering") /\ UNCHANGED <<at, streamed>>
      BY <2>1 DEF ReadPolicy
    <3>. QED
      BY <3>1
  <2>2. CASE FilterCandidate(r)
    <3>1. \E kept : \/ NoCandidates(r, "noCandidate")
                    \/ StartLoop(r, ByPriority(kept))
                    \/ UNCHANGED <<pc, at, streamed>>
      BY <2>2 DEF FilterCandidate
    <3>. QED
      BY <3>1
  <2>. QED
    BY <2>1, <2>2
<1>3. CASE \E err : NoCandidates(r, err)
  BY <1>1, <1>3 DEF NoCandidates
<1>4. CASE \E cands : StartLoop(r, cands)
  BY <1>1, <1>4 DEF StartLoop
<1>5. CASE Goto(r, "filtering") /\ UNCHANGED <<at, streamed>>
  BY <1>1, <1>5
<1>6. CASE UNCHANGED <<pc, at, streamed>>
  BY <1>1, <1>6
<1>. QED
  BY <1>2, <1>3, <1>4, <1>5, <1>6

LEMMA LoopStep ==
  ASSUME Inv, NEW r \in Requests,
         SkipCandidate(r) \/ BeginAttempt(r) \/ GiveUp(r)
           \/ CallReturns(r) \/ SettleAttempt(r) \/ RecordUsage(r)
  PROVE  Inv' /\ UNCHANGED wire
<1> USE DEF Inv, Shape, OneSource, Step, Goto, loop, call, wire, given
<1>1. CASE SkipCandidate(r)
  BY <1>1 DEF SkipCandidate
<1>2. CASE BeginAttempt(r)
  BY <1>2 DEF BeginAttempt
<1>3. CASE GiveUp(r)
  BY <1>3 DEF GiveUp
<1>4. CASE CallReturns(r)
  BY <1>4 DEF CallReturns, EndCall
<1>5. CASE SettleAttempt(r)
  BY <1>5 DEF SettleAttempt, Failover
<1>6. CASE RecordUsage(r)
  BY <1>6 DEF RecordUsage
<1>. QED
  BY <1>1, <1>2, <1>3, <1>4, <1>5, <1>6

LEMMA StreamEventStep ==
  ASSUME Inv, NEW r \in Requests, StreamEvent(r)
  PROVE  Inv' /\ (Contract!Next \/ UNCHANGED wire)
<1> USE DEF Inv, Shape, OneSource, Step, loop, wire, given
<1>1. Inv'
  BY DEF StreamEvent, Gone
<1>2. CASE Gone(r)
  <2>1. UNCHANGED wire
    BY <1>2 DEF StreamEvent
  <2>. QED
    BY <1>1, <2>1
<1>3. CASE ~Gone(r)
  <2>1. Contract!Output(r, at[r]) /\ at[r] \in written'[r]
    BY <1>3 DEF StreamEvent, Gone, Contract!Output
  <2>. QED
    BY <1>1, <2>1 DEF Contract!Next
<1>. QED
  BY <1>1, <1>2, <1>3 DEF Gone

LEMMA ReplyStep ==
  ASSUME Inv, NEW r \in Requests, Reply(r)
  PROVE  Inv' /\ (Contract!Next \/ UNCHANGED wire)
<1> USE DEF Inv, Shape, OneSource, Step, Goto, loop, call, wire, given
<1>1. Inv'
  BY DEF Reply, Gone
<1>2. CASE Gone(r)
  BY <1>1, <1>2 DEF Reply
<1>3. CASE ~Gone(r) /\ r \notin streaming /\ outcome[r] = "ok"
  <2>1. Contract!Deliver(r, at[r]) /\ at[r] \in written'[r]
    BY <1>3 DEF Reply, Gone, Contract!Deliver
  <2>. QED
    BY <1>1, <2>1 DEF Contract!Next
<1>4. CASE ~Gone(r) /\ ~(r \notin streaming /\ outcome[r] = "ok")
  <2>1. CASE streamed[r]
    <3>1. Contract!Finish(r)
      BY <1>4, <2>1 DEF Reply, Gone, Contract!Finish
    <3>. QED
      BY <1>1, <3>1 DEF Contract!Next
  <2>2. CASE ~streamed[r]
    <3>1. Contract!Refuse(r)
      BY <1>4, <2>2 DEF Reply, Gone, Contract!Refuse
    <3>. QED
      BY <1>1, <3>1 DEF Contract!Next
  <2>. QED
    BY <2>1, <2>2
<1>. QED
  BY <1>2, <1>3, <1>4

LEMMA OutsideStep ==
  ASSUME Inv,
         \/ \E r \in Requests : Leave(r)
         \/ \E a \in Accounts, s \in AccountStatus : SetAccountStatus(a, s)
         \/ \E p \in Policies : SavePolicy(p)
         \/ Restart
         \/ UNCHANGED vars
  PROVE  Inv' /\ (Contract!Next \/ UNCHANGED wire)
<1> USE DEF Inv, Shape, OneSource, Step, loop, call, wire, given
<1>1. ASSUME NEW r \in Requests, Leave(r)
      PROVE  Inv' /\ Contract!Next
  <2>1. Inv'
    BY <1>1 DEF Leave
  <2>2. /\ ended' = [q \in Requests |-> IF q \in {r} /\ ended[q] = "open"
                                          THEN "lost" ELSE ended[q]]
        /\ UNCHANGED written
    BY <1>1 DEF Leave
  <2>3. Contract!Lose
    <3>1. {r} \in SUBSET Requests
      OBVIOUS
    <3>. QED
      BY <2>2, <3>1 DEF Contract!Lose
  <2>. QED
    BY <2>1, <2>3 DEF Contract!Next
<1>2. ASSUME NEW a \in Accounts, NEW s \in AccountStatus, SetAccountStatus(a, s)
      PROVE  Inv' /\ UNCHANGED wire
  BY <1>2 DEF SetAccountStatus
<1>3. ASSUME NEW p \in Policies, SavePolicy(p)
      PROVE  Inv' /\ UNCHANGED wire
  BY <1>3 DEF SavePolicy
<1>4. ASSUME Restart
      PROVE  Inv' /\ Contract!Next
  <2>1. Inv'
    BY <1>4 DEF Restart, Live
  <2>2. PICK S : S = {q \in Requests : Live(q)}
    OBVIOUS
  <2>3. /\ ended' = [q \in Requests |-> IF q \in S /\ ended[q] = "open"
                                          THEN "lost" ELSE ended[q]]
        /\ UNCHANGED written
    BY <1>4, <2>2 DEF Restart
  <2>4. S \in SUBSET Requests
    BY <2>2
  <2>5. Contract!Lose
    BY <2>3, <2>4 DEF Contract!Lose
  <2>. QED
    BY <2>1, <2>5 DEF Contract!Next
<1>5. CASE UNCHANGED vars
  BY <1>5 DEF vars
<1>. QED
  BY <1>1, <1>2, <1>3, <1>4, <1>5

LEMMA EveryStep ==
  ASSUME Inv, [Next]_vars
  PROVE  Inv' /\ [Contract!Next]_(Contract!contractVars)
<1>1. Inv' /\ (Contract!Next \/ UNCHANGED wire)
  BY ResolutionStep, LoopStep, StreamEventStep, ReplyStep, OutsideStep
     DEF Next, HandlerStep
<1>. QED
  BY <1>1 DEF wire, Contract!contractVars

LEMMA InvHolds == Spec => []Inv
<1>1. Init => Inv
  BY DEF Init, Inv, Shape, OneSource, Step
<1>2. Inv /\ [Next]_vars => Inv'
  BY EveryStep
<1>. QED
  BY <1>1, <1>2, PTL DEF Spec

\* Every chat reply obeys the contract: its bytes come from one attempt,
\* errors only before output, nothing after the end.
THEOREM ReplyKeptHolds == Spec => ReplyKept
<1>1. Init => Contract!Init
  BY DEF Init, Contract!Init
<1>2. Inv /\ [Next]_vars => [Contract!Next]_(Contract!contractVars)
  BY EveryStep
<1>. QED
  BY <1>1, <1>2, InvHolds, PTL DEF Spec, ReplyKept, Contract!Spec

-----------------------------------------------------------------------------
(* The ledgers.                                                             *)

\* The further variables of requests.  What is in a queue is left to QueueInv.
LedgerShape ==
    /\ selected \in [Requests -> Nat]
    /\ outcome = [r \in Requests |-> outcome[r]]
    /\ sealed = [r \in Requests |-> sealed[r]]
    /\ queue = [r \in Requests |-> queue[r]]
    /\ attempts = [r \in Requests |-> attempts[r]]
    /\ usage = [r \in Requests |-> usage[r]]

IsRow(a) == a = [try |-> a.try, account |-> a.account, status |-> a.status,
                 metering |-> a.metering]

Resolving(r) == pc[r] \in {"new", "filtering"}
Trying(r) == pc[r] \in {"calling", "settling"}
Settled(r) == pc[r] \in {"accounting", "replying", "done"}

\* What a row says of the course of its request.
RowTells(r, a) ==
    /\ IsRow(a) /\ a.try \in Nat \ {0} /\ a.try <= at[r] /\ a.try <= selected[r]
    /\ a.account = queue[r][a.try].account
    /\ pc[r] = "choosing" => a.try < at[r]
    /\ Trying(r) /\ a.try = at[r] => a.status = "started"
    /\ a.status = "started" /\ r \notin skipped => Trying(r) /\ a.try = at[r]
    /\ a.status = "failed" /\ a.try = at[r] => ~streamed[r] /\ outcome[r] # "ok"
    /\ a.status = "partial" => a.try = at[r] /\ streamed[r] /\ outcome[r] # "ok"
    /\ a.status = "success" => a.try = at[r] /\ outcome[r] = "ok"
    /\ a.status = "interrupted" /\ r \notin skipped => pc[r] = "dead"

\* The loop, as far as the ledgers show it.
LoopTells(r) ==
    /\ Resolving(r) => attempts[r] = {} /\ selected[r] = 0
    /\ pc[r] \in {"choosing", "calling", "settling"} => at[r] > 0
    /\ pc[r] \in {"choosing", "calling"} => outcome[r] # "ok"
    /\ Resolving(r) => outcome[r] # "ok"
    /\ Trying(r) => selected[r] = at[r]
    /\ outcome[r] = "ok" => selected[r] = at[r] /\ at[r] > 0 /\ (r \in streaming => streamed[r])
    /\ sealed[r] => streamed[r]
    /\ ~streamed[r] /\ outcome[r] # "ok" => written[r] = {}
    /\ ended[r] = "refused" => pc[r] = "done" /\ ~streamed[r] /\ outcome[r] # "ok"
    /\ Settled(r) /\ ~streamed[r] /\ Retryable(r, outcome[r]) => at[r] > Len(queue[r])

\* Unless one of its writes failed, a request has the row of its last attempt,
\* which ends as the request does, and one usage event once it is accounted for.
LedgerTells(r) ==
    /\ ~(pc[r] \in {"replying", "done", "dead"}) => usage[r] = <<>>
    /\ r \notin skipped =>
         /\ selected[r] # 0 => \E a \in attempts[r] : a.try = selected[r]
         /\ Settled(r) /\ outcome[r] = "ok" =>
               \A a \in attempts[r] : a.try = at[r] => a.status = "success"
         /\ pc[r] \in {"replying", "done"} =>
               usage[r] = <<[account |-> IF selected[r] = 0 THEN NoAccount
                                         ELSE queue[r][selected[r]].account,
                             ok |-> outcome[r] = "ok"]>>

Told(r) == (\A a \in attempts[r] : RowTells(r, a)) /\ LoopTells(r) /\ LedgerTells(r)

LedgerInv == LedgerShape /\ \A r \in Requests : Told(r)

\* Nothing of q changes.
Same(q) ==
    /\ pc'[q] = pc[q] /\ at'[q] = at[q] /\ selected'[q] = selected[q] /\ queue'[q] = queue[q]
    /\ streamed'[q] = streamed[q] /\ sealed'[q] = sealed[q] /\ outcome'[q] = outcome[q]
    /\ attempts'[q] = attempts[q] /\ usage'[q] = usage[q] /\ (q \in skipped <=> q \in skipped')
    /\ written'[q] = written[q] /\ ended'[q] = ended[q]

LEMMA SameTold ==
  ASSUME NEW q \in Requests, Told(q), Same(q), UNCHANGED streaming
  PROVE  Told(q)'
<1>1. \A a \in attempts'[q] : RowTells(q, a)'
  BY DEF Told, RowTells, Same, IsRow, Trying
<1>2. LoopTells(q)'
  BY DEF Told, LoopTells, Same, Resolving, Trying, Settled, Retryable, Class
<1>3. LedgerTells(q)'
  BY DEF Told, LedgerTells, Same, Settled
<1>. QED
  BY <1>1, <1>2, <1>3 DEF Told

\* A step of one request is right if it is right for that request.
LEMMA OneTold ==
  ASSUME LedgerInv, NEW r \in Requests, LedgerShape', UNCHANGED streaming,
         \A q \in Requests \ {r} : Same(q), Told(r)'
  PROVE  LedgerInv'
BY SameTold DEF LedgerInv

LEMMA NoCandidatesTold ==
  ASSUME Inv, LedgerInv, NEW r \in Requests, Resolving(r),
         NEW err \in {"noCandidate", "canceled"}, NoCandidates(r, err),
         UNCHANGED <<given, ledger, wire>>
  PROVE  LedgerInv'
<1>1. /\ pc'[r] = "accounting" /\ outcome'[r] = err
      /\ UNCHANGED <<at, selected, queue, streamed, sealed, attempts, usage, skipped, written,
                     ended, streaming>>
      /\ \A q \in Requests \ {r} : pc'[q] = pc[q] /\ outcome'[q] = outcome[q]
      /\ LedgerShape'
  BY DEF NoCandidates, Goto, Inv, Shape, LedgerInv, LedgerShape, loop, ledger, wire, given
<1>2. Told(r)
  BY DEF LedgerInv
<1>3. attempts[r] = {}
  BY <1>2 DEF Told, LoopTells
<1>4. LoopTells(r)'
  <2>1. ~Retryable(r, outcome[r])' /\ err # "ok"
    BY <1>1 DEF Retryable, Class
  <2>2. written[r] = {} /\ ended[r] # "refused"
    BY DEF Inv, OneSource, Resolving
  <2>. QED
    BY <1>1, <1>2, <1>3, <2>1, <2>2 DEF Told, LoopTells, Resolving, Trying, Settled
<1>5. LedgerTells(r)'
  BY <1>1, <1>2, <1>3 DEF Told, LoopTells, LedgerTells, Resolving, Settled
<1>6. Told(r)'
  BY <1>1, <1>3, <1>4, <1>5 DEF Told
<1>. QED
  BY <1>1, <1>6, OneTold DEF Same

\* As long as candidates are resolved there is no row and no event.
LEMMA ResolvingTold ==
  ASSUME Inv, LedgerInv, NEW r \in Requests, ReadPolicy(r) \/ FilterCandidate(r)
  PROVE  LedgerInv'
<1>1. Resolving(r) /\ Told(r) /\ UNCHANGED <<given, ledger, wire>>
  BY DEF ReadPolicy, FilterCandidate, Resolving, LedgerInv
<1>2. /\ attempts[r] = {} /\ selected[r] = 0 /\ outcome[r] # "ok"
      /\ usage[r] = <<>> /\ written[r] = {} /\ ended[r] # "refused" /\ ~streamed[r]
  BY <1>1 DEF Resolving, Told, LoopTells, LedgerTells, Inv, OneSource
<1>3. ASSUME NEW cands, StartLoop(r, cands) PROVE LedgerInv'
  <2>1. /\ pc'[r] = "choosing" /\ at'[r] = 1 /\ outcome'[r] = "noCandidate"
        /\ UNCHANGED <<selected, streamed, sealed, attempts, usage, skipped, written, ended,
                       streaming>>
        /\ \A q \in Requests \ {r} :
              pc'[q] = pc[q] /\ at'[q] = at[q] /\ queue'[q] = queue[q] /\ outcome'[q] = outcome[q]
        /\ LedgerShape'
    BY <1>1, <1>3
    DEF StartLoop, Goto, Inv, Shape, LedgerInv, LedgerShape, ledger, wire, given
  <2>2. Told(r)'
    BY <1>1, <1>2, <2>1 DEF Told, LoopTells, LedgerTells, Resolving, Trying, Settled
  <2>. QED
    BY <2>1, <2>2, OneTold DEF Same
<1>4. ASSUME UNCHANGED <<at, selected, streamed, sealed, outcome>>,
             pc' = [pc EXCEPT ![r] = pc'[r]], pc'[r] = "filtering",
             queue' = [queue EXCEPT ![r] = queue'[r]]
      PROVE  LedgerInv'
  <2>1. /\ UNCHANGED <<attempts, usage, skipped, written, ended, streaming>>
        /\ \A q \in Requests \ {r} : pc'[q] = pc[q] /\ queue'[q] = queue[q]
        /\ LedgerShape'
    BY <1>1, <1>4 DEF Inv, Shape, LedgerInv, LedgerShape, ledger, wire, given
  <2>2. Told(r)'
    BY <1>1, <1>2, <1>4, <2>1 DEF Told, LoopTells, LedgerTells, Resolving, Trying, Settled
  <2>. QED
    BY <1>4, <2>1, <2>2, OneTold DEF Same
<1>5. CASE ReadPolicy(r)
  <2>. DEFINE D == DefaultCandidates(status)
  <2>1. \/ NoCandidates(r, "canceled") \/ NoCandidates(r, "noCandidate")
        \/ StartLoop(r, D)
        \/ Goto(r, "filtering") /\ UNCHANGED <<queue, at, selected, call>>
    BY <1>5 DEF ReadPolicy
  <2>2. CASE Goto(r, "filtering") /\ UNCHANGED <<queue, at, selected, call>>
    BY <1>1, <1>4, <2>2 DEF Goto, Inv, Shape, LedgerInv, LedgerShape, call
  <2>. QED
    BY <1>1, <1>3, <2>1, <2>2, NoCandidatesTold
<1>6. CASE FilterCandidate(r)
  <2>1. \E kept : \/ NoCandidates(r, "noCandidate")
                  \/ StartLoop(r, ByPriority(kept))
                  \/ /\ queue' = [queue EXCEPT ![r] = kept]
                     /\ UNCHANGED <<pc, at, selected, call>>
    BY <1>6 DEF FilterCandidate
  <2>2. pc[r] = "filtering"
    BY <1>6 DEF FilterCandidate
  <2>3. ASSUME NEW kept, queue' = [queue EXCEPT ![r] = kept], UNCHANGED <<pc, at, selected, call>>
        PROVE  LedgerInv'
    <3>1. /\ queue' = [queue EXCEPT ![r] = queue'[r]] /\ pc' = [pc EXCEPT ![r] = pc'[r]]
          /\ UNCHANGED <<streamed, sealed, outcome>>
      BY <2>3 DEF Inv, Shape, LedgerInv, LedgerShape, call
    <3>. QED
      BY <1>4, <2>2, <2>3, <3>1
  <2>. QED
    BY <1>1, <1>3, <2>1, <2>3, NoCandidatesTold
<1>. QED
  BY <1>5, <1>6

LEMMA SkipTold ==
  ASSUME Inv, LedgerInv, NEW r \in Requests, SkipCandidate(r)
  PROVE  LedgerInv'
<1>1. /\ pc[r] = "choosing" /\ at'[r] = at[r] + 1 /\ outcome'[r] = "unresolved"
      /\ UNCHANGED <<pc, queue, selected, streamed, sealed, attempts, usage, skipped, written,
                     ended, streaming>>
      /\ \A q \in Requests \ {r} : at'[q] = at[q] /\ outcome'[q] = outcome[q]
      /\ LedgerShape'
  BY DEF SkipCandidate, Inv, Shape, LedgerInv, LedgerShape, ledger, wire, given
<1>2. Told(r) /\ at[r] \in Nat /\ written[r] = {} /\ ended[r] # "refused"
  BY <1>1 DEF LedgerInv, Inv, Shape, OneSource
<1>3. \A a \in attempts'[r] : RowTells(r, a)'
  BY <1>1, <1>2 DEF Told, RowTells, IsRow, Trying
<1>4. LoopTells(r)' /\ LedgerTells(r)'
  BY <1>1, <1>2 DEF Told, LoopTells, LedgerTells, Resolving, Trying, Settled
<1>. QED
  BY <1>1, <1>3, <1>4, OneTold DEF Same, Told

\* StartAttempt inserts the only row of the attempt, or nothing.
LEMMA BeginTold ==
  ASSUME Inv, LedgerInv, NEW r \in Requests, BeginAttempt(r)
  PROVE  LedgerInv'
<1> DEFINE new == [try |-> at[r], account |-> Current(r), status |-> "started",
                   metering |-> "unset"]
<1>1. /\ pc[r] = "choosing" /\ pc'[r] = "calling" /\ selected'[r] = at[r] /\ sealed'[r] = FALSE
      /\ UNCHANGED <<at, queue, streamed, outcome, usage, written, ended, streaming>>
      /\ \A q \in Requests \ {r} :
            /\ pc'[q] = pc[q] /\ selected'[q] = selected[q] /\ sealed'[q] = sealed[q]
            /\ attempts'[q] = attempts[q] /\ (q \in skipped' <=> q \in skipped)
      /\ skipped \subseteq skipped'
      /\ LedgerShape'
  BY DEF BeginAttempt, Recorded, Goto, Inv, Shape, LedgerInv, LedgerShape, wire, given
<1>2. \/ attempts'[r] = attempts[r] \cup {new}
      \/ attempts'[r] = attempts[r] /\ r \in skipped'
  BY DEF BeginAttempt, Recorded, LedgerInv, LedgerShape
<1>3. /\ Told(r) /\ at[r] \in Nat \ {0} /\ written[r] = {} /\ ended[r] # "refused"
      /\ ~streamed[r]
  BY <1>1 DEF LedgerInv, Told, LoopTells, Inv, Shape, OneSource
<1>4. ASSUME NEW a, a = new PROVE RowTells(r, a)'
  BY <1>4, <1>1, <1>3 DEF RowTells, IsRow, Trying, Current
<1>5. \A a \in attempts[r] : RowTells(r, a)'
  BY <1>1, <1>3 DEF Told, RowTells, IsRow, Trying
<1>6. LoopTells(r)'
  BY <1>1, <1>3 DEF Told, LoopTells, Resolving, Trying, Settled
<1>7. LedgerTells(r)'
  <2>1. r \notin skipped' => \E a \in attempts'[r] : a.try = at[r]
    <3>1. new.try = at[r]
      OBVIOUS
    <3>. QED
      BY <1>2, <3>1
  <2>2. usage'[r] = <<>>
    BY <1>1, <1>3 DEF Told, LedgerTells
  <2>. QED
    BY <1>1, <2>1, <2>2 DEF LedgerTells, Settled
<1>8. \A a \in attempts'[r] : RowTells(r, a)'
  <2>. TAKE a \in attempts'[r]
  <2>1. a = new \/ a \in attempts[r]
    BY <1>2
  <2>. QED
    BY <1>4, <1>5, <2>1
<1>9. Told(r)'
  BY <1>6, <1>7, <1>8 DEF Told
<1>. QED
  BY <1>1, <1>9, OneTold DEF Same

LEMMA GiveUpTold ==
  ASSUME Inv, LedgerInv, NEW r \in Requests, GiveUp(r)
  PROVE  LedgerInv'
<1>1. /\ pc[r] = "choosing" /\ pc'[r] = "accounting" /\ at[r] > Len(queue[r])
      /\ UNCHANGED <<at, queue, selected, streamed, sealed, outcome, attempts, usage, skipped,
                     written, ended, streaming>>
      /\ \A q \in Requests \ {r} : pc'[q] = pc[q]
      /\ LedgerShape'
  BY DEF GiveUp, Goto, Inv, Shape, LedgerInv, LedgerShape, loop, call, ledger, wire, given
<1>2. Told(r) /\ at[r] \in Nat /\ ended[r] # "refused"
  BY <1>1 DEF LedgerInv, Inv, Shape, OneSource
<1>3. \A a \in attempts'[r] : RowTells(r, a)'
  BY <1>1, <1>2 DEF Told, RowTells, IsRow, Trying
<1>4. LoopTells(r)' /\ LedgerTells(r)'
  BY <1>1, <1>2 DEF Told, LoopTells, LedgerTells, Resolving, Trying, Settled
<1>. QED
  BY <1>1, <1>3, <1>4, OneTold DEF Same, Told

LEMMA StreamEventTold ==
  ASSUME Inv, LedgerInv, NEW r \in Requests, StreamEvent(r)
  PROVE  LedgerInv'
<1>1. /\ pc[r] = "calling" /\ streamed'[r] = TRUE
      /\ UNCHANGED <<pc, at, queue, selected, outcome, attempts, usage, skipped, ended, streaming>>
      /\ \A q \in Requests \ {r} :
            streamed'[q] = streamed[q] /\ sealed'[q] = sealed[q] /\ written'[q] = written[q]
      /\ LedgerShape'
  BY DEF StreamEvent, Inv, Shape, LedgerInv, LedgerShape, loop, ledger, given
<1>2. Told(r) /\ ended[r] # "refused"
  BY <1>1 DEF LedgerInv, Inv, OneSource
<1>3. \A a \in attempts'[r] : RowTells(r, a)'
  BY <1>1, <1>2 DEF Told, RowTells, IsRow, Trying
<1>4. LoopTells(r)' /\ LedgerTells(r)'
  BY <1>1, <1>2 DEF Told, LoopTells, LedgerTells, Resolving, Trying, Settled
<1>. QED
  BY <1>1, <1>3, <1>4, OneTold DEF Same, Told

LEMMA CallReturnsTold ==
  ASSUME Inv, LedgerInv, NEW r \in Requests, CallReturns(r)
  PROVE  LedgerInv'
<1>1. /\ pc[r] = "calling" /\ pc'[r] = "settling"
      /\ UNCHANGED <<at, queue, selected, streamed, sealed, attempts, usage, skipped, written,
                     ended, streaming>>
      /\ \A q \in Requests \ {r} : pc'[q] = pc[q] /\ outcome'[q] = outcome[q]
      /\ LedgerShape'
  BY DEF CallReturns, EndCall, Goto, Inv, Shape, LedgerInv, LedgerShape, loop, ledger, wire, given
<1>2. outcome'[r] = "ok" => r \notin streaming \/ sealed[r]
  BY DEF CallReturns, EndCall, LedgerInv, LedgerShape, NoResponse, BrokenBody
<1>3. Told(r) /\ (~streamed[r] => written[r] = {}) /\ ended[r] # "refused"
  BY <1>1 DEF LedgerInv, Inv, OneSource
<1>4. \A a \in attempts'[r] : RowTells(r, a)'
  BY <1>1, <1>3 DEF Told, LoopTells, RowTells, IsRow, Trying
<1>5. LoopTells(r)' /\ LedgerTells(r)'
  BY <1>1, <1>2, <1>3 DEF Told, LoopTells, LedgerTells, Resolving, Trying, Settled
<1>. QED
  BY <1>1, <1>4, <1>5, OneTold DEF Same, Told

\* An update of status and metering leaves the rest of a row alone.
LEMMA RowUpdated ==
  ASSUME NEW a, IsRow(a), NEW result, NEW m
  PROVE  [a EXCEPT !.status = result, !.metering = m] =
            [try |-> a.try, account |-> a.account, status |-> result, metering |-> m]
<1>1. a \in [try : {a.try}, account : {a.account}, status : {a.status}, metering : {a.metering}]
  BY DEF IsRow
<1>2. ASSUME NEW b, b = [a EXCEPT !.status = result, !.metering = m]
      PROVE  b \in [try : {a.try}, account : {a.account}, status : {result}, metering : {m}]
  BY <1>1, <1>2
<1>3. ASSUME NEW b,
             b \in [try : {a.try}, account : {a.account}, status : {result}, metering : {m}]
      PROVE  b = [try |-> a.try, account |-> a.account, status |-> result, metering |-> m]
  BY <1>3
<1>. QED
  BY <1>2, <1>3, Zenon

\* What FinishAttempt does to the rows of a request.
LEMMA FinishedRows ==
  ASSUME LedgerShape, NEW r \in Requests, \A a \in attempts[r] : IsRow(a),
         NEW result, NEW m, FinishAttempt(r, result, m)
  PROVE  /\ attempts' = [q \in Requests |-> attempts'[q]]
         /\ \A q \in Requests \ {r} : attempts'[q] = attempts[q]
         /\ \A b \in attempts'[r] :
               \/ b \in attempts[r] /\ b.try # at[r]
               \/ \E a \in attempts[r] :
                     /\ IsRow(b) /\ a.try = at[r] /\ b.try = at[r]
                     /\ b.account = a.account /\ b.status = result
         /\ \A a \in attempts[r] : \E b \in attempts'[r] :
               b.try = a.try /\ (a.try # at[r] => b = a)
<1> DEFINE Finished(a) == [try |-> a.try, account |-> a.account, status |-> result,
                           metering |-> m]
<1>1. attempts'[r] = {IF a.try = at[r] THEN Finished(a) ELSE a : a \in attempts[r]}
  <2>1. attempts'[r] = {IF a.try = at[r] THEN [a EXCEPT !.status = result, !.metering = m]
                                          ELSE a : a \in attempts[r]}
    BY DEF FinishAttempt, LedgerShape
  <2>2. \A a \in attempts[r] : [a EXCEPT !.status = result, !.metering = m] = Finished(a)
    BY RowUpdated
  <2> DEFINE Changed(a) == [a EXCEPT !.status = result, !.metering = m]
  <2>3. attempts'[r] = {IF a.try = at[r] THEN Changed(a) ELSE a : a \in attempts[r]}
    BY <2>1
  <2>4. \A a \in attempts[r] : Changed(a) = Finished(a)
    BY <2>2
  <2> HIDE DEF Changed, Finished
  <2>. QED
    BY <2>3, <2>4
<1>2. \A a : /\ IsRow(Finished(a)) /\ Finished(a).try = a.try
             /\ Finished(a).account = a.account /\ Finished(a).status = result
  BY DEF IsRow
<1>3. /\ attempts' = [q \in Requests |-> attempts'[q]]
      /\ \A q \in Requests \ {r} : attempts'[q] = attempts[q]
  BY DEF FinishAttempt, LedgerShape
<1> HIDE DEF Finished
<1>4. ASSUME NEW b \in attempts'[r]
      PROVE  \/ b \in attempts[r] /\ b.try # at[r]
             \/ \E a \in attempts[r] :
                   /\ IsRow(b) /\ a.try = at[r] /\ b.try = at[r]
                   /\ b.account = a.account /\ b.status = result
  <2>1. PICK a \in attempts[r] : b = IF a.try = at[r] THEN Finished(a) ELSE a
    BY <1>1
  <2>2. CASE a.try = at[r]
    BY <1>2, <2>1, <2>2
  <2>3. CASE a.try # at[r]
    BY <2>1, <2>3
  <2>. QED
    BY <2>2, <2>3
<1>5. ASSUME NEW a \in attempts[r]
      PROVE  \E b \in attempts'[r] : b.try = a.try /\ (a.try # at[r] => b = a)
  <2>1. CASE a.try = at[r]
    BY <1>1, <1>2, <2>1
  <2>2. CASE a.try # at[r]
    BY <1>1, <2>2
  <2>. QED
    BY <2>1, <2>2
<1>. QED
  BY <1>3, <1>4, <1>5

\* The row of the attempt in hand is finished, or stays started.
LEMMA SettleTold ==
  ASSUME Inv, LedgerInv, NEW r \in Requests, SettleAttempt(r)
  PROVE  LedgerInv' /\ \A a \in attempts[r] : a.try # at[r] => a \in attempts'[r]
<1> DEFINE result == CASE outcome[r] = "ok" -> "success"
                       [] streamed[r] /\ outcome[r] # "ok" -> "partial"
                       [] OTHER -> "failed"
<1> DEFINE on == outcome[r] # "ok" /\ Failover(r)
<1>1. /\ pc[r] = "settling"
      /\ UNCHANGED <<queue, selected, streamed, sealed, outcome, usage, written, ended, streaming>>
      /\ skipped \subseteq skipped' /\ \A q \in Requests \ {r} : q \in skipped' <=> q \in skipped
  BY DEF SettleAttempt, Recorded, call, wire, given
<1>2. /\ on => at'[r] = at[r] + 1 /\ pc'[r] = "choosing"
      /\ ~on => at'[r] = at[r] /\ pc'[r] = "accounting"
      /\ \A q \in Requests \ {r} : pc'[q] = pc[q] /\ at'[q] = at[q]
  BY DEF SettleAttempt, Goto, Inv, Shape
<1>3. Told(r) /\ at[r] \in Nat /\ (~streamed[r] => written[r] = {}) /\ ended[r] # "refused"
  BY <1>1 DEF LedgerInv, Inv, Shape, OneSource
<1>4. \A a \in attempts[r] : IsRow(a)
  BY <1>3 DEF Told, RowTells
<1>5. \/ UNCHANGED attempts /\ r \in skipped'
      \/ UNCHANGED skipped /\ \E m : FinishAttempt(r, result, m)
  <2>1. PICK m \in MeteringOf(r) : Recorded(r, FinishAttempt(r, result, m) /\ UNCHANGED usage)
    BY DEF SettleAttempt
  <2>. QED
    BY <2>1 DEF Recorded
<1>6. /\ attempts' = [q \in Requests |-> attempts'[q]]
      /\ \A q \in Requests \ {r} : attempts'[q] = attempts[q]
      /\ \A b \in attempts'[r] :
            \/ b \in attempts[r] /\ (b.try = at[r] => r \in skipped')
            \/ \E a \in attempts[r] :
                  /\ IsRow(b) /\ a.try = at[r] /\ b.try = at[r]
                  /\ b.account = a.account /\ b.status = result
      /\ \A a \in attempts[r] : \E b \in attempts'[r] :
            b.try = a.try /\ (a.try # at[r] => b = a)
  <2>1. CASE UNCHANGED attempts /\ r \in skipped'
    BY <2>1 DEF LedgerInv, LedgerShape
  <2>2. ASSUME NEW m, FinishAttempt(r, result, m) PROVE <1>6
    BY <1>4, <2>2, FinishedRows DEF LedgerInv
  <2>. QED
    BY <1>5, <2>1, <2>2
<1>7. r \notin skipped' => \A b \in attempts'[r] : b.try = at[r] => b.status = result
  BY <1>6
<1>8. /\ on => ~streamed[r] /\ outcome[r] # "ok"
      /\ ~on => outcome[r] = "ok" \/ streamed[r] \/ ~Retryable(r, outcome[r])
      /\ ~Retryable(r, "ok")
  BY DEF Failover, Retryable, Class
<1>9. LedgerShape'
  BY <1>1, <1>6 DEF LedgerInv, LedgerShape
<1>10. \A b \in attempts'[r] : RowTells(r, b)'
  <2>. TAKE b \in attempts'[r]
  <2>1. CASE b \in attempts[r] /\ (b.try = at[r] => r \in skipped')
    BY <1>1, <1>2, <1>3, <1>8, <2>1 DEF Told, LoopTells, RowTells, IsRow, Trying
  <2>2. ASSUME NEW a \in attempts[r], IsRow(b), a.try = at[r], b.try = at[r],
               b.account = a.account, b.status = result
        PROVE  RowTells(r, b)'
    <3>1. /\ b.account = queue[r][b.try].account /\ b.try <= selected[r]
          /\ b.try \in Nat \ {0}
      BY <1>3, <2>2 DEF Told, RowTells
    <3>2. on => result = "failed"
      BY <1>8
    <3>. QED
      BY <1>1, <1>2, <1>3, <1>8, <2>2, <3>1, <3>2 DEF RowTells, IsRow, Trying
  <2>. QED
    BY <1>6, <2>1, <2>2
<1>11. LoopTells(r)'
  <2>1. Retryable(r, outcome[r])' <=> Retryable(r, outcome[r])
    BY <1>1 DEF Retryable, Class
  <2>. QED
    BY <1>1, <1>2, <1>3, <1>8, <2>1 DEF Told, LoopTells, Resolving, Trying, Settled
<1>12. LedgerTells(r)'
  <2>1. r \notin skipped' /\ selected[r] # 0 => \E b \in attempts'[r] : b.try = selected[r]
    BY <1>1, <1>3, <1>6 DEF Told, LedgerTells
  <2>. QED
    BY <1>1, <1>2, <1>3, <1>7, <2>1 DEF Told, LedgerTells, Settled
<1>. QED
  BY <1>1, <1>2, <1>6, <1>9, <1>10, <1>11, <1>12, OneTold DEF Same, Told

LEMMA UsageTold ==
  ASSUME Inv, LedgerInv, NEW r \in Requests, RecordUsage(r)
  PROVE  LedgerInv'
<1> DEFINE event == [account |-> IF selected[r] = 0 THEN NoAccount
                                 ELSE queue[r][selected[r]].account,
                     ok |-> outcome[r] = "ok"]
<1>1. /\ pc[r] = "accounting" /\ pc'[r] = "replying"
      /\ UNCHANGED <<at, queue, selected, streamed, sealed, outcome, attempts, written, ended,
                     streaming>>
      /\ skipped \subseteq skipped'
      /\ \A q \in Requests \ {r} : pc'[q] = pc[q] /\ (q \in skipped' <=> q \in skipped)
  BY DEF RecordUsage, Recorded, Goto, Inv, Shape, loop, call, wire, given
<1>2. \/ usage' = [usage EXCEPT ![r] = Append(@, event)]
      \/ UNCHANGED usage /\ r \in skipped'
  BY DEF RecordUsage, Recorded
<1>3. Told(r) /\ at[r] \in Nat /\ ended[r] # "refused" /\ usage[r] = <<>>
  BY <1>1 DEF LedgerInv, Inv, Shape, OneSource, Told, LedgerTells
<1>4. r \notin skipped' => usage'[r] = <<event>>
  BY <1>2, <1>3 DEF LedgerInv, LedgerShape
<1>5. LedgerShape' /\ \A q \in Requests \ {r} : usage'[q] = usage[q]
  BY <1>1, <1>2 DEF LedgerInv, LedgerShape
<1>6. \A a \in attempts'[r] : RowTells(r, a)'
  BY <1>1, <1>3 DEF Told, RowTells, IsRow, Trying
<1>7. LoopTells(r)'
  <2>1. Retryable(r, outcome[r])' <=> Retryable(r, outcome[r])
    BY <1>1 DEF Retryable, Class
  <2>. QED
    BY <1>1, <1>3, <2>1 DEF Told, LoopTells, Resolving, Trying, Settled
<1>8. LedgerTells(r)'
  BY <1>1, <1>3, <1>4 DEF Told, LedgerTells, Settled
<1>. QED
  BY <1>1, <1>5, <1>6, <1>7, <1>8, OneTold DEF Same, Told

LEMMA ReplyTold ==
  ASSUME Inv, LedgerInv, NEW r \in Requests, Reply(r)
  PROVE  LedgerInv'
<1>1. /\ pc[r] = "replying" /\ pc'[r] = "done"
      /\ UNCHANGED <<at, queue, selected, streamed, sealed, outcome, attempts, usage, skipped,
                     streaming>>
      /\ \A q \in Requests \ {r} : pc'[q] = pc[q] /\ written'[q] = written[q] /\ ended'[q] = ended[q]
      /\ LedgerShape'
  BY DEF Reply, Goto, Inv, Shape, LedgerInv, LedgerShape, loop, call, ledger, wire, given
<1>2. /\ Told(r) /\ at[r] \in Nat /\ ended[r] # "refused" /\ (~streamed[r] => written[r] = {})
  BY <1>1 DEF LedgerInv, Inv, Shape, OneSource
<1>3. /\ written'[r] = written[r] \/ outcome[r] = "ok"
      /\ ended'[r] = "refused" => ~streamed[r] /\ (outcome[r] # "ok" \/ r \in streaming)
  BY <1>2 DEF Reply, Inv, Shape, wire
<1>4. \A a \in attempts'[r] : RowTells(r, a)'
  BY <1>1, <1>2 DEF Told, RowTells, IsRow, Trying
<1>5. LoopTells(r)'
  <2>1. Retryable(r, outcome[r])' <=> Retryable(r, outcome[r])
    BY <1>1 DEF Retryable, Class
  <2>. QED
    BY <1>1, <1>2, <1>3, <2>1 DEF Told, LoopTells, Resolving, Trying, Settled
<1>6. LedgerTells(r)'
  BY <1>1, <1>2 DEF Told, LedgerTells, Settled
<1>. QED
  BY <1>1, <1>4, <1>5, <1>6, OneTold DEF Same, Told

LEMMA LeaveTold ==
  ASSUME Inv, LedgerInv, NEW r \in Requests, Leave(r)
  PROVE  LedgerInv'
<1>1. /\ ended'[r] = "lost"
      /\ UNCHANGED <<pc, at, queue, selected, streamed, sealed, outcome, attempts, usage, skipped,
                     written, streaming>>
      /\ \A q \in Requests \ {r} : ended'[q] = ended[q]
      /\ LedgerShape' /\ Told(r)
  BY DEF Leave, Inv, Shape, LedgerInv, LedgerShape, loop, call, ledger, given
<1>2. \A a \in attempts'[r] : RowTells(r, a)'
  BY <1>1 DEF Told, RowTells, IsRow, Trying
<1>3. LoopTells(r)'
  <2>1. Retryable(r, outcome[r])' <=> Retryable(r, outcome[r])
    BY <1>1 DEF Retryable, Class
  <2>. QED
    BY <1>1, <2>1 DEF Told, LoopTells, Resolving, Trying, Settled
<1>4. LedgerTells(r)'
  BY <1>1 DEF Told, LedgerTells, Settled
<1>. QED
  BY <1>1, <1>2, <1>3, <1>4, OneTold DEF Same, Told

\* The marking of started rows, which may fail.
LEMMA RestartTold ==
  ASSUME Inv, LedgerInv, Restart
  PROVE  /\ LedgerInv'
         /\ \A r \in Requests : \A a \in attempts[r] :
               a.status # "started" => a \in attempts'[r]
<1> DEFINE Marked(a) == [try |-> a.try, account |-> a.account, status |-> "interrupted",
                         metering |-> "unknown"]
<1>1. /\ UNCHANGED <<at, queue, selected, streamed, sealed, outcome, usage, written, streaming>>
      /\ \A r \in Requests : /\ Live(r) => pc'[r] = "dead" /\ (ended[r] = "open" => ended'[r] = "lost")
                             /\ ~Live(r) => pc'[r] = pc[r]
                             /\ ~(Live(r) /\ ended[r] = "open") => ended'[r] = ended[r]
      /\ skipped \subseteq skipped'
  BY DEF Restart, loop, call, given
<1>2. \A r \in Requests : Told(r) /\ \A a \in attempts[r] : IsRow(a)
  BY DEF LedgerInv, Told, RowTells
<1>3. \/ /\ attempts' = [r \in Requests |->
                {IF a.status = "started" THEN Marked(a) ELSE a : a \in attempts[r]}]
         /\ UNCHANGED skipped
      \/ /\ UNCHANGED attempts
         /\ \A r \in Requests : (\E a \in attempts[r] : a.status = "started") => r \in skipped'
  <2>1. CASE /\ attempts' = [r \in Requests |->
                    {IF a.status = "started"
                       THEN [a EXCEPT !.status = "interrupted", !.metering = "unknown"]
                       ELSE a : a \in attempts[r]}]
             /\ UNCHANGED skipped
    <3>1. \A r \in Requests : \A a \in attempts[r] :
             [a EXCEPT !.status = "interrupted", !.metering = "unknown"] = Marked(a)
      BY <1>2, RowUpdated
    <3> DEFINE Old(a) == [a EXCEPT !.status = "interrupted", !.metering = "unknown"]
    <3>2. \A r \in Requests : \A a \in attempts[r] : Old(a) = Marked(a)
      BY <3>1
    <3>3. attempts' = [r \in Requests |->
              {IF a.status = "started" THEN Old(a) ELSE a : a \in attempts[r]}]
      BY <2>1
    <3> HIDE DEF Old
    <3>4. \A r \in Requests :
             {IF a.status = "started" THEN Old(a) ELSE a : a \in attempts[r]}
             = {IF a.status = "started" THEN Marked(a) ELSE a : a \in attempts[r]}
      BY <3>2
    <3>. QED
      BY <2>1, <3>3, <3>4
  <2>. QED
    BY <2>1 DEF Restart
<1>4. \A a : /\ IsRow(Marked(a)) /\ Marked(a).try = a.try
             /\ Marked(a).account = a.account /\ Marked(a).status = "interrupted"
  BY DEF IsRow
<1> HIDE DEF Marked
<1>5. LedgerShape'
  BY <1>1, <1>3 DEF LedgerInv, LedgerShape
<1>6. ASSUME NEW r \in Requests
      PROVE  /\ \A b \in attempts'[r] :
                   \/ b \in attempts[r] /\ (b.status = "started" => r \in skipped')
                   \/ \E a \in attempts[r] :
                         /\ IsRow(b) /\ a.status = "started" /\ b.try = a.try
                         /\ b.account = a.account /\ b.status = "interrupted"
             /\ \A a \in attempts[r] : \E b \in attempts'[r] :
                   b.try = a.try /\ (a.status # "started" => b = a)
  BY <1>3, <1>4
<1>7. ASSUME NEW r \in Requests PROVE Told(r)'
  <2>1. \A b \in attempts'[r] : RowTells(r, b)'
    <3>. TAKE b \in attempts'[r]
    <3>1. CASE b \in attempts[r] /\ (b.status = "started" => r \in skipped')
      <4>1. RowTells(r, b)
        BY <1>2, <3>1 DEF Told
      <4>. QED
        BY <1>1, <3>1, <4>1 DEF RowTells, IsRow, Trying, Live
    <3>2. ASSUME NEW a \in attempts[r], IsRow(b), a.status = "started", b.try = a.try,
                 b.account = a.account, b.status = "interrupted"
          PROVE  RowTells(r, b)'
      <4>1. RowTells(r, a)
        BY <1>2 DEF Told
      <4>. QED
        BY <1>1, <3>2, <4>1 DEF RowTells, IsRow, Trying, Live
    <3>. QED
      BY <1>6, <3>1, <3>2
  <2>2. LoopTells(r)'
    <3>1. Retryable(r, outcome[r])' <=> Retryable(r, outcome[r])
      BY <1>1 DEF Retryable, Class
    <3>2. LoopTells(r)
      BY <1>2 DEF Told
    <3>3. Resolving(r)' => attempts'[r] = {}
      BY <1>1, <1>6, <3>2 DEF LoopTells, Resolving, Live
    <3>. QED
      BY <1>1, <3>1, <3>2, <3>3 DEF LoopTells, Resolving, Trying, Settled, Live
  <2>3. LedgerTells(r)'
    <3>1. LedgerTells(r) /\ \A a \in attempts[r] : RowTells(r, a)
      BY <1>2 DEF Told
    <3>2. r \notin skipped' /\ selected[r] # 0 => \E b \in attempts'[r] : b.try = selected[r]
      BY <1>1, <1>6, <3>1 DEF LedgerTells
    <3>3. r \notin skipped' /\ Settled(r)' =>
             r \notin skipped /\ Settled(r) /\ attempts'[r] \subseteq attempts[r]
      BY <1>1, <1>6, <3>1 DEF RowTells, Settled, Trying, Live
    <3>. QED
      BY <1>1, <3>1, <3>2, <3>3 DEF LedgerTells, Settled, Live
  <2>. QED
    BY <2>1, <2>2, <2>3 DEF Told
<1>. QED
  BY <1>5, <1>6, <1>7 DEF LedgerInv

\* Every step keeps the ledgers' invariant, and the rows that are not open.
LEMMA EveryStepTold ==
  ASSUME Inv, LedgerInv, [Next]_vars
  PROVE  /\ LedgerInv'
         /\ \A r \in Requests : \A a \in attempts[r] :
               a.status \in Terminal => a \in attempts'[r]
<1>1. ASSUME NEW r \in Requests, HandlerStep(r) \/ StreamEvent(r) \/ Leave(r)
      PROVE  LedgerInv'
  BY <1>1, ResolvingTold, SkipTold, BeginTold, GiveUpTold, StreamEventTold, CallReturnsTold,
     SettleTold, UsageTold, ReplyTold, LeaveTold DEF HandlerStep
<1>2. ASSUME NEW r \in Requests, SettleAttempt(r), NEW q \in Requests, NEW a \in attempts[q],
             a.status \in Terminal
      PROVE  a \in attempts'[q]
  <2>1. CASE q = r
    <3>1. a.try # at[r]
      BY <1>2, <2>1 DEF SettleAttempt, LedgerInv, Told, RowTells, Trying, Terminal
    <3>. QED
      BY <1>2, <2>1, <3>1, SettleTold
  <2>2. CASE q # r
    BY <1>2, <2>2 DEF SettleAttempt, Recorded, FinishAttempt, LedgerInv, LedgerShape
  <2>. QED
    BY <2>1, <2>2
<1>3. ASSUME NEW r \in Requests, BeginAttempt(r), NEW q \in Requests, NEW a \in attempts[q]
      PROVE  a \in attempts'[q]
  BY <1>3 DEF BeginAttempt, Recorded, LedgerInv, LedgerShape
<1>4. ASSUME NEW r \in Requests, HandlerStep(r) \/ StreamEvent(r) \/ Leave(r),
             ~SettleAttempt(r), ~BeginAttempt(r)
      PROVE  UNCHANGED attempts
  BY <1>4 DEF HandlerStep, ReadPolicy, FilterCandidate, SkipCandidate, GiveUp, CallReturns, EndCall,
              RecordUsage, Recorded, Reply, StreamEvent, Leave, ledger
<1>5. ASSUME \/ \E a \in Accounts, s \in AccountStatus : SetAccountStatus(a, s)
             \/ \E p \in Policies : SavePolicy(p)
             \/ UNCHANGED vars
      PROVE  LedgerInv' /\ UNCHANGED attempts
  <2>1. UNCHANGED <<pc, at, queue, selected, streamed, sealed, outcome, attempts, usage, skipped,
                    written, ended, streaming>>
    BY <1>5 DEF SetAccountStatus, SavePolicy, vars, loop, call, ledger, wire, given
  <2>2. LedgerShape' /\ \A q \in Requests : Same(q)
    BY <2>1 DEF LedgerInv, LedgerShape, Same
  <2>. QED
    BY <2>1, <2>2, SameTold DEF LedgerInv
<1>6. CASE Restart
  BY <1>6, RestartTold DEF Terminal
<1>7. CASE \E r \in Requests : HandlerStep(r) \/ StreamEvent(r) \/ Leave(r)
  BY <1>1, <1>2, <1>3, <1>4, <1>7
<1>. QED
  BY <1>5, <1>6, <1>7 DEF Next

LEMMA LedgerInvHolds == Spec => [](Inv /\ LedgerInv)
<1>1. Init => LedgerInv
  BY DEF Init, LedgerInv, LedgerShape, Told, LoopTells, LedgerTells, Resolving, Trying, Settled
<1>2. Inv /\ LedgerInv /\ [Next]_vars => LedgerInv'
  BY EveryStepTold
<1>. QED
  BY <1>1, <1>2, InvHolds, PTL DEF Spec

\* The attempts table tells what the client saw, unless a write to it failed:
\* success and partial rows are those whose bytes it got, and what is open is
\* under way.
THEOREM AttemptsTellTruthHolds == Spec => []AttemptsTellTruth
<1>1. Inv /\ LedgerInv => AttemptsTellTruth
  <2> SUFFICES ASSUME Inv, LedgerInv, NEW r \in Requests \ skipped, NEW a \in attempts[r]
               PROVE  /\ a.status = "failed" => a.try \notin written[r]
                      /\ a.status = "partial" => written[r] \subseteq {a.try}
                      /\ a.status = "success" => /\ written[r] \subseteq {a.try}
                                                 /\ ended[r] # "refused"
                      /\ a.status = "started" => pc[r] \in {"calling", "settling"} /\ a.try = at[r]
                      /\ a.status = "interrupted" => pc[r] = "dead"
    BY DEF AttemptsTellTruth
  <2>1. RowTells(r, a) /\ LoopTells(r) /\ written[r] \subseteq {at[r]}
    BY DEF LedgerInv, Told, Inv, OneSource
  <2>. QED
    BY <2>1 DEF RowTells, LoopTells, Trying
<1>. QED
  BY <1>1, LedgerInvHolds, PTL

\* A finished request has one usage event, of the account of its last attempt,
\* and a success exactly when that attempt was one, unless a write failed.
THEOREM UsageMatchesAttemptsHolds == Spec => []UsageMatchesAttempts
<1>1. Inv /\ LedgerInv => UsageMatchesAttempts
  <2> SUFFICES ASSUME Inv, LedgerInv, NEW r \in Requests \ skipped, pc[r] \in {"replying", "done"}
               PROVE  LET last == {a \in attempts[r] : \A b \in attempts[r] : b.try <= a.try}
                      IN  /\ Len(usage[r]) = 1
                          /\ usage[r][1].ok = \E a \in attempts[r] : a.status = "success"
                          /\ {usage[r][1].account} =
                                IF attempts[r] = {} THEN {NoAccount}
                                ELSE {a.account : a \in last}
    BY DEF UsageMatchesAttempts
  <2> DEFINE account == IF selected[r] = 0 THEN NoAccount ELSE queue[r][selected[r]].account
  <2> DEFINE last == {a \in attempts[r] : \A b \in attempts[r] : b.try <= a.try}
  <2>1. /\ \A a \in attempts[r] : RowTells(r, a)
        /\ LoopTells(r) /\ LedgerTells(r) /\ selected[r] \in Nat /\ at[r] \in Nat
    BY DEF LedgerInv, LedgerShape, Told, Inv, Shape
  <2>2. usage[r] = <<[account |-> account, ok |-> outcome[r] = "ok"]>>
    BY <2>1 DEF LedgerTells
  <2>3. Len(usage[r]) = 1 /\ usage[r][1].account = account /\ usage[r][1].ok = (outcome[r] = "ok")
    BY <2>2
  <2>4. outcome[r] = "ok" <=> \E a \in attempts[r] : a.status = "success"
    BY <2>1 DEF RowTells, LoopTells, LedgerTells, Settled
  <2>5. {account} = IF attempts[r] = {} THEN {NoAccount} ELSE {a.account : a \in last}
    <3>1. CASE attempts[r] = {}
      BY <2>1, <3>1 DEF LedgerTells
    <3>2. CASE attempts[r] # {}
      <4>1. \A a \in attempts[r] : /\ a.try \in Nat /\ a.try <= selected[r] /\ a.try # 0
                                   /\ a.account = queue[r][a.try].account
        BY <2>1 DEF RowTells
      <4>2. PICK a \in attempts[r] : a.try = selected[r]
        BY <2>1, <3>2, <4>1 DEF LedgerTells
      <4>3. a \in last /\ \A b \in last : b.try = selected[r]
        BY <2>1, <4>1, <4>2
      <4>4. \A b \in last : b.account = account
        BY <4>1, <4>2, <4>3
      <4>. QED
        BY <3>2, <4>3, <4>4
    <3>. QED
      BY <3>1, <3>2
  <2>. QED
    BY <2>3, <2>4, <2>5, Zenon
<1>. QED
  BY <1>1, LedgerInvHolds, PTL

\* A request only comes back with a curable error when no candidate is left.
THEOREM FailoverExhaustsHolds == Spec => []FailoverExhausts
<1>1. LedgerInv => FailoverExhausts
  BY DEF LedgerInv, Told, LoopTells, Settled, FailoverExhausts
<1>. QED
  BY <1>1, LedgerInvHolds, PTL

\* No later attempt, failover or restart rewrites the outcome of an attempt.
THEOREM OutcomesAreFinalHolds == Spec => OutcomesAreFinal
<1>1. Inv /\ LedgerInv /\ [Next]_vars =>
         [\A r \in Requests : \A a \in attempts[r] : a.status \in Terminal => a \in attempts'[r]]_vars
  BY EveryStepTold
<1>. QED
  BY <1>1, LedgerInvHolds, PTL DEF Spec, OutcomesAreFinal
-----------------------------------------------------------------------------
(* The candidates.                                                          *)

\* In priority order, those of one priority in any order.
Sorted(q) == \A k, l \in DOMAIN q : k <= l => q[k].priority <= q[l].priority

\* No account that is only monitored.
Callable(q) == \A k \in DOMAIN q : q[k].account \notin MonitorOnly

\* The queue of r is the one its attempts come from.
Resolved(r) == attempts[r] # {} \/ pc[r] \notin {"new", "filtering", "dead"}

QueueSound(r) ==
    /\ todo[r] \in Seq(Candidate) /\ queue[r] \in Seq(Candidate)
    /\ pc[r] = "new" => queue[r] = <<>>
    /\ pc[r] = "filtering" => todo[r] # <<>>
    /\ Callable(queue[r])
    /\ Resolved(r) => Sorted(queue[r])
    /\ selected[r] <= Len(queue[r])

QueueInv ==
    /\ status \in [Accounts -> AccountStatus] /\ policy \in Policies
    /\ todo = [r \in Requests |-> todo[r]]
    /\ \A r \in Requests : QueueSound(r)

\* Without a policy: usable accounts only, all of priority 1.
LEMMA DefaultsSound ==
  ASSUME NEW st \in [Accounts -> AccountStatus]
  PROVE  LET cands == DefaultCandidates(st)
         IN  cands \in Seq(Candidate) /\ Callable(cands) /\ Sorted(cands)
<1> DEFINE direct == [i \in DOMAIN Listing |-> [account |-> Listing[i], priority |-> 1]]
           usable == {i \in DOMAIN Listing : Usable(st, Listing[i]) /\ Listing[i] \in Serving}
           cands == Kept(direct, usable)
<1>1. direct \in Seq(Candidate) /\ usable \in SUBSET DOMAIN direct
  <2>1. Listing \in Seq(Accounts) /\ 1 \in Priorities
    BY PolicyAssumption
  <2>2. \A i \in DOMAIN Listing : direct[i] \in Candidate
    BY <2>1 DEF Candidate
  <2>3. /\ direct = [i \in 1..Len(Listing) |-> direct[i]] /\ Len(Listing) \in Nat
        /\ DOMAIN direct = DOMAIN Listing /\ DOMAIN Listing = 1..Len(Listing)
    BY <2>1
  <2>4. usable \in SUBSET DOMAIN Listing
    OBVIOUS
  <2> HIDE DEF direct, usable
  <2>5. direct \in [1..Len(Listing) -> Candidate]
    BY <2>2, <2>3
  <2>. QED
    BY <2>3, <2>4, <2>5, SeqDef
<1>2. \A i \in usable : direct[i].account \notin MonitorOnly /\ direct[i].priority = 1
  BY DEF Usable
<1>3. DefaultCandidates(st) = cands
  BY DEF DefaultCandidates
<1> HIDE DEF direct, usable
<1>4. /\ cands \in Seq(Candidate)
      /\ \A k \in DOMAIN cands : \E i \in usable : cands[k] = direct[i]
  <2>1. cands \in Seq(Candidate)
    BY <1>1, KeptMembers
  <2>2. \A k \in DOMAIN cands : \E i \in usable : cands[k] = direct[i]
    BY <1>1, KeptMembers
  <2>. QED
    BY <2>1, <2>2
<1> HIDE DEF cands
<1>5. \A k \in DOMAIN cands : cands[k].account \notin MonitorOnly /\ cands[k].priority = 1
  BY <1>2, <1>4
<1>. QED
  BY <1>3, <1>4, <1>5 DEF Callable, Sorted

\* Sorting keeps the candidates and puts them in priority order.
LEMMA ByPrioritySound ==
  ASSUME NEW q \in Seq(Candidate), Callable(q)
  PROVE  LET cands == ByPriority(q)
         IN  cands \in Seq(Candidate) /\ Callable(cands) /\ Sorted(cands)
<1> DEFINE key == [i \in DOMAIN q |-> q[i].priority]
           cands == StableSort(q, key)
<1>1. \A i \in DOMAIN q : key[i] \in Nat /\ key[i] = q[i].priority
  <2>1. \A c \in Candidate : c.priority \in Nat
    BY PolicyAssumption DEF Candidate
  <2>2. \A i \in DOMAIN q : q[i] \in Candidate
    OBVIOUS
  <2>. QED
    BY <2>1, <2>2
<1>1a. \A i \in DOMAIN q : key[i] \in Nat
  BY <1>1
<1>2. ByPriority(q) = cands
  BY DEF ByPriority
<1> HIDE DEF key
<1>3. /\ cands \in Seq(Candidate) /\ Len(cands) = Len(q)
      /\ \E place : /\ Lists(place, Len(q), DOMAIN q, key)
                    /\ \A k \in DOMAIN q : cands[k] = q[place[k]]
  <2>1. ASSUME NEW f, \A i \in DOMAIN q : f[i] \in Nat
        PROVE  LET sorted == StableSort(q, f)
               IN  /\ sorted \in Seq(Candidate) /\ Len(sorted) = Len(q)
                   /\ \E place : /\ Lists(place, Len(q), DOMAIN q, f)
                                 /\ \A k \in DOMAIN q : sorted[k] = q[place[k]]
    BY <2>1, StableSortSorts
  <2>. QED
    BY <1>1a, <2>1
<1> HIDE DEF cands
<1>4. PICK place : /\ Lists(place, Len(q), DOMAIN q, key)
                   /\ \A k \in DOMAIN q : cands[k] = q[place[k]]
  BY <1>3
<1>5. DOMAIN cands = DOMAIN q /\ DOMAIN q = 1..Len(q) /\ Len(q) \in Nat
  BY <1>3
<1>6. \A k \in DOMAIN q : place[k] \in DOMAIN q
  BY <1>4, <1>5 DEF Lists
<1>7. Callable(cands)
  BY <1>4, <1>5, <1>6 DEF Callable
<1>8. ASSUME NEW k \in DOMAIN cands, NEW l \in DOMAIN cands, k <= l
      PROVE  cands[k].priority <= cands[l].priority
  <2>1. /\ k \in DOMAIN q /\ l \in DOMAIN q
        /\ place[k] \in DOMAIN q /\ place[l] \in DOMAIN q
        /\ cands[k] = q[place[k]] /\ cands[l] = q[place[l]]
    BY <1>4, <1>5, <1>6
  <2>1a. /\ cands[k].priority = key[place[k]] /\ cands[l].priority = key[place[l]]
         /\ key[place[k]] \in Nat /\ key[place[l]] \in Nat
    BY <1>1, <2>1
  <2>2. k = l \/ Precedes(key, place[k], place[l])
    BY <1>4, <1>5, <1>8 DEF Lists
  <2>. QED
    BY <2>1a, <2>2 DEF Precedes
<1>. QED
  BY <1>2, <1>3, <1>7, <1>8 DEF Sorted

\* Nothing QueueSound(q) looks at changes, or only what it allows to.
LEMMA QueueKept ==
  ASSUME NEW q \in Requests, QueueSound(q),
         todo'[q] = todo[q], queue'[q] = queue[q], selected'[q] = selected[q],
         pc'[q] \in {"new", "filtering"} => pc[q] = pc'[q], Resolved(q)' => Resolved(q)
  PROVE  QueueSound(q)'
BY DEF QueueSound, Callable, Sorted

\* The steps of a request that resolve its candidates.
LEMMA ResolvingQueued ==
  ASSUME Inv, LedgerInv, QueueInv, NEW r \in Requests, ReadPolicy(r) \/ FilterCandidate(r)
  PROVE  QueueInv'
<1>1. /\ Resolving(r) /\ UNCHANGED <<given, ledger, wire>> /\ UNCHANGED <<status, policy, attempts>>
      /\ attempts[r] = {} /\ selected[r] = 0
  BY DEF ReadPolicy, FilterCandidate, Resolving, LedgerInv, Told, LoopTells, given, ledger
<1>2. \A q \in Requests : QueueSound(q)
  BY DEF QueueInv
<1>3. ASSUME todo' = [q \in Requests |-> todo'[q]], UNCHANGED selected, QueueSound(r)',
             \A q \in Requests \ {r} : /\ pc'[q] = pc[q] /\ todo'[q] = todo[q]
                                       /\ queue'[q] = queue[q]
      PROVE  QueueInv'
  BY <1>1, <1>2, <1>3, QueueKept DEF QueueInv, Resolved
<1>4. ASSUME NEW err, NoCandidates(r, err), queue[r] = <<>> PROVE QueueInv'
  <2>1. /\ UNCHANGED <<todo, queue, selected>> /\ pc'[r] = "accounting"
        /\ \A q \in Requests \ {r} : pc'[q] = pc[q]
        /\ todo' = [q \in Requests |-> todo'[q]]
    BY <1>4 DEF NoCandidates, Goto, loop, Inv, Shape, QueueInv
  <2>2. QueueSound(r)'
    BY <1>1, <1>2, <1>4, <2>1 DEF QueueSound, Callable, Sorted, Resolved
  <2>. QED
    BY <1>3, <2>1, <2>2
<1>5. ASSUME NEW cands \in Seq(Candidate), Callable(cands), Sorted(cands), StartLoop(r, cands)
      PROVE  QueueInv'
  <2>1. /\ queue'[r] = cands /\ todo'[r] = <<>> /\ UNCHANGED selected /\ pc'[r] = "choosing"
        /\ \A q \in Requests \ {r} : /\ pc'[q] = pc[q] /\ todo'[q] = todo[q]
                                     /\ queue'[q] = queue[q]
        /\ todo' = [q \in Requests |-> todo'[q]]
    BY <1>5 DEF StartLoop, Goto, Inv, Shape, LedgerInv, LedgerShape, QueueInv
  <2>2. QueueSound(r)'
    BY <1>1, <1>5, <2>1 DEF QueueSound, Callable, Sorted
  <2>. QED
    BY <1>3, <2>1, <2>2
<1>6. ASSUME pc[r] = "new", Goto(r, "filtering"), UNCHANGED <<queue, at, selected, call>>,
             todo' = [todo EXCEPT ![r] = policy.cands], policy.cands # <<>>
      PROVE  QueueInv'
  <2>1. policy.cands \in Seq(Candidate)
    BY PolicyAssumption DEF QueueInv
  <2>2. /\ pc'[r] = "filtering" /\ todo'[r] = policy.cands /\ UNCHANGED <<queue, selected>>
        /\ \A q \in Requests \ {r} : pc'[q] = pc[q] /\ todo'[q] = todo[q]
        /\ todo' = [q \in Requests |-> todo'[q]]
    BY <1>6 DEF Goto, Inv, Shape, QueueInv
  <2>3. QueueSound(r)'
    BY <1>1, <1>2, <1>6, <2>1, <2>2 DEF QueueSound, Callable, Resolved
  <2>. QED
    BY <1>3, <2>2, <2>3
<1>7. CASE ReadPolicy(r)
  <2>. DEFINE D == DefaultCandidates(status)
  <2>1. pc[r] = "new" /\ queue[r] = <<>>
    BY <1>2, <1>7 DEF ReadPolicy, QueueSound
  <2>2. D \in Seq(Candidate) /\ Callable(D) /\ Sorted(D)
    BY DefaultsSound DEF QueueInv
  <2>3. \/ NoCandidates(r, "canceled") \/ NoCandidates(r, "noCandidate")
        \/ StartLoop(r, D)
        \/ /\ Goto(r, "filtering") /\ UNCHANGED <<queue, at, selected, call>>
           /\ todo' = [todo EXCEPT ![r] = policy.cands] /\ policy.cands # <<>>
    BY <1>7 DEF ReadPolicy
  <2>4. CASE StartLoop(r, D)
    <3> HIDE DEF D
    <3>. QED
      BY <1>5, <2>2, <2>4
  <2>5. CASE NoCandidates(r, "canceled") \/ NoCandidates(r, "noCandidate")
    BY <1>4, <2>1, <2>5
  <2>. QED
    BY <1>6, <2>1, <2>3, <2>4, <2>5
<1>8. CASE FilterCandidate(r)
  <2> DEFINE c == Head(todo[r])
             rest == Tail(todo[r])
             kept == IF Usable(status, c.account) /\ ~Gone(r) THEN Append(queue[r], c)
                                                              ELSE queue[r]
  <2>1. /\ pc[r] = "filtering" /\ todo[r] \in Seq(Candidate) /\ todo[r] # <<>>
        /\ queue[r] \in Seq(Candidate) /\ Callable(queue[r])
    BY <1>2, <1>8 DEF FilterCandidate, QueueSound
  <2>2. c \in Candidate /\ rest \in Seq(Candidate)
    BY <2>1
  <2>3. \/ /\ rest # <<>> /\ todo' = [todo EXCEPT ![r] = rest]
           /\ queue' = [queue EXCEPT ![r] = kept] /\ UNCHANGED <<pc, at, selected, call>>
        \/ kept = <<>> /\ NoCandidates(r, "noCandidate")
        \/ StartLoop(r, ByPriority(kept))
    BY <1>8 DEF FilterCandidate
  <2> HIDE DEF c, rest
  <2>3a. Usable(status, c.account) => c.account \notin MonitorOnly
    BY DEF Usable
  <2>4. /\ kept \in Seq(Candidate) /\ Callable(kept)
        /\ kept = <<>> => queue[r] = <<>>
    <3>1. CASE kept = queue[r]
      BY <2>1, <3>1
    <3>2. CASE kept = Append(queue[r], c) /\ Usable(status, c.account)
      <4>1. /\ Append(queue[r], c) \in Seq(Candidate)
            /\ Len(Append(queue[r], c)) = Len(queue[r]) + 1
            /\ \A i \in 1..Len(queue[r]) : Append(queue[r], c)[i] = queue[r][i]
            /\ Append(queue[r], c)[Len(queue[r]) + 1] = c
        BY <2>1, <2>2, AppendProperties
      <4> HIDE DEF kept
      <4>2. /\ DOMAIN kept = 1..Len(kept) /\ DOMAIN queue[r] = 1..Len(queue[r])
            /\ Len(queue[r]) \in Nat /\ kept # <<>>
        BY <2>1, <3>2, <4>1
      <4>3. Callable(kept)
        BY <2>1, <2>3a, <3>2, <4>1, <4>2 DEF Callable
      <4>. QED
        BY <3>2, <4>1, <4>2, <4>3
    <3>. QED
      BY <3>1, <3>2
  <2> HIDE DEF kept
  <2>5. ASSUME rest # <<>>, todo' = [todo EXCEPT ![r] = rest],
               queue' = [queue EXCEPT ![r] = kept], UNCHANGED <<pc, at, selected, call>>
        PROVE  QueueInv'
    <3>1. /\ UNCHANGED <<pc, selected>> /\ todo'[r] = rest /\ queue'[r] = kept
          /\ \A q \in Requests \ {r} : todo'[q] = todo[q] /\ queue'[q] = queue[q]
          /\ todo' = [q \in Requests |-> todo'[q]]
      BY <2>5 DEF LedgerInv, LedgerShape, QueueInv
    <3>2. QueueSound(r)'
      BY <1>1, <2>1, <2>2, <2>4, <2>5, <3>1 DEF QueueSound, Callable, Resolved
    <3>. QED
      BY <1>3, <3>1, <3>2
  <2>6. LET cands == ByPriority(kept)
        IN  cands \in Seq(Candidate) /\ Callable(cands) /\ Sorted(cands)
    BY <2>4, ByPrioritySound
  <2>. QED
    BY <1>4, <1>5, <2>3, <2>4, <2>5, <2>6
<1>. QED
  BY <1>7, <1>8

\* Every other step leaves the queue as it is, or tries a candidate of it.
LEMMA EveryStepQueued ==
  ASSUME Inv, LedgerInv, QueueInv, [Next]_vars
  PROVE  QueueInv'
<1>1. \A q \in Requests : QueueSound(q)
  BY DEF QueueInv
<1>2. ASSUME NEW r \in Requests, UNCHANGED <<status, policy, todo, queue, selected>>,
             \A q \in Requests \ {r} : pc'[q] = pc[q] /\ attempts'[q] = attempts[q],
             pc'[r] \in {"new", "filtering"} => pc[r] = pc'[r], Resolved(r)' => Resolved(r)
      PROVE  QueueInv'
  <2>1. QueueSound(r)' /\ \A q \in Requests \ {r} : QueueSound(q)'
    BY <1>1, <1>2, QueueKept DEF Resolved
  <2>. QED
    BY <1>2, <2>1 DEF QueueInv
<1>3. ASSUME NEW r \in Requests,
             \/ SkipCandidate(r) \/ GiveUp(r) \/ CallReturns(r) \/ SettleAttempt(r)
             \/ RecordUsage(r) \/ Reply(r) \/ StreamEvent(r) \/ Leave(r)
      PROVE  QueueInv'
  <2>1. CASE SettleAttempt(r)
    <3>1. /\ UNCHANGED <<status, policy, todo, queue, selected>> /\ pc[r] = "settling"
          /\ pc'[r] \in {"choosing", "accounting"} /\ \A q \in Requests \ {r} : pc'[q] = pc[q]
          /\ \A q \in Requests \ {r} : attempts'[q] = attempts[q]
      BY <2>1 DEF SettleAttempt, Recorded, FinishAttempt, Goto, Inv, Shape, LedgerInv,
                  LedgerShape, given
    <3>. QED
      BY <1>2, <3>1 DEF Resolved
  <2>2. CASE ~SettleAttempt(r)
    <3>1. /\ UNCHANGED <<status, policy, todo, queue, selected, attempts>>
          /\ \A q \in Requests \ {r} : pc'[q] = pc[q]
          /\ \/ pc'[r] = pc[r]
             \/ /\ pc[r] \in {"choosing", "calling", "accounting", "replying"}
                /\ pc'[r] \in {"accounting", "settling", "replying", "done"}
      BY <1>3, <2>2 DEF SkipCandidate, GiveUp, CallReturns, EndCall, RecordUsage, Recorded, Reply,
                        StreamEvent, Leave, Goto, Inv, Shape, given, loop, ledger
    <3>. QED
      BY <1>2, <3>1 DEF Resolved
  <2>. QED
    BY <2>1, <2>2
<1>4. ASSUME NEW r \in Requests, BeginAttempt(r) PROVE QueueInv'
  <2>1. /\ UNCHANGED <<status, policy, todo, queue>> /\ selected'[r] = at[r]
        /\ pc[r] = "choosing" /\ pc'[r] = "calling" /\ at[r] <= Len(queue[r])
        /\ \A q \in Requests \ {r} : /\ pc'[q] = pc[q] /\ selected'[q] = selected[q]
                                     /\ attempts'[q] = attempts[q]
    BY <1>4 DEF BeginAttempt, Recorded, Goto, Inv, Shape, LedgerInv, LedgerShape, given
  <2>2. QueueSound(r)'
    BY <1>1, <2>1 DEF QueueSound, Callable, Sorted, Resolved
  <2>3. \A q \in Requests \ {r} : QueueSound(q)'
    BY <1>1, <2>1, QueueKept DEF Resolved
  <2>. QED
    BY <2>1, <2>2, <2>3 DEF QueueInv
<1>5. ASSUME \/ \E a \in Accounts, s \in AccountStatus : SetAccountStatus(a, s)
             \/ \E p \in Policies : SavePolicy(p)
             \/ Restart
             \/ UNCHANGED vars
      PROVE  QueueInv'
  <2>1. /\ status' \in [Accounts -> AccountStatus] /\ policy' \in Policies
        /\ UNCHANGED <<todo, queue, selected>>
    BY <1>5 DEF SetAccountStatus, SavePolicy, Restart, vars, given, loop, QueueInv
  <2>2. ASSUME NEW q \in Requests
        PROVE  /\ pc'[q] \in {"new", "filtering"} => pc[q] = pc'[q]
               /\ Resolved(q)' => Resolved(q)
    <3>1. CASE Restart
      <4>1. pc'[q] = IF Live(q) THEN "dead" ELSE pc[q]
        BY <3>1 DEF Restart
      <4>2. attempts[q] = {} => attempts'[q] = {}
        BY <3>1 DEF Restart
      <4>. QED
        BY <4>1, <4>2 DEF Resolved, Live
    <3>2. CASE UNCHANGED <<pc, attempts>>
      BY <3>2 DEF Resolved
    <3>. QED
      BY <1>5, <3>1, <3>2 DEF SetAccountStatus, SavePolicy, vars, ledger
  <2>3. ASSUME NEW q \in Requests PROVE QueueSound(q)'
    <3>1. todo'[q] = todo[q] /\ queue'[q] = queue[q] /\ selected'[q] = selected[q]
      BY <2>1
    <3>2. QueueSound(q)
      BY <1>1
    <3>. QED
      BY <2>2, <3>1, <3>2, QueueKept
  <2>. QED
    BY <2>1, <2>3 DEF QueueInv
<1>. QED
  BY <1>3, <1>4, <1>5, ResolvingQueued DEF Next, HandlerStep

LEMMA QueueInvHolds == Spec => [](LedgerInv /\ QueueInv)
<1>1. Init => QueueInv
  BY DEF Init, QueueInv, QueueSound, Callable, Resolved
<1>2. Inv /\ LedgerInv /\ QueueInv /\ [Next]_vars => QueueInv'
  BY EveryStepQueued
<1>. QED
  BY <1>1, <1>2, LedgerInvHolds, PTL DEF Spec

\* Every row is of a position of the queue.
LEMMA RowPlaced ==
  ASSUME LedgerInv, QueueInv, NEW r \in Requests, NEW a \in attempts[r]
  PROVE  /\ a.try \in DOMAIN queue[r] /\ a.account = queue[r][a.try].account
         /\ queue[r] \in Seq(Candidate) /\ Callable(queue[r]) /\ Sorted(queue[r])
<1>1. /\ a.try \in Nat \ {0} /\ a.try <= selected[r] /\ selected[r] \in Nat
      /\ a.account = queue[r][a.try].account
  BY DEF LedgerInv, LedgerShape, Told, RowTells
<1>2. QueueSound(r) /\ Resolved(r)
  BY DEF QueueInv, Resolved
<1>. QED
  BY <1>1, <1>2 DEF QueueSound

\* No attempt is made on an account that is only monitored, whatever the
\* stored policies name and whenever they and the accounts change.
THEOREM MonitorOnlyNeverTriedHolds == Spec => []MonitorOnlyNeverTried
<1>1. LedgerInv /\ QueueInv => MonitorOnlyNeverTried
  BY RowPlaced DEF MonitorOnlyNeverTried, Callable
<1>. QED
  BY <1>1, QueueInvHolds, PTL

\* The attempts of a request go down the priorities: an earlier one is of a
\* candidate whose priority is no worse (sort.SliceStable in resolveCandidates).
TriedByPriority ==
    \A r \in Requests : \A a, b \in attempts[r] :
        a.try <= b.try => queue[r][a.try].priority <= queue[r][b.try].priority

THEOREM TriedByPriorityHolds == Spec => []TriedByPriority
<1>1. LedgerInv /\ QueueInv => TriedByPriority
  BY RowPlaced DEF TriedByPriority, Sorted
<1>. QED
  BY <1>1, QueueInvHolds, PTL
-----------------------------------------------------------------------------
(* What the ledgers hold.                                                   *)

RowsTyped ==
    /\ streaming \subseteq Requests /\ skipped \subseteq Requests
    /\ sealed \in [Requests -> BOOLEAN]
    /\ outcome \in [Requests -> Result]
    /\ attempts \in [Requests -> SUBSET Attempt]
    /\ usage \in [Requests -> Seq(Usage)]

\* A finished row is a row.
LEMMA FinishedRowTyped ==
  ASSUME NEW a \in Attempt, NEW how \in Terminal, NEW m \in {"unset", "unknown", "reported"}
  PROVE  [a EXCEPT !.status = how, !.metering = m] \in Attempt
BY DEF Attempt, Terminal

LEMMA ResolvingRows ==
  ASSUME RowsTyped, NEW r \in Requests, ReadPolicy(r) \/ FilterCandidate(r)
  PROVE  RowsTyped'
<1>1. UNCHANGED <<streaming, skipped, attempts, usage>>
  BY DEF ReadPolicy, FilterCandidate, given, ledger
<1>2. \/ UNCHANGED <<sealed, outcome>>
      \/ /\ UNCHANGED sealed
         /\ \E err \in {"noCandidate", "canceled"} : outcome' = [outcome EXCEPT ![r] = err]
  <2>1. CASE ReadPolicy(r)
    <3> DEFINE D == DefaultCandidates(status)
    <3>1. \/ NoCandidates(r, "canceled") \/ NoCandidates(r, "noCandidate")
          \/ StartLoop(r, D) \/ UNCHANGED call
      BY <2>1 DEF ReadPolicy
    <3> HIDE DEF D
    <3>. QED
      BY <3>1 DEF NoCandidates, StartLoop, call
  <2>2. CASE FilterCandidate(r)
    <3>1. \E cands : NoCandidates(r, "noCandidate") \/ StartLoop(r, cands) \/ UNCHANGED call
      BY <2>2 DEF FilterCandidate
    <3>. QED
      BY <3>1 DEF NoCandidates, StartLoop, call
  <2>. QED
    BY <2>1, <2>2
<1>. QED
  BY <1>1, <1>2 DEF RowsTyped, Result

LEMMA BeginRows ==
  ASSUME Inv, LedgerInv, QueueInv, RowsTyped, NEW r \in Requests, BeginAttempt(r)
  PROVE  RowsTyped'
<1> DEFINE new == [try |-> at[r], account |-> Current(r), status |-> "started",
                   metering |-> "unset"]
<1>1. at[r] \in Nat /\ Current(r) \in Accounts
  <2>1. at[r] \in DOMAIN queue[r] /\ queue[r] \in Seq(Candidate)
    BY DEF BeginAttempt, Inv, Shape, LedgerInv, Told, LoopTells, QueueInv, QueueSound
  <2>2. queue[r][at[r]] \in Candidate
    BY <2>1
  <2>. QED
    BY <2>1, <2>2 DEF Candidate, Current
<1>2. new \in Attempt
  BY <1>1 DEF Attempt
<1> HIDE DEF new
<1>3. /\ UNCHANGED <<streaming, outcome, usage>> /\ sealed' = [sealed EXCEPT ![r] = FALSE]
      /\ \/ attempts' = [attempts EXCEPT ![r] = @ \cup {new}] /\ UNCHANGED skipped
         \/ UNCHANGED attempts /\ skipped' = skipped \cup {r}
  BY DEF BeginAttempt, Recorded, given, new
<1>. QED
  BY <1>2, <1>3 DEF RowsTyped

LEMMA SettleRows ==
  ASSUME RowsTyped, NEW r \in Requests, SettleAttempt(r)
  PROVE  RowsTyped'
<1>1. UNCHANGED <<streaming, sealed, outcome, usage>>
  BY DEF SettleAttempt, Recorded, given, call
<1>2. \/ UNCHANGED attempts /\ skipped' = skipped \cup {r}
      \/ /\ UNCHANGED skipped
         /\ \E how \in Terminal, m \in {"unset", "unknown", "reported"} : FinishAttempt(r, how, m)
  <2> DEFINE how == CASE outcome[r] = "ok" -> "success"
                      [] streamed[r] /\ outcome[r] # "ok" -> "partial"
                      [] OTHER -> "failed"
  <2>1. how \in Terminal
    BY DEF Terminal
  <2>2. MeteringOf(r) \subseteq {"unset", "unknown", "reported"}
    BY DEF MeteringOf
  <2>3. \E m \in MeteringOf(r) : Recorded(r, FinishAttempt(r, how, m) /\ UNCHANGED usage)
    BY DEF SettleAttempt
  <2> HIDE DEF how
  <2>. QED
    BY <2>1, <2>2, <2>3 DEF Recorded
<1>3. ASSUME NEW how \in Terminal, NEW m \in {"unset", "unknown", "reported"},
             FinishAttempt(r, how, m)
      PROVE  attempts' \in [Requests -> SUBSET Attempt]
  <2> DEFINE Finished(a) == [a EXCEPT !.status = how, !.metering = m]
             rows == {IF a.try = at[r] THEN Finished(a) ELSE a : a \in attempts[r]}
  <2>1. \A a \in attempts[r] : a \in Attempt /\ Finished(a) \in Attempt
    BY FinishedRowTyped DEF RowsTyped
  <2>2. attempts' = [attempts EXCEPT ![r] = rows]
    BY <1>3 DEF FinishAttempt
  <2> HIDE DEF Finished
  <2>3. rows \in SUBSET Attempt
    BY <2>1
  <2> HIDE DEF rows
  <2>. QED
    BY <2>2, <2>3 DEF RowsTyped
<1>. QED
  BY <1>1, <1>2, <1>3 DEF RowsTyped

LEMMA UsageRows ==
  ASSUME LedgerInv, QueueInv, RowsTyped, NEW r \in Requests, RecordUsage(r)
  PROVE  RowsTyped'
<1> DEFINE account == IF selected[r] = 0 THEN NoAccount ELSE queue[r][selected[r]].account
           event == [account |-> account, ok |-> outcome[r] = "ok"]
<1>1. account \in Accounts \cup {NoAccount}
  <2>1. CASE selected[r] # 0
    <3>1. selected[r] \in DOMAIN queue[r] /\ queue[r] \in Seq(Candidate)
      BY <2>1 DEF LedgerInv, LedgerShape, QueueInv, QueueSound
    <3>2. queue[r][selected[r]] \in Candidate
      BY <3>1
    <3>. QED
      BY <2>1, <3>2 DEF Candidate
  <2>. QED
    BY <2>1
<1>2. event \in Usage
  BY <1>1 DEF Usage
<1>3. /\ UNCHANGED <<streaming, sealed, outcome, attempts>>
      /\ \/ usage' = [usage EXCEPT ![r] = Append(@, event)] /\ UNCHANGED skipped
         \/ UNCHANGED usage /\ skipped' = skipped \cup {r}
  BY DEF RecordUsage, Recorded, given, call
<1> HIDE DEF event
<1>4. Append(usage[r], event) \in Seq(Usage)
  BY <1>2, AppendProperties DEF RowsTyped
<1>. QED
  BY <1>3, <1>4 DEF RowsTyped

LEMMA RestartRows ==
  ASSUME RowsTyped, Restart
  PROVE  RowsTyped'
<1> DEFINE Marked(a) == [a EXCEPT !.status = "interrupted", !.metering = "unknown"]
           Rows(r) == {IF a.status = "started" THEN Marked(a) ELSE a : a \in attempts[r]}
<1>1. UNCHANGED <<streaming, sealed, outcome, usage>>
  BY DEF Restart, given, call
<1>2. \/ UNCHANGED attempts /\ skipped' \subseteq Requests
      \/ UNCHANGED skipped /\ attempts' = [r \in Requests |-> Rows(r)]
  BY DEF Restart, RowsTyped
<1>3. \A r \in Requests : \A a \in attempts[r] : a \in Attempt /\ Marked(a) \in Attempt
  BY FinishedRowTyped DEF RowsTyped, Terminal
<1> HIDE DEF Marked
<1>4. \A r \in Requests : Rows(r) \in SUBSET Attempt
  BY <1>3
<1> HIDE DEF Rows
<1>. QED
  BY <1>1, <1>2, <1>4 DEF RowsTyped

LEMMA EveryStepRows ==
  ASSUME Inv, LedgerInv, QueueInv, RowsTyped, [Next]_vars
  PROVE  RowsTyped'
<1>1. ASSUME NEW r \in Requests,
             SkipCandidate(r) \/ GiveUp(r) \/ CallReturns(r) \/ Reply(r)
               \/ StreamEvent(r) \/ Leave(r)
      PROVE  RowsTyped'
  <2>1. UNCHANGED <<streaming, skipped, attempts, usage>>
    BY <1>1 DEF SkipCandidate, GiveUp, CallReturns, EndCall, Reply, StreamEvent, Leave, given,
                ledger
  <2>2. /\ UNCHANGED sealed \/ \E b \in BOOLEAN : sealed' = [sealed EXCEPT ![r] = b]
        /\ UNCHANGED outcome \/ \E result \in Result : outcome' = [outcome EXCEPT ![r] = result]
    <3>1. CASE StreamEvent(r)
      BY <3>1 DEF StreamEvent, RowsTyped
    <3>2. CASE CallReturns(r)
      BY <3>2 DEF CallReturns, EndCall, Result, Cause
    <3>3. CASE SkipCandidate(r)
      BY <3>3 DEF SkipCandidate, Result
    <3>. QED
      BY <1>1, <3>1, <3>2, <3>3 DEF GiveUp, Reply, Leave, call
  <2>. QED
    BY <2>1, <2>2 DEF RowsTyped
<1>2. ASSUME \/ \E a \in Accounts, s \in AccountStatus : SetAccountStatus(a, s)
             \/ \E p \in Policies : SavePolicy(p)
             \/ UNCHANGED vars
      PROVE  RowsTyped'
  BY <1>2 DEF SetAccountStatus, SavePolicy, vars, given, call, ledger, RowsTyped
<1>. QED
  BY <1>1, <1>2, ResolvingRows, BeginRows, SettleRows, UsageRows, RestartRows
     DEF Next, HandlerStep

\* Every variable stays in its domain.
THEOREM TypeOKHolds == Spec => []TypeOK
<1>1. Init => RowsTyped
  BY DEF Init, RowsTyped, Result
<1>2. Inv /\ LedgerInv /\ QueueInv /\ RowsTyped /\ [Next]_vars => RowsTyped'
  BY EveryStepRows
<1>3. Inv /\ LedgerInv /\ QueueInv /\ RowsTyped => TypeOK
  BY DEF Inv, Shape, LedgerInv, LedgerShape, QueueInv, QueueSound, RowsTyped, TypeOK
<1>. QED
  BY <1>1, <1>2, <1>3, InvHolds, QueueInvHolds, PTL DEF Spec
=============================================================================
