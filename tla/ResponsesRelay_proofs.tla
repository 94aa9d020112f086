------------------------- MODULE ResponsesRelay_proofs -------------------------
(***************************************************************************)
(* A conversation and its account, for any requests, accounts, handles and *)
(* failures.                                                               *)
(*                                                                         *)
(* ConversationAffinity speaks of requests that are out.  The invariant    *)
(* says how they got there: a request that continues a conversation has    *)
(* the bound account as its only candidate from the moment it looked the   *)
(* binding up, and by the time it may be sent the mode was checked too.    *)
(* That the binding is still the same then is BindingKept.  Only the types *)
(* need to know what the candidates of fresh requests are.                 *)
(***************************************************************************)
EXTENDS ResponsesRelay, Selection_proofs

\* What the argument needs of the types.
Typed ==
    /\ pc \in [Requests -> Step]
    /\ prev \in [Requests -> Handles \cup {NoHandle}]
    /\ queue = [r \in Requests |-> queue[r]]
    /\ at \in [Requests -> Nat \ {0}]
    /\ meta \in [Requests -> Handles \cup {NoHandle}]
    /\ binding = [h \in Handles |-> binding[h]]

\* A request that continues a conversation has one candidate.
BoundOnly ==
    \A r \in Requests : Sticky(r) =>
        /\ pc[r] # "new"
        /\ binding[prev[r]] # NoAccount
        /\ queue[r] = <<binding[prev[r]]>>
        /\ pc[r] \notin {"bound", "done"} => binding[prev[r]] \notin MonitorOnly

\* It is sent to a candidate it has.
InRange ==
    \A r \in Requests :
        /\ pc[r] \in {"new", "bound"} => at[r] = 1
        /\ Sticky(r) /\ pc[r] \in {"calling", "returned", "binding", "closing"} => at[r] = 1

BindingKept == \A h \in Handles : binding[h] # NoAccount => binding'[h] = binding[h]

-----------------------------------------------------------------------------
(* What the steps do to the bindings and to the types.                     *)

\* Handlers that return, or a step of one that does not touch the bindings.
LEMMA ReturnTyped ==
  ASSUME Typed, NEW S, Return(S), UNCHANGED binding
  PROVE  Typed'
BY DEF Typed, Return, Clear, Step

LEMMA BindingsKept == Typed /\ [Next]_vars => BindingKept
<1> SUFFICES ASSUME Typed, [Next]_vars PROVE BindingKept
  OBVIOUS
<1>1. CASE UNCHANGED binding
  BY <1>1 DEF BindingKept
<1>2. ASSUME NEW r \in Requests, SaveBinding(r) PROVE BindingKept
  <2> DEFINE h == meta[r]
  <2>1. CASE binding' = [binding EXCEPT ![h] = BoundTo(r, h)]
    BY <2>1 DEF Typed, BoundTo, BindingKept
  <2> QED BY <1>1, <1>2, <2>1 DEF SaveBinding, bindings
<1>3. ASSUME NEW r \in Requests, HandlerStep(r) PROVE UNCHANGED binding \/ SaveBinding(r)
  BY <1>3
  DEF HandlerStep, StartFresh, StartContinuation, CheckBound, SkipCandidate, Send, RunOut,
      Output, OutputFails, CallReturns, Settle, CloseReply, Fail, Reject, bindings
<1>4. ASSUME \/ \E r \in Requests : Leave(r)
             \/ \E a \in Accounts, s \in {"active", "disabled"} : SetAccountStatus(a, s)
             \/ \E h \in Handles : Expire(h)
             \/ Restart
      PROVE  UNCHANGED binding
  BY <1>4 DEF Leave, SetAccountStatus, Expire, Restart, bindings
<1>5. ASSUME UNCHANGED vars PROVE UNCHANGED binding
  BY <1>5 DEF vars, bindings
<1> QED BY <1>1, <1>2, <1>3, <1>4, <1>5 DEF Next

LEMMA TypedHolds == Spec => []Typed
<1>1. Init => Typed
  BY RelayAssumption DEF RelayAssumption, Init, Typed, Step
<1>2. Typed /\ [Next]_vars => Typed'
  <2> SUFFICES ASSUME Typed, [Next]_vars PROVE Typed'
    OBVIOUS
  <2> USE DEF bindings, loop, call
  <2>1. ASSUME NEW r \in Requests, Reject(r) PROVE Typed'
    BY <2>1, ReturnTyped DEF Reject
  <2>2. ASSUME NEW r \in Requests, StartFresh(r) PROVE Typed'
    <3>1. CASE /\ Goto(r, "choosing")
               /\ queue' = [queue EXCEPT ![r] = Candidates]
               /\ UNCHANGED <<binding, prev, at, meta>>
      BY <3>1 DEF Goto, Typed, Step
    <3> QED BY <2>1, <2>2, <3>1 DEF StartFresh
  <2>3. ASSUME NEW r \in Requests, NEW h \in Handles, StartContinuation(r, h) PROVE Typed'
    <3>1. CASE /\ prev' = [prev EXCEPT ![r] = h]
               /\ queue' = [queue EXCEPT ![r] = <<binding[h]>>]
               /\ Goto(r, "bound")
               /\ UNCHANGED <<binding, at, meta>>
      BY <3>1 DEF Goto, Typed, Step
    <3> QED BY <2>1, <2>3, <3>1 DEF StartContinuation
  <2>4. ASSUME NEW r \in Requests, NEW step \in Step, Goto(r, step),
               UNCHANGED <<binding, prev, queue, meta>>,
               UNCHANGED at \/ Advance(r)
        PROVE  Typed'
    BY <2>4 DEF Goto, Advance, Typed
  <2>5. ASSUME NEW r \in Requests, CheckBound(r) PROVE Typed'
    <3>1. CASE Goto(r, "choosing") /\ UNCHANGED <<bindings, loop, call>>
      BY <3>1, <2>4 DEF Step
    <3> QED BY <2>1, <2>5, <3>1 DEF CheckBound
  <2>6. ASSUME NEW r \in Requests, SkipCandidate(r) PROVE Typed'
    <3>1. CASE Advance(r) /\ UNCHANGED <<pc, binding, prev, queue, meta>>
      BY <3>1 DEF Advance, Typed
    <3>2. CASE Goto(r, "failed") /\ UNCHANGED <<at, binding, prev, queue, meta>>
      BY <3>2, <2>4 DEF Step
    <3> QED BY <2>6, <3>1, <3>2 DEF SkipCandidate
  <2>7. ASSUME NEW r \in Requests, Send(r) PROVE Typed'
    BY <2>7 DEF Send, Goto, Typed, Step
  <2>8. ASSUME NEW r \in Requests, Output(r) PROVE Typed'
    BY <2>8 DEF Output, Typed
  <2>9. ASSUME NEW r \in Requests,
               RunOut(r) \/ OutputFails(r) \/ \E result : CallReturns(r, result)
        PROVE  Typed'
    BY <2>4, <2>9 DEF RunOut, OutputFails, CallReturns, Step
  <2>10. ASSUME NEW r \in Requests, Settle(r) PROVE Typed'
    BY <2>4, <2>10 DEF Settle, Step
  <2>11. ASSUME NEW r \in Requests, SaveBinding(r) PROVE Typed'
    <3>1. Goto(r, "closing") /\ UNCHANGED <<loop, call>>
      BY <2>11 DEF SaveBinding
    <3>2. binding' = [h \in Handles |-> binding'[h]]
      BY <2>11 DEF SaveBinding, Typed
    <3> QED BY <3>1, <3>2 DEF Goto, Typed, Step
  <2>12. ASSUME NEW r \in Requests, CloseReply(r) \/ Fail(r) PROVE Typed'
    BY <2>12, ReturnTyped DEF CloseReply, Fail
  <2>13. ASSUME Restart PROVE Typed'
    BY <2>13, ReturnTyped DEF Restart
  <2>14. ASSUME UNCHANGED <<pc, prev, queue, at, meta, binding>> PROVE Typed'
    BY <2>14 DEF Typed
  <2>15. ASSUME NEW r \in Requests, Leave(r) PROVE Typed'
    BY <2>14, <2>15 DEF Leave
  <2>16. ASSUME NEW a, NEW s, SetAccountStatus(a, s) PROVE Typed'
    BY <2>14, <2>16 DEF SetAccountStatus
  <2>17. ASSUME NEW h, Expire(h) PROVE Typed'
    BY <2>14, <2>17 DEF Expire
  <2>18. ASSUME UNCHANGED vars PROVE Typed'
    BY <2>14, <2>18 DEF vars
  <2> QED
    BY <2>2, <2>3, <2>5, <2>6, <2>7, <2>8, <2>9, <2>10, <2>11, <2>12, <2>13, <2>15, <2>16,
       <2>17, <2>18 DEF Next, HandlerStep
<1> QED BY <1>1, <1>2, PTL DEF Spec

-----------------------------------------------------------------------------
\* SaveResponseBinding: a binding never moves to another account, not even when
\* another account hands out the same id.
THEOREM BindingNeverMovesHolds == Spec => BindingNeverMoves
<1>1. Typed /\ [Next]_vars
      => [\A h \in Handles : binding[h] # NoAccount => binding'[h] = binding[h]]_vars
  BY BindingsKept DEF BindingKept
<1> QED BY <1>1, TypedHolds, PTL DEF Spec, BindingNeverMoves

-----------------------------------------------------------------------------
(* The path of a request that continues a conversation.                    *)

\* Handlers that return leave no request that continues anything.
LEMMA ReturnAffine ==
  ASSUME Typed, BoundOnly, InRange, BindingKept, NEW S, Return(S)
  PROVE  BoundOnly' /\ InRange'
BY RelayAssumption
DEF RelayAssumption, Typed, BoundOnly, InRange, BindingKept, Return, Clear, Sticky

\* A request that goes on from one step to another keeps its one candidate, if
\* it was checked before and is only sent to the first.
LEMMA MoveAffine ==
  ASSUME Typed, BoundOnly, InRange, BindingKept,
         NEW r \in Requests, NEW step \in Step \ {"new", "bound"}, Goto(r, step),
         UNCHANGED <<prev, queue>>,
         UNCHANGED at \/ (Advance(r) /\ step = "choosing"),
         Sticky(r) => /\ pc[r] # "done"
                      /\ pc[r] = "bound" => binding[prev[r]] \notin MonitorOnly
                      /\ step \in {"calling", "returned", "binding", "closing"} => at[r] = 1
  PROVE  BoundOnly' /\ InRange'
<1>1. \A q \in Requests : Sticky(q)' <=> Sticky(q)
  BY DEF Sticky
<1>2. \A q \in Requests : Sticky(q) => prev[q] \in Handles /\ binding'[prev[q]] = binding[prev[q]]
  BY DEF Sticky, Typed, BoundOnly, BindingKept
<1>3. \A q \in Requests : q # r => pc'[q] = pc[q] /\ at'[q] = at[q]
  BY DEF Goto, Advance, Typed
<1>4. pc'[r] = step
  BY DEF Goto, Typed
<1>5. BoundOnly'
  BY <1>1, <1>2, <1>3, <1>4 DEF BoundOnly
<1>6. InRange'
  <2>1. CASE UNCHANGED at
    BY <1>1, <1>3, <1>4, <2>1 DEF InRange
  <2>2. CASE Advance(r) /\ step = "choosing"
    BY <1>1, <1>3, <1>4, <2>2 DEF InRange
  <2> QED BY <2>1, <2>2
<1> QED BY <1>5, <1>6

\* Steps that leave a request where it is.
LEMMA StayAffine ==
  ASSUME BoundOnly, InRange, Typed, BindingKept, UNCHANGED <<pc, prev, queue, at>>
  PROVE  BoundOnly' /\ InRange'
BY DEF Typed, BoundOnly, InRange, BindingKept, Sticky

LEMMA AffinityInvHolds == Spec => [](Typed /\ BoundOnly /\ InRange)
<1>1. Init => BoundOnly /\ InRange
  BY DEF Init, BoundOnly, InRange, Sticky
<1>2. Typed /\ BoundOnly /\ InRange /\ [Next]_vars => BoundOnly' /\ InRange'
  <2> SUFFICES ASSUME Typed, BoundOnly, InRange, [Next]_vars PROVE BoundOnly' /\ InRange'
    OBVIOUS
  <2>0. BindingKept
    BY BindingsKept
  <2> USE <2>0 DEF loop, call
  <2>1. ASSUME NEW r \in Requests, Reject(r) PROVE BoundOnly' /\ InRange'
    BY <2>1, ReturnAffine DEF Reject
  <2>2. ASSUME NEW r \in Requests, StartFresh(r) PROVE BoundOnly' /\ InRange'
    <3>1. CASE /\ pc[r] = "new" /\ Goto(r, "choosing")
               /\ queue' = [queue EXCEPT ![r] = Candidates]
               /\ UNCHANGED <<prev, at>>
      <4>1. ~Sticky(r)
        BY <3>1 DEF BoundOnly
      <4> QED BY <3>1, <4>1 DEF Goto, Typed, BoundOnly, InRange, Sticky, BindingKept
    <3> QED BY <2>1, <2>2, <3>1 DEF StartFresh
  <2>3. ASSUME NEW r \in Requests, NEW h \in Handles, StartContinuation(r, h)
        PROVE  BoundOnly' /\ InRange'
    <3>1. CASE /\ pc[r] = "new" /\ binding[h] # NoAccount
               /\ prev' = [prev EXCEPT ![r] = h]
               /\ queue' = [queue EXCEPT ![r] = <<binding[h]>>]
               /\ Goto(r, "bound")
               /\ UNCHANGED at
      <4>1. /\ pc'[r] = "bound" /\ prev'[r] = h /\ queue'[r] = <<binding[h]>> /\ at'[r] = at[r]
            /\ binding'[h] = binding[h]
            /\ \A q \in Requests : q # r => /\ pc'[q] = pc[q] /\ prev'[q] = prev[q]
                                            /\ queue'[q] = queue[q] /\ at'[q] = at[q]
        BY <3>1 DEF Goto, Typed, BindingKept
      <4>2. BoundOnly'
        <5> SUFFICES ASSUME NEW q \in Requests, Sticky(q)'
                     PROVE  /\ pc'[q] # "new"
                            /\ binding'[prev'[q]] # NoAccount
                            /\ queue'[q] = <<binding'[prev'[q]]>>
                            /\ pc'[q] \notin {"bound", "done"} =>
                                  binding'[prev'[q]] \notin MonitorOnly
          BY DEF BoundOnly
        <5>1. CASE q = r
          BY <3>1, <4>1, <5>1
        <5>2. CASE q # r
          <6>1. Sticky(q) /\ prev[q] \in Handles /\ prev'[q] = prev[q]
            BY <4>1, <5>2 DEF Sticky, Typed
          <6>2. binding[prev[q]] # NoAccount /\ binding'[prev[q]] = binding[prev[q]]
            BY <6>1 DEF BoundOnly, BindingKept
          <6> QED BY <4>1, <5>2, <6>1, <6>2 DEF BoundOnly
        <5> QED BY <5>1, <5>2
      <4>3. InRange'
        BY <3>1, <4>1 DEF InRange, Sticky
      <4> QED BY <4>2, <4>3
    <3> QED BY <2>1, <2>3, <3>1 DEF StartContinuation
  <2>4. ASSUME NEW r \in Requests, CheckBound(r) PROVE BoundOnly' /\ InRange'
    <3>1. CASE Usable(Current(r)) /\ pc[r] = "bound" /\ Goto(r, "choosing") /\ UNCHANGED loop
      <4>1. Sticky(r) => Current(r) = binding[prev[r]]
        BY <3>1 DEF BoundOnly, InRange, Current
      <4> QED BY <3>1, <4>1, MoveAffine DEF Usable, Step
    <3> QED BY <2>1, <2>4, <3>1 DEF CheckBound
  <2>5. ASSUME NEW r \in Requests, SkipCandidate(r) PROVE BoundOnly' /\ InRange'
    <3>1. CASE Advance(r) /\ UNCHANGED <<pc, prev, queue>>
      <4>1. pc[r] = "choosing"
        BY <2>5 DEF SkipCandidate
      <4>2. Goto(r, "choosing")
        BY <2>5, <3>1 DEF SkipCandidate, Goto, Typed
      <4> QED BY <3>1, <4>1, <4>2, MoveAffine DEF Step
    <3>2. CASE Goto(r, "failed") /\ UNCHANGED <<prev, queue, at>>
      BY <2>5, <3>2, MoveAffine DEF SkipCandidate, Step
    <3> QED BY <2>5, <3>1, <3>2 DEF SkipCandidate
  <2>6. ASSUME NEW r \in Requests, Send(r) PROVE BoundOnly' /\ InRange'
    <3>1. Sticky(r) => at[r] = 1
      <4>1. Sticky(r) => Len(queue[r]) = 1
        BY DEF BoundOnly
      <4>2. at[r] \in Nat /\ at[r] >= 1 /\ at[r] <= Len(queue[r])
        BY <2>6 DEF Send, Typed
      <4>3. \A n \in Nat : n >= 1 /\ n <= 1 => n = 1
        OBVIOUS
      <4>4. CASE Sticky(r)
        BY <4>1, <4>2, <4>3, <4>4
      <4> QED BY <4>4
    <3> QED BY <2>6, <3>1, MoveAffine DEF Send, Step
  <2>7. ASSUME NEW r \in Requests, RunOut(r) PROVE BoundOnly' /\ InRange'
    BY <2>7, MoveAffine DEF RunOut, Step
  <2>8. ASSUME NEW r \in Requests, Output(r) PROVE BoundOnly' /\ InRange'
    BY <2>8, StayAffine DEF Output
  <2>9. ASSUME NEW r \in Requests, OutputFails(r) \/ \E result : CallReturns(r, result)
        PROVE  BoundOnly' /\ InRange'
    BY <2>9, MoveAffine DEF OutputFails, CallReturns, InRange, Step
  <2>10. ASSUME NEW r \in Requests, Settle(r) PROVE BoundOnly' /\ InRange'
    BY <2>10, MoveAffine DEF Settle, InRange, Step
  <2>11. ASSUME NEW r \in Requests, SaveBinding(r) PROVE BoundOnly' /\ InRange'
    BY <2>11, MoveAffine DEF SaveBinding, InRange, Step
  <2>12. ASSUME NEW r \in Requests, CloseReply(r) \/ Fail(r) PROVE BoundOnly' /\ InRange'
    BY <2>12, ReturnAffine DEF CloseReply, Fail
  <2>13. ASSUME Restart PROVE BoundOnly' /\ InRange'
    BY <2>13, ReturnAffine DEF Restart
  <2>14. ASSUME NEW r \in Requests, Leave(r) PROVE BoundOnly' /\ InRange'
    BY <2>14, StayAffine DEF Leave
  <2>15. ASSUME NEW a, NEW s, SetAccountStatus(a, s) PROVE BoundOnly' /\ InRange'
    BY <2>15, StayAffine DEF SetAccountStatus
  <2>16. ASSUME NEW h, Expire(h) PROVE BoundOnly' /\ InRange'
    BY <2>16, StayAffine DEF Expire
  <2>17. ASSUME UNCHANGED vars PROVE BoundOnly' /\ InRange'
    BY <2>17, StayAffine DEF vars
  <2> QED
    BY <2>2, <2>3, <2>4, <2>5, <2>6, <2>7, <2>8, <2>9, <2>10, <2>11, <2>12, <2>13, <2>14,
       <2>15, <2>16, <2>17 DEF Next, HandlerStep
<1> QED BY <1>1, <1>2, TypedHolds, PTL DEF Spec

\* handleResponses and previous_response_id: a continued conversation is only
\* ever sent to the account that minted its handle, through failing calls,
\* disabled accounts, repeated ids, expiry and restarts.
THEOREM ConversationAffinityHolds == Spec => []ConversationAffinity
<1>1. Typed /\ BoundOnly /\ InRange => ConversationAffinity
  BY DEF Typed, BoundOnly, InRange, ConversationAffinity, Current
<1> QED BY <1>1, AffinityInvHolds, PTL
-----------------------------------------------------------------------------
(* The other variables, and that a call is of a candidate there is.        *)

Domains ==
    /\ status \in [Accounts -> {"active", "disabled"}]
    /\ binding \in [Handles -> Accounts \cup {NoAccount}]
    /\ expired \subseteq Handles
    /\ queue \in [Requests -> Seq(Accounts)]
    /\ started \in [Requests -> BOOLEAN]
    /\ outcome \in [Requests -> Result]
    /\ usage \in [Requests -> Seq(Usage)]
    /\ unsaved \subseteq Requests
    /\ written \in [Requests -> SUBSET Nat]
    /\ ended \in [Requests -> {"open", "finished", "refused", "lost"}]

Called(r) == pc[r] \in {"calling", "returned", "binding", "closing"}

CallsInRange == \A r \in Requests : Called(r) => at[r] <= Len(queue[r])

LEMMA CandidatesSound == Candidates \in Seq(Accounts)
<1> DEFINE usable == {i \in DOMAIN Order : Usable(Order[i])}
<1>1. Order \in Seq(Accounts) /\ usable \in SUBSET DOMAIN Order
  BY RelayAssumption DEF RelayAssumption
<1>2. Candidates = Kept(Order, usable)
  BY DEF Candidates
<1> HIDE DEF usable
<1>. QED
  BY <1>1, <1>2, KeptMembers

LEMMA ReturnDomains ==
  ASSUME Typed, Domains, CallsInRange, NEW S, Return(S),
         UNCHANGED <<status, binding, expired, written>>,
         usage' \in [Requests -> Seq(Usage)], unsaved' \subseteq Requests,
         ended' \in [Requests -> {"open", "finished", "refused", "lost"}]
  PROVE  Domains' /\ CallsInRange'
<1>1. Domains'
  <2>1. <<>> \in Seq(Accounts)
    OBVIOUS
  <2>2. queue' \in [Requests -> Seq(Accounts)]
    BY <2>1 DEF Domains, Return, Clear
  <2>3. started' \in [Requests -> BOOLEAN] /\ outcome' \in [Requests -> Result]
    BY DEF Domains, Return, Clear, Result
  <2>. QED
    BY <2>2, <2>3 DEF Domains
<1>2. CallsInRange'
  BY DEF Typed, CallsInRange, Called, Return, Clear
<1>. QED
  BY <1>1, <1>2

LEMMA CurrentIsAccount ==
  ASSUME Typed, Domains, NEW r \in Requests, at[r] <= Len(queue[r])
  PROVE  Current(r) \in Accounts
BY DEF Typed, Domains, Current

\* One usage event more, or a failed write.
LEMMA ChargeDomains ==
  ASSUME Domains, NEW r \in Requests, NEW account \in Accounts \cup {NoAccount},
         NEW ok \in BOOLEAN, Charge(r, account, ok)
  PROVE  usage' \in [Requests -> Seq(Usage)] /\ unsaved' \subseteq Requests
<1> DEFINE event == [account |-> account, ok |-> ok]
<1>1. event \in Usage
  BY DEF Usage
<1>2. \/ usage' = [usage EXCEPT ![r] = Append(@, event)] /\ UNCHANGED unsaved
      \/ unsaved' = unsaved \cup {r} /\ UNCHANGED usage
  BY DEF Charge
<1> HIDE DEF event
<1>3. Append(usage[r], event) \in Seq(Usage)
  BY <1>1, AppendProperties DEF Domains
<1>. QED
  BY <1>2, <1>3 DEF Domains

LEMMA EveryStepDomains ==
  ASSUME Typed, Domains, CallsInRange, [Next]_vars
  PROVE  Domains' /\ CallsInRange'
<1> USE DEF bindings, loop, call, log, wire
<1>1. ASSUME NEW r \in Requests, Reject(r) PROVE Domains' /\ CallsInRange'
  BY <1>1, ReturnDomains DEF Reject, Close, Domains
<1>2. ASSUME NEW r \in Requests, StartFresh(r) PROVE Domains' /\ CallsInRange'
  <2>1. CASE /\ Goto(r, "choosing")
             /\ queue' = [queue EXCEPT ![r] = Candidates]
             /\ UNCHANGED <<status, bindings, prev, at, call, log, wire>>
    <3>1. Domains'
      BY <2>1, CandidatesSound DEF Domains
    <3>2. CallsInRange'
      BY <2>1 DEF Goto, Typed, Domains, CallsInRange, Called
    <3>. QED
      BY <3>1, <3>2
  <2>. QED
    BY <1>1, <1>2, <2>1 DEF StartFresh
<1>3. ASSUME NEW r \in Requests, NEW h \in Handles, StartContinuation(r, h)
      PROVE  Domains' /\ CallsInRange'
  <2>1. CASE /\ binding[h] # NoAccount /\ queue' = [queue EXCEPT ![r] = <<binding[h]>>]
             /\ Goto(r, "bound")
             /\ UNCHANGED <<status, bindings, at, call, log, wire>>
    <3>1. binding[h] \in Accounts
      BY <2>1 DEF Domains
    <3>2. Domains'
      BY <2>1, <3>1 DEF Domains
    <3>3. CallsInRange'
      BY <2>1 DEF Goto, Typed, Domains, CallsInRange, Called
    <3>. QED
      BY <3>2, <3>3
  <2>. QED
    BY <1>1, <1>3, <2>1 DEF StartContinuation
<1>4. ASSUME NEW r \in Requests,
             CheckBound(r) \/ SkipCandidate(r) \/ Send(r) \/ RunOut(r) \/ Output(r)
               \/ OutputFails(r) \/ \E result \in Failures \cup {"ok"} : CallReturns(r, result)
      PROVE  Domains' /\ CallsInRange'
  <2>1. CASE CheckBound(r)
    <3>1. CASE Goto(r, "choosing") /\ UNCHANGED <<status, bindings, loop, call, log, wire>>
      BY <3>1 DEF Goto, Typed, Domains, CallsInRange, Called
    <3>. QED
      BY <1>1, <2>1, <3>1 DEF CheckBound
  <2>2. CASE SkipCandidate(r)
    BY <2>2 DEF SkipCandidate, Advance, Goto, Typed, Domains, CallsInRange, Called, Result
  <2>3. CASE Send(r)
    BY <2>3 DEF Send, Goto, Typed, Domains, CallsInRange, Called
  <2>4. CASE RunOut(r)
    BY <2>4 DEF RunOut, Goto, Typed, Domains, CallsInRange, Called
  <2>5. CASE Output(r)
    BY <2>5 DEF Output, Typed, Domains, CallsInRange, Called
  <2>6. CASE OutputFails(r)
    BY <2>6 DEF OutputFails, Goto, Typed, Domains, CallsInRange, Called, Result
  <2>7. ASSUME NEW result \in Failures \cup {"ok"}, CallReturns(r, result)
        PROVE  Domains' /\ CallsInRange'
    BY <2>7, RelayAssumption
    DEF RelayAssumption, CallReturns, Goto, Typed, Domains, CallsInRange, Called, Result
  <2>. QED
    BY <1>4, <2>1, <2>2, <2>3, <2>4, <2>5, <2>6, <2>7
<1>5. ASSUME NEW r \in Requests, Settle(r) PROVE Domains' /\ CallsInRange'
  <2>1. Current(r) \in Accounts
    BY <1>5, CurrentIsAccount DEF Settle, CallsInRange, Called
  <2>2. usage' \in [Requests -> Seq(Usage)] /\ unsaved' \subseteq Requests
    <3>1. CASE UNCHANGED log
      BY <3>1 DEF Domains
    <3>. QED
      BY <1>5, <2>1, <3>1, ChargeDomains DEF Settle, ChargeCall
  <2>3. Domains'
    BY <1>5, <2>2 DEF Settle, Domains
  <2>4. CallsInRange'
    BY <1>5 DEF Settle, Advance, Goto, Typed, CallsInRange, Called
  <2>. QED
    BY <2>3, <2>4
<1>6. ASSUME NEW r \in Requests, SaveBinding(r) PROVE Domains' /\ CallsInRange'
  <2>1. Current(r) \in Accounts
    BY <1>6, CurrentIsAccount DEF SaveBinding, CallsInRange, Called
  <2>2. BoundTo(r, meta[r]) \in Accounts \/ meta[r] \notin Handles
    BY <2>1 DEF BoundTo, Domains
  <2>3. Domains'
    BY <1>6, <2>2 DEF SaveBinding, Typed, Domains
  <2>4. CallsInRange'
    BY <1>6 DEF SaveBinding, Goto, Typed, CallsInRange, Called
  <2>. QED
    BY <2>3, <2>4
<1>7. ASSUME NEW r \in Requests, CloseReply(r) PROVE Domains' /\ CallsInRange'
  BY <1>7, ReturnDomains DEF CloseReply, Close, Domains
<1>8. ASSUME NEW r \in Requests, Fail(r) PROVE Domains' /\ CallsInRange'
  <2>1. usage' \in [Requests -> Seq(Usage)] /\ unsaved' \subseteq Requests
    BY <1>8, ChargeDomains DEF Fail
  <2>. QED
    BY <1>8, <2>1, ReturnDomains DEF Fail, Close, Domains
<1>9. ASSUME Restart PROVE Domains' /\ CallsInRange'
  BY <1>9, ReturnDomains DEF Restart, Domains
<1>10. ASSUME \/ \E r \in Requests : Leave(r)
              \/ \E a \in Accounts, s \in {"active", "disabled"} : SetAccountStatus(a, s)
              \/ \E h \in Handles : Expire(h)
              \/ UNCHANGED vars
       PROVE  Domains' /\ CallsInRange'
  BY <1>10 DEF Leave, SetAccountStatus, Expire, vars, Typed, Domains, CallsInRange, Called
<1>. QED
  BY <1>2, <1>3, <1>4, <1>5, <1>6, <1>7, <1>8, <1>9, <1>10 DEF Next, HandlerStep

LEMMA DomainsHold == Spec => [](Typed /\ Domains /\ CallsInRange)
<1>1. Init => Domains /\ CallsInRange
  BY RelayAssumption DEF RelayAssumption, Init, Domains, CallsInRange, Called, Result
<1>2. Typed /\ Domains /\ CallsInRange /\ [Next]_vars => Domains' /\ CallsInRange'
  BY EveryStepDomains
<1>. QED
  BY <1>1, <1>2, TypedHolds, PTL DEF Spec

\* Every variable stays in its domain.
THEOREM TypeOKHolds == Spec => []TypeOK
<1>1. Typed /\ Domains => TypeOK
  BY DEF Typed, Domains, TypeOK
<1>. QED
  BY <1>1, DomainsHold, PTL

-----------------------------------------------------------------------------
(* The end of a reply.                                                      *)

\* Once the handler gets to its end the handle is bound, or a write failed.
HandleKnown ==
    \A r \in Requests : pc[r] = "closing" /\ meta[r] # NoHandle =>
        binding[meta[r]] # NoAccount \/ r \in unsaved

LEMMA EveryStepKnown ==
  ASSUME Typed, Domains, CallsInRange, HandleKnown, [Next]_vars
  PROVE  HandleKnown'
<1> USE DEF bindings, loop, call, log, wire
<1>1. BindingKept
  BY BindingsKept
<1>2. ASSUME unsaved \subseteq unsaved',
             \A q \in Requests : pc'[q] = "closing" => pc[q] = "closing" /\ meta'[q] = meta[q]
      PROVE  HandleKnown'
  BY <1>1, <1>2 DEF HandleKnown, BindingKept, Typed
<1>3. ASSUME NEW S, Return(S), unsaved \subseteq unsaved' PROVE HandleKnown'
  BY <1>2, <1>3 DEF Return, Clear, Typed
<1>4. ASSUME NEW r \in Requests, NEW step \in Step \ {"closing"}, Goto(r, step),
             unsaved \subseteq unsaved', \A q \in Requests \ {r} : meta'[q] = meta[q]
      PROVE  HandleKnown'
  BY <1>2, <1>4 DEF Goto, Typed
<1>5. ASSUME NEW r \in Requests,
             \/ Reject(r) \/ CloseReply(r) \/ Fail(r) \/ StartFresh(r) \/ CheckBound(r)
             \/ \E h \in Handles : StartContinuation(r, h)
      PROVE  HandleKnown'
  <2>1. CASE Reject(r) \/ CloseReply(r) \/ Fail(r)
    BY <1>3, <2>1 DEF Reject, CloseReply, Fail, Charge
  <2>2. CASE StartFresh(r)
    BY <1>4, <2>1, <2>2 DEF StartFresh, Step
  <2>3. CASE CheckBound(r)
    BY <1>4, <2>1, <2>3 DEF CheckBound, Step
  <2>4. ASSUME NEW h \in Handles, StartContinuation(r, h) PROVE HandleKnown'
    BY <1>4, <2>1, <2>4 DEF StartContinuation, Step
  <2>. QED
    BY <1>5, <2>1, <2>2, <2>3, <2>4
<1>6. ASSUME NEW r \in Requests, SkipCandidate(r) PROVE HandleKnown'
  BY <1>2, <1>6 DEF SkipCandidate, Goto, Typed
<1>7. ASSUME NEW r \in Requests, Send(r) PROVE HandleKnown'
  BY <1>4, <1>7 DEF Send, Step, Typed
<1>8. ASSUME NEW r \in Requests, Output(r) PROVE HandleKnown'
  BY <1>2, <1>8 DEF Output, Typed
<1>9. ASSUME NEW r \in Requests,
             RunOut(r) \/ OutputFails(r) \/ \E result : CallReturns(r, result)
      PROVE  HandleKnown'
  BY <1>4, <1>9 DEF RunOut, OutputFails, CallReturns, Step
<1>10. ASSUME NEW r \in Requests, Settle(r) PROVE HandleKnown'
  <2>1. unsaved \subseteq unsaved' /\ UNCHANGED meta
    BY <1>10 DEF Settle, ChargeCall, Charge
  <2>. QED
    BY <1>4, <1>10, <2>1 DEF Settle, Step
<1>11. ASSUME NEW r \in Requests, SaveBinding(r) PROVE HandleKnown'
  <2>1. Current(r) \in Accounts
    BY <1>11, CurrentIsAccount DEF SaveBinding, CallsInRange, Called
  <2>2. /\ UNCHANGED meta /\ unsaved \subseteq unsaved'
        /\ \A q \in Requests \ {r} : pc'[q] = pc[q]
    BY <1>11 DEF SaveBinding, Goto, Typed
  <2>3. meta[r] # NoHandle => binding'[meta[r]] # NoAccount \/ r \in unsaved'
    BY <1>11, <2>1, RelayAssumption DEF RelayAssumption, SaveBinding, BoundTo, Typed, Domains
  <2>. QED
    BY <1>1, <2>2, <2>3 DEF HandleKnown, BindingKept, Typed
<1>12. ASSUME Restart PROVE HandleKnown'
  BY <1>3, <1>12 DEF Restart
<1>13. ASSUME UNCHANGED <<pc, meta, unsaved>> PROVE HandleKnown'
  BY <1>2, <1>13
<1>14. ASSUME NEW r \in Requests, Leave(r) PROVE HandleKnown'
  BY <1>13, <1>14 DEF Leave
<1>15. ASSUME NEW a, NEW s, SetAccountStatus(a, s) PROVE HandleKnown'
  BY <1>13, <1>15 DEF SetAccountStatus
<1>16. ASSUME NEW h, Expire(h) PROVE HandleKnown'
  BY <1>13, <1>16 DEF Expire
<1>17. ASSUME UNCHANGED vars PROVE HandleKnown'
  BY <1>13, <1>17 DEF vars
<1>. QED
  BY <1>5, <1>6, <1>7, <1>8, <1>9, <1>10, <1>11, <1>12, <1>14, <1>15, <1>16, <1>17
     DEF Next, HandlerStep

\* The conversation of a reply can be continued from the moment the client
\* sees its end, unless the write of the binding failed.
THEOREM HandleKnownAfterReplyHolds == Spec => HandleKnownAfterReply
<1>1. Init => HandleKnown
  BY DEF Init, HandleKnown
<1>2. Typed /\ Domains /\ CallsInRange /\ HandleKnown /\ [Next]_vars => HandleKnown'
  BY EveryStepKnown
<1>3. Typed /\ Domains /\ HandleKnown /\ [Next]_vars =>
        [\A r \in Requests :
            ended[r] = "open" /\ ended'[r] = "finished" /\ meta[r] # NoHandle
            => binding[meta[r]] # NoAccount \/ r \in unsaved]_vars
  <2> SUFFICES ASSUME Typed, Domains, HandleKnown, [Next]_vars, NEW r \in Requests,
                      ended[r] = "open", ended'[r] = "finished", meta[r] # NoHandle
               PROVE  binding[meta[r]] # NoAccount \/ r \in unsaved
    OBVIOUS
  <2> USE DEF bindings, loop, call, log, wire, Close, Domains
  <2>1. ASSUME NEW q \in Requests, HandlerStep(q), ~CloseReply(q) PROVE FALSE
    <3>1. CASE \/ Reject(q) \/ StartFresh(q) \/ CheckBound(q) \/ Fail(q)
               \/ \E h \in Handles : StartContinuation(q, h)
      BY <3>1 DEF Reject, StartFresh, CheckBound, Fail, StartContinuation
    <3>2. CASE ~(\/ Reject(q) \/ StartFresh(q) \/ CheckBound(q) \/ Fail(q)
                 \/ \E h \in Handles : StartContinuation(q, h))
      BY <2>1, <3>2 DEF HandlerStep, SkipCandidate, Send, RunOut, Output, OutputFails,
                        CallReturns, Settle, SaveBinding
    <3>. QED
      BY <3>1, <3>2
  <2>2. ASSUME NEW q \in Requests, CloseReply(q) PROVE q = r /\ pc[q] = "closing"
    BY <2>2 DEF CloseReply
  <2>3. ~Restart /\ ~UNCHANGED vars
    BY DEF Restart, vars
  <2>4. ASSUME NEW q \in Requests, Leave(q) PROVE FALSE
    BY <2>4 DEF Leave
  <2>5. ASSUME NEW a, NEW s, SetAccountStatus(a, s) PROVE FALSE
    BY <2>5 DEF SetAccountStatus
  <2>6. ASSUME NEW h, Expire(h) PROVE FALSE
    BY <2>6 DEF Expire
  <2>7. pc[r] = "closing"
    BY <2>1, <2>2, <2>3, <2>4, <2>5, <2>6 DEF Next
  <2>. QED
    BY <2>7 DEF HandleKnown
<1>. QED
  BY <1>1, <1>2, <1>3, DomainsHold, PTL DEF Spec, HandleKnownAfterReply
-----------------------------------------------------------------------------
(* Who answered.                                                            *)

\* What is written down of r, and of the account it is at.
Charged(r) ==
    r \notin unsaved =>
        /\ pc[r] \in {"binding", "closing"} =>
              usage[r] # <<>> /\ Last(usage[r]) = [account |-> Current(r), ok |-> TRUE]
        /\ \A k \in DOMAIN usage[r] : usage[r][k].ok =>
              k = Len(usage[r]) /\ pc[r] \in {"binding", "closing", "done"}

AllCharged == \A r \in Requests : Charged(r)

LEMMA ChargedKept ==
  ASSUME NEW q \in Requests, Charged(q), usage'[q] = usage[q], unsaved \subseteq unsaved',
         \/ pc'[q] = pc[q] /\ queue'[q] = queue[q] /\ at'[q] = at[q]
         \/ pc[q] = "binding" /\ pc'[q] = "closing" /\ queue'[q] = queue[q] /\ at'[q] = at[q]
         \/ pc'[q] = "done"
         \/ pc[q] \notin {"binding", "closing", "done"} /\ pc'[q] \notin {"binding", "closing"}
  PROVE  Charged(q)'
BY DEF Charged, Current

\* One event more.
LEMMA Appended ==
  ASSUME NEW s \in Seq(Usage), NEW e \in Usage
  PROVE  LET t == Append(s, e)
         IN  /\ t # <<>> /\ Last(t) = e /\ Len(t) = Len(s) + 1 /\ DOMAIN t = 1..(Len(s) + 1)
             /\ \A k \in DOMAIN s : t[k] = s[k]
             /\ t[Len(s) + 1] = e
<1> DEFINE t == Append(s, e)
<1>1. /\ t \in Seq(Usage) /\ Len(t) = Len(s) + 1 /\ t[Len(s) + 1] = e /\ Len(s) \in Nat
      /\ \A k \in 1..Len(s) : t[k] = s[k]
  BY AppendProperties
<1> HIDE DEF t
<1>. QED
  BY <1>1 DEF Last, t

\* An event of an answer that came to its end is the last one.
LEMMA AnswerCharged ==
  ASSUME Domains, NEW r \in Requests, Charged(r), pc[r] \notin {"binding", "closing", "done"},
         NEW e \in Usage,
         r \in unsaved' \/ (r \notin unsaved /\ usage'[r] = Append(usage[r], e)),
         e.ok => pc'[r] = "binding" /\ e = [account |-> Current(r)', ok |-> TRUE],
         ~e.ok => pc'[r] \notin {"binding", "closing"}
  PROVE  Charged(r)'
<1>1. CASE r \in unsaved'
  BY <1>1 DEF Charged
<1>2. CASE r \notin unsaved /\ usage'[r] = Append(usage[r], e)
  <2>1. usage[r] \in Seq(Usage)
    BY DEF Domains
  <2>2. /\ usage'[r] # <<>> /\ Last(usage'[r]) = e /\ Len(usage'[r]) = Len(usage[r]) + 1
        /\ DOMAIN usage'[r] = 1..(Len(usage[r]) + 1)
        /\ \A k \in DOMAIN usage[r] : usage'[r][k] = usage[r][k]
        /\ usage'[r][Len(usage[r]) + 1] = e
    BY <1>2, <2>1, Appended
  <2>3. DOMAIN usage[r] = 1..Len(usage[r]) /\ Len(usage[r]) \in Nat
    BY <2>1
  <2>4. \A k \in DOMAIN usage[r] : ~usage[r][k].ok
    BY <1>2 DEF Charged
  <2>5. \A k \in DOMAIN usage'[r] : usage'[r][k].ok => k = Len(usage'[r]) /\ e.ok
    BY <2>2, <2>3, <2>4
  <2>. QED
    BY <2>2, <2>5 DEF Charged
<1>. QED
  BY <1>1, <1>2

LEMMA EveryStepCharged ==
  ASSUME Typed, Domains, CallsInRange, AllCharged, [Next]_vars
  PROVE  AllCharged'
<1> USE DEF bindings, loop, call, log, wire
<1>1. ASSUME NEW S, Return(S), UNCHANGED log PROVE AllCharged'
  <2>. SUFFICES ASSUME NEW q \in Requests PROVE Charged(q)'
    BY DEF AllCharged
  <2>1. pc'[q] = "done" \/ (pc'[q] = pc[q] /\ queue'[q] = queue[q] /\ at'[q] = at[q])
    BY <1>1 DEF Return, Clear
  <2>. QED
    BY <1>1, <2>1, ChargedKept DEF AllCharged
<1>2. ASSUME NEW r \in Requests, unsaved \subseteq unsaved', UNCHANGED usage,
             \A q \in Requests \ {r} :
                pc'[q] = pc[q] /\ queue'[q] = queue[q] /\ at'[q] = at[q],
             \/ pc'[r] = pc[r] /\ queue'[r] = queue[r] /\ at'[r] = at[r]
             \/ pc[r] = "binding" /\ pc'[r] = "closing" /\ queue'[r] = queue[r] /\ at'[r] = at[r]
             \/ pc[r] \notin {"binding", "closing", "done"} /\ pc'[r] \notin {"binding", "closing"}
      PROVE  AllCharged'
  BY <1>2, ChargedKept DEF AllCharged
<1>3. ASSUME NEW r \in Requests, Reject(r) \/ CloseReply(r) PROVE AllCharged'
  BY <1>1, <1>3 DEF Reject, CloseReply
<1>4. ASSUME NEW r \in Requests, StartFresh(r) PROVE AllCharged'
  <2>1. CASE /\ pc[r] = "new" /\ Goto(r, "choosing")
             /\ queue' = [queue EXCEPT ![r] = Candidates] /\ UNCHANGED <<at, log>>
    BY <1>2, <2>1 DEF Goto, Typed
  <2>. QED
    BY <1>3, <1>4, <2>1 DEF StartFresh
<1>5. ASSUME NEW r \in Requests, NEW h \in Handles, StartContinuation(r, h) PROVE AllCharged'
  <2>1. CASE /\ pc[r] = "new" /\ Goto(r, "bound")
             /\ queue' = [queue EXCEPT ![r] = <<binding[h]>>] /\ UNCHANGED <<at, log>>
    BY <1>2, <2>1 DEF Goto, Typed
  <2>. QED
    BY <1>3, <1>5, <2>1 DEF StartContinuation
<1>6. ASSUME NEW r \in Requests,
             \/ CheckBound(r) \/ SkipCandidate(r) \/ Send(r) \/ RunOut(r) \/ Output(r)
             \/ OutputFails(r) \/ \E result : CallReturns(r, result)
      PROVE  AllCharged'
  <2>1. CASE CheckBound(r)
    <3>1. CASE Goto(r, "choosing") /\ UNCHANGED <<status, bindings, loop, call, log, wire>>
      BY <1>2, <2>1, <3>1 DEF CheckBound, Goto, Typed
    <3>. QED
      BY <1>3, <2>1, <3>1 DEF CheckBound
  <2>2. CASE SkipCandidate(r)
    BY <1>2, <2>2 DEF SkipCandidate, Advance, Goto, Typed
  <2>3. CASE Send(r) \/ RunOut(r) \/ Output(r) \/ OutputFails(r)
    BY <1>2, <2>3 DEF Send, RunOut, Output, OutputFails, Goto, Typed
  <2>4. ASSUME NEW result, CallReturns(r, result) PROVE AllCharged'
    BY <1>2, <2>4 DEF CallReturns, Goto, Typed
  <2>. QED
    BY <1>6, <2>1, <2>2, <2>3, <2>4
<1>7. ASSUME NEW r \in Requests, Settle(r) PROVE AllCharged'
  <2>1. /\ pc[r] = "returned" /\ UNCHANGED queue
        /\ pc'[r] \in {"binding", "choosing", "failed"}
        /\ pc'[r] = "binding" <=> outcome[r] = "ok"
        /\ outcome[r] = "ok" => UNCHANGED at
        /\ \A q \in Requests \ {r} : pc'[q] = pc[q] /\ at'[q] = at[q]
    BY <1>7 DEF Settle, Advance, Goto, Typed
  <2>2. unsaved \subseteq unsaved' /\ \A q \in Requests \ {r} : usage'[q] = usage[q]
    BY <1>7 DEF Settle, ChargeCall, Charge, Domains
  <2>3. \A q \in Requests \ {r} : Charged(q)'
    BY <2>1, <2>2, ChargedKept DEF AllCharged
  <2>4. Current(r) \in Accounts
    BY <2>1, CurrentIsAccount DEF CallsInRange, Called
  <2>5. ASSUME Charge(r, Current(r), outcome[r] = "ok") PROVE Charged(r)'
    <3> DEFINE e == [account |-> Current(r), ok |-> outcome[r] = "ok"]
    <3>1. e \in Usage /\ e.ok = (outcome[r] = "ok") /\ e.account = Current(r)
      BY <2>4 DEF Usage
    <3>2. r \in unsaved' \/ (r \notin unsaved /\ usage'[r] = Append(usage[r], e))
      BY <2>5 DEF Charge, Domains
    <3>3. outcome[r] = "ok" => e = [account |-> Current(r)', ok |-> TRUE]
      BY <2>1 DEF Current
    <3> HIDE DEF e
    <3>4. Charged(r) /\ pc[r] \notin {"binding", "closing", "done"}
      BY <2>1 DEF AllCharged
    <3>. QED
      BY <2>1, <3>1, <3>2, <3>3, <3>4, AnswerCharged
  <2>6. ASSUME outcome[r] # "ok", UNCHANGED log PROVE Charged(r)'
    <3>1. pc[r] = "returned" /\ pc'[r] \notin {"binding", "closing"} /\ usage'[r] = usage[r]
      BY <2>1, <2>6
    <3>. QED
      BY <2>2, <3>1, ChargedKept DEF AllCharged
  <2>7. Charged(r)'
    BY <1>7, <2>5, <2>6 DEF Settle, ChargeCall
  <2>. QED
    BY <2>3, <2>7 DEF AllCharged
<1>8. ASSUME NEW r \in Requests, SaveBinding(r) PROVE AllCharged'
  BY <1>2, <1>8 DEF SaveBinding, Goto, Typed
<1>9. ASSUME NEW r \in Requests, Fail(r) PROVE AllCharged'
  <2>1. /\ pc[r] = "failed" /\ pc'[r] = "done" /\ Charge(r, NoAccount, FALSE)
        /\ unsaved \subseteq unsaved'
        /\ \A q \in Requests \ {r} : /\ pc'[q] = pc[q] /\ queue'[q] = queue[q]
                                     /\ at'[q] = at[q] /\ usage'[q] = usage[q]
    BY <1>9 DEF Fail, Return, Clear, Charge, Domains
  <2>2. Charged(r)'
    <3> DEFINE e == [account |-> NoAccount, ok |-> FALSE]
    <3>1. e \in Usage /\ ~e.ok
      BY DEF Usage
    <3>2. r \in unsaved' \/ (r \notin unsaved /\ usage'[r] = Append(usage[r], e))
      BY <2>1 DEF Charge, Domains
    <3> HIDE DEF e
    <3>. QED
      BY <2>1, <3>1, <3>2, AnswerCharged DEF AllCharged
  <2>3. \A q \in Requests \ {r} : Charged(q)'
    BY <2>1, ChargedKept DEF AllCharged
  <2>. QED
    BY <2>2, <2>3 DEF AllCharged
<1>10. ASSUME Restart PROVE AllCharged'
  BY <1>1, <1>10 DEF Restart
<1>11. ASSUME UNCHANGED <<pc, queue, at, usage, unsaved>> PROVE AllCharged'
  BY <1>11, ChargedKept DEF AllCharged
<1>12. ASSUME \/ \E r \in Requests : Leave(r)
              \/ \E a \in Accounts, s \in {"active", "disabled"} : SetAccountStatus(a, s)
              \/ \E h \in Handles : Expire(h)
              \/ UNCHANGED vars
       PROVE  AllCharged'
  BY <1>11, <1>12 DEF Leave, SetAccountStatus, Expire, vars
<1>. QED
  BY <1>3, <1>4, <1>5, <1>6, <1>7, <1>8, <1>9, <1>10, <1>12 DEF Next, HandlerStep

\* The account of a reply that came to its end has the last usage event of the
\* request, the only one without an error, unless one of its writes failed.
THEOREM UsageTellsWhoAnsweredHolds == Spec => []UsageTellsWhoAnswered
<1>1. Init => AllCharged
  BY DEF Init, AllCharged, Charged
<1>2. Typed /\ Domains /\ CallsInRange /\ AllCharged /\ [Next]_vars => AllCharged'
  BY EveryStepCharged
<1>3. AllCharged => UsageTellsWhoAnswered
  BY DEF AllCharged, Charged, UsageTellsWhoAnswered
<1>. QED
  BY <1>1, <1>2, <1>3, DomainsHold, PTL DEF Spec
===============================================================================
