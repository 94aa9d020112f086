------------------------ MODULE RefreshScheduler_proofs ------------------------
(***************************************************************************)
(* Type correctness, single flight and the truth of the table of the       *)
(* refresh scheduler, for any calls and keys.                              *)
(*                                                                         *)
(* SingleFlight is not inductive: nothing in it says why a second call     *)
(* cannot get past the claim.  The invariant ClaimsExclude does: whoever   *)
(* is past the claim holds its key in inflight, and two who hold the same  *)
(* key are one.  The table plays no part in it, so failing accesses and    *)
(* restarts need no thought.  What the table says rests on it in turn: no  *)
(* other call writes to the row of a run under way (TableInv).             *)
(***************************************************************************)
EXTENDS RefreshScheduler, TLAPS

\* A call between its claim and its answer.
Claiming(c) == pc[c] \in {"checking", "starting", "running", "ok", "failing", "answering"}

ClaimsExclude ==
    /\ \A c \in Calls : Claiming(c) => KeyOf[c] \in inflight
    /\ \A c, d \in Calls : Claiming(c) /\ Claiming(d) /\ KeyOf[c] = KeyOf[d] => c = d

\* The variables keep their types: rows, claims, positions and counters.
THEOREM TypeCorrect == Spec => []TypeOK
<1>1. Init => TypeOK
  BY SchedulerAssumption DEF Init, TypeOK, Row, State, Step
<1>2. TypeOK /\ [Next]_vars => TypeOK'
  <2> SUFFICES ASSUME TypeOK, [Next]_vars PROVE TypeOK'
    OBVIOUS
  <2> USE SchedulerAssumption DEF TypeOK, Step, Goto, Faulty, Finish
  <2>1. ASSUME NEW c \in Calls, Claim(c) PROVE TypeOK'
    BY <2>1 DEF Claim
  <2>2. ASSUME NEW c \in Calls, RefuseBusy(c) PROVE TypeOK'
    BY <2>2 DEF RefuseBusy
  <2>3. ASSUME NEW c \in Calls, CheckRow(c) PROVE TypeOK'
    <3>1. row[KeyOf[c]].retries \in Nat
      BY DEF Row
    <3> QED BY <2>3, <3>1 DEF CheckRow
  <2>4. ASSUME NEW c \in Calls, StartRun(c) PROVE TypeOK'
    <3>1. StartedRow(c) \in Row
      BY DEF StartedRow, Row, State
    <3> QED BY <2>4, <3>1 DEF StartRun
  <2>5. ASSUME NEW c \in Calls, JobEnds(c) PROVE TypeOK'
    BY <2>5 DEF JobEnds
  <2>6. ASSUME NEW c \in Calls, NEW s \in State, NEW n \in Nat, Update(c, s, n)
        PROVE  row' \in [Keys -> Row]
    <3>0. row[KeyOf[c]] \in Row
      OBVIOUS
    <3>1. [row[KeyOf[c]] EXCEPT !.state = s, !.retries = n] \in Row
      BY <3>0 DEF Row
    <3> QED BY <2>6, <3>1 DEF Update
  <2>7. ASSUME NEW c \in Calls, RecordSuccess(c) PROVE TypeOK'
    <3>1. row' \in [Keys -> Row]
      BY <2>6, <2>7 DEF RecordSuccess, State
    <3> QED BY <2>7, <3>1 DEF RecordSuccess
  <2>8. ASSUME NEW c \in Calls, RecordFailure(c) PROVE TypeOK'
    <3>1. row[KeyOf[c]].retries + 1 \in Nat
      BY DEF Row
    <3>2. row' \in [Keys -> Row]
      BY <2>6, <2>8, <3>1 DEF RecordFailure, State
    <3>3. streak' \in [Keys -> Nat] /\ pc' \in [Calls -> Step]
      BY <2>8 DEF RecordFailure
    <3>4. faults' \subseteq Keys
      <4>1. faults' = faults \/ faults' = faults \cup {KeyOf[c]}
        BY <2>8, Zenon DEF RecordFailure
      <4> QED BY <4>1
    <3>5. UNCHANGED <<inflight, seen>>
      BY <2>8 DEF RecordFailure
    <3> QED BY <3>2, <3>3, <3>4, <3>5
  <2>9. ASSUME NEW c \in Calls, Answer(c) PROVE TypeOK'
    BY <2>9 DEF Answer
  <2>10. ASSUME Restart PROVE TypeOK'
    <3>1. \A k \in Keys : [row[k] EXCEPT !.state = "interrupted"] \in Row
      BY DEF Row, State
    <3> QED BY <2>10, <3>1 DEF Restart
  <2>11. ASSUME UNCHANGED vars PROVE TypeOK'
    BY <2>11 DEF vars
  <2> QED BY <2>1, <2>2, <2>3, <2>4, <2>5, <2>7, <2>8, <2>9, <2>10, <2>11 DEF Next, CallStep
<1> QED BY <1>1, <1>2, PTL DEF Spec

\* The claim keeps calls of one key apart.
LEMMA ClaimsHold == Spec => []ClaimsExclude
<1>1. Init => ClaimsExclude
  BY DEF Init, ClaimsExclude, Claiming
<1>2. TypeOK /\ ClaimsExclude /\ [Next]_vars => ClaimsExclude'
  <2> SUFFICES ASSUME TypeOK, ClaimsExclude, [Next]_vars PROVE ClaimsExclude'
    OBVIOUS
  <2> USE DEF ClaimsExclude, Claiming, TypeOK, Goto
  <2>1. ASSUME NEW c \in Calls, Claim(c) PROVE ClaimsExclude'
    BY <2>1 DEF Claim
  <2>2. ASSUME NEW c \in Calls, RefuseBusy(c) PROVE ClaimsExclude'
    BY <2>2 DEF RefuseBusy
  <2>3. ASSUME NEW c \in Calls, pc[c] \in {"checking", "starting", "answering"}, Finish(c)
        PROVE  ClaimsExclude'
    BY <2>3 DEF Finish
  <2>4. ASSUME NEW c \in Calls, Claiming(c), UNCHANGED inflight,
               pc' = [pc EXCEPT ![c] = pc'[c]]
        PROVE  ClaimsExclude'
    BY <2>4
  <2>5. ASSUME NEW c \in Calls, CheckRow(c) PROVE ClaimsExclude'
    BY <2>3, <2>4, <2>5 DEF CheckRow
  <2>6. ASSUME NEW c \in Calls, StartRun(c) PROVE ClaimsExclude'
    BY <2>3, <2>4, <2>6 DEF StartRun
  <2>7. ASSUME NEW c \in Calls, JobEnds(c) PROVE ClaimsExclude'
    BY <2>4, <2>7 DEF JobEnds
  <2>8. ASSUME NEW c \in Calls, RecordSuccess(c) \/ RecordFailure(c) PROVE ClaimsExclude'
    BY <2>4, <2>8 DEF RecordSuccess, RecordFailure
  <2>9. ASSUME NEW c \in Calls, Answer(c) PROVE ClaimsExclude'
    BY <2>3, <2>9 DEF Answer
  <2>10. ASSUME Restart PROVE ClaimsExclude'
    BY <2>10 DEF Restart, Step
  <2>11. ASSUME UNCHANGED vars PROVE ClaimsExclude'
    BY <2>11 DEF vars
  <2> QED BY <2>1, <2>2, <2>5, <2>6, <2>7, <2>8, <2>9, <2>10, <2>11 DEF Next, CallStep
<1> QED BY <1>1, <1>2, TypeCorrect, PTL DEF Spec

\* Enqueue never lets two calls run the job of the same account and
\* capability, in any order of calls and restarts.
THEOREM SingleFlightHolds == Spec => []SingleFlight
<1>1. ClaimsExclude => SingleFlight
  BY DEF ClaimsExclude, Claiming, SingleFlight, Working
<1> QED BY <1>1, ClaimsHold, PTL

-----------------------------------------------------------------------------
(* What the table says.                                                     *)

\* A row names a run of its own key.  A run under way is the one its row names,
\* and the row says so, also when accesses have failed; the other direction,
\* and the counts, need that none has.
TableInv ==
    /\ \A k \in Keys : row[k].run # NoRun => KeyOf[row[k].run] = k
    /\ \A c \in Calls : Working(c) =>
          row[KeyOf[c]].run = c /\ row[KeyOf[c]].state = "running"
    /\ \A k \in Keys \ faults : row[k].state = "running" =>
          row[k].run \in Calls /\ Working(row[k].run)
    /\ \A c \in Calls : pc[c] = "starting" /\ KeyOf[c] \notin faults =>
          seen[c] = row[KeyOf[c]].retries
    /\ RetriesCountFailures

\* Writing to the row of c's key, or to none, reaches no other claimed key.
LEMMA OtherRowsKept ==
  ASSUME TypeOK, ClaimsExclude, NEW c \in Calls, Claiming(c),
         \A k \in Keys \ {KeyOf[c]} : row'[k] = row[k],
         pc' = [pc EXCEPT ![c] = pc'[c]]
  PROVE  \A d \in Calls \ {c} : Claiming(d) =>
            KeyOf[d] # KeyOf[c] /\ row'[KeyOf[d]] = row[KeyOf[d]] /\ pc'[d] = pc[d]
BY SchedulerAssumption DEF TypeOK, ClaimsExclude

\* The run of c ends: its row, or a failed access, tells.
LEMMA RecordStep ==
  ASSUME TypeOK, ClaimsExclude, TableInv, NEW c \in Calls,
         RecordSuccess(c) \/ RecordFailure(c)
  PROVE  TableInv'
<1> USE SchedulerAssumption DEF Working, Claiming
<1> DEFINE k == KeyOf[c]
<1>1. /\ k \in Keys /\ pc[c] \in {"ok", "failing"} /\ row[k] \in Row
      /\ row[k].run = c /\ row[k].state = "running"
  BY DEF TypeOK, TableInv, RecordSuccess, RecordFailure
<1>2. ASSUME NEW s, NEW n, Update(c, s, n)
      PROVE  /\ row'[k].run = c /\ row'[k].state = s /\ row'[k].retries = n
             /\ \A j \in Keys \ {k} : row'[j] = row[j]
  <2>1. row' = [row EXCEPT ![k] = [row[k] EXCEPT !.state = s, !.retries = n]]
    BY <1>1, <1>2 DEF Update
  <2>2. row'[k] = [row[k] EXCEPT !.state = s, !.retries = n]
    BY <1>1, <2>1 DEF TypeOK
  <2>. QED
    BY <1>1, <2>1, <2>2 DEF TypeOK, Row
<1>3. /\ pc' = [pc EXCEPT ![c] = "answering"] /\ UNCHANGED seen
      /\ faults' = faults \/ faults' = faults \cup {k}
      /\ \A j \in Keys \ {k} : row'[j] = row[j] /\ streak'[j] = streak[j]
      /\ row'[k].run = c
      /\ k \notin faults' => row'[k].state # "running" /\ row'[k].retries = streak'[k]
  <2>1. CASE RecordSuccess(c)
    <3>1. \/ Update(c, "success", 0) /\ UNCHANGED faults
          \/ Faulty(c) /\ UNCHANGED row
      BY <2>1, Zenon DEF RecordSuccess
    <3>2. /\ pc' = [pc EXCEPT ![c] = "answering"] /\ UNCHANGED seen
          /\ streak' = [streak EXCEPT ![k] = 0]
      BY <2>1, Zenon DEF RecordSuccess, Goto
    <3>3. CASE Update(c, "success", 0) /\ UNCHANGED faults
      BY <1>1, <1>2, <3>2, <3>3 DEF TypeOK
    <3>4. CASE Faulty(c) /\ UNCHANGED row
      BY <1>1, <3>2, <3>4 DEF TypeOK, Faulty
    <3>. QED
      BY <3>1, <3>3, <3>4
  <2>2. CASE RecordFailure(c)
    <3>1. \/ Update(c, "failed", row[k].retries + 1) /\ UNCHANGED faults
          \/ Faulty(c) /\ UNCHANGED row
          \/ Faulty(c) /\ Update(c, "failed", 0)
      BY <2>2, Zenon DEF RecordFailure
    <3>2. /\ pc' = [pc EXCEPT ![c] = "answering"] /\ UNCHANGED seen
          /\ streak' = [streak EXCEPT ![k] = streak[k] + 1]
      BY <2>2, Zenon DEF RecordFailure, Goto
    <3>3. CASE Update(c, "failed", row[k].retries + 1) /\ UNCHANGED faults
      BY <1>1, <1>2, <3>2, <3>3 DEF TypeOK, TableInv, RetriesCountFailures
    <3>4. CASE Faulty(c) /\ UNCHANGED row
      BY <1>1, <3>2, <3>4 DEF TypeOK, Faulty
    <3>5. CASE Faulty(c) /\ Update(c, "failed", 0)
      BY <1>1, <1>2, <3>2, <3>5 DEF TypeOK, Faulty
    <3>. QED
      BY <3>1, <3>3, <3>4, <3>5
  <2>. QED BY <2>1, <2>2
<1>4. \A d \in Calls \ {c} : Claiming(d) =>
         KeyOf[d] # k /\ row'[KeyOf[d]] = row[KeyOf[d]] /\ pc'[d] = pc[d]
  BY <1>1, <1>3, OtherRowsKept DEF TypeOK
<1>5. pc'[c] = "answering" /\ \A d \in Calls \ {c} : pc'[d] = pc[d]
  BY <1>3 DEF TypeOK
<1>. QED
  BY <1>1, <1>3, <1>4, <1>5 DEF TableInv, RetriesCountFailures, TypeOK

\* No step but those of a claimed key touches its row.
LEMMA TableStep ==
  ASSUME TypeOK, ClaimsExclude, TableInv, [Next]_vars
  PROVE  TableInv'
<1> USE SchedulerAssumption DEF Working, Claiming
<1>1. ASSUME NEW c \in Calls, Claim(c) \/ RefuseBusy(c) PROVE TableInv'
  BY <1>1 DEF Claim, RefuseBusy, Goto, TableInv, TypeOK, RetriesCountFailures
<1>2. ASSUME NEW c \in Calls, CheckRow(c) PROVE TableInv'
  BY <1>2 DEF CheckRow, Finish, Faulty, Goto, TableInv, TypeOK, RetriesCountFailures
<1>3. ASSUME NEW c \in Calls, StartRun(c) PROVE TableInv'
  <2> DEFINE k == KeyOf[c]
  <2>1. CASE row' = [row EXCEPT ![k] = StartedRow(c)] /\ Goto(c, "running")
             /\ UNCHANGED <<inflight, seen, streak, faults>>
    <3>1. /\ k \in Keys /\ pc[c] = "starting" /\ pc'[c] = "running"
          /\ row'[k].run = c /\ row'[k].state = "running" /\ row'[k].retries = seen[c]
          /\ \A j \in Keys \ {k} : row'[j] = row[j]
          /\ \A d \in Calls \ {c} : pc'[d] = pc[d]
      BY <1>3, <2>1 DEF StartRun, StartedRow, Goto, TypeOK
    <3>2. \A d \in Calls \ {c} : Claiming(d) =>
             KeyOf[d] # k /\ row'[KeyOf[d]] = row[KeyOf[d]] /\ pc'[d] = pc[d]
      BY <2>1, <3>1, OtherRowsKept DEF Goto, TypeOK
    <3>3. \A j \in Keys \ faults : row'[j].retries = streak'[j]
      BY <2>1, <3>1 DEF TableInv, RetriesCountFailures
    <3>. QED
      BY <2>1, <3>1, <3>2, <3>3 DEF TableInv, RetriesCountFailures, TypeOK
  <2>2. CASE Faulty(c) /\ Finish(c) /\ UNCHANGED row /\ UNCHANGED streak
    BY <1>3, <2>2 DEF StartRun, Finish, Faulty, Goto, TableInv, TypeOK, RetriesCountFailures
  <2>. QED
    BY <1>3, <2>1, <2>2 DEF StartRun
<1>4. ASSUME NEW c \in Calls, JobEnds(c) PROVE TableInv'
  BY <1>4 DEF JobEnds, Goto, TableInv, TypeOK, RetriesCountFailures
<1>5. ASSUME NEW c \in Calls, RecordSuccess(c) \/ RecordFailure(c) PROVE TableInv'
  BY <1>5, RecordStep
<1>6. ASSUME NEW c \in Calls, Answer(c) PROVE TableInv'
  BY <1>6 DEF Answer, Finish, Goto, TableInv, TypeOK, RetriesCountFailures
<1>7. CASE Restart
  <2>1. \A c \in Calls : pc'[c] \in {"new", "done"}
    BY <1>7 DEF Restart, TypeOK
  <2>2. /\ UNCHANGED streak /\ faults \subseteq faults'
        /\ \A k \in Keys : row'[k].run = row[k].run /\ row'[k].retries = row[k].retries
        /\ \A k \in Keys \ faults' : row'[k].state # "running"
    BY <1>7 DEF Restart, TypeOK, Row
  <2>. QED
    BY <2>1, <2>2 DEF TableInv, RetriesCountFailures
<1>8. CASE UNCHANGED vars
  BY <1>8 DEF vars, TableInv, RetriesCountFailures
<1>. QED
  BY <1>1, <1>2, <1>3, <1>4, <1>5, <1>6, <1>7, <1>8 DEF Next, CallStep

LEMMA TableInvHolds == Spec => []TableInv
<1>1. Init => TableInv
  BY SchedulerAssumption DEF Init, TableInv, Working, RetriesCountFailures
<1>. QED
  BY <1>1, TableStep, TypeCorrect, ClaimsHold, PTL DEF Spec

\* The row of a key is running exactly while the run it names is under way,
\* unless an access to it has failed.
THEOREM RunningRowHasRunHolds == Spec => []RunningRowHasRun
<1>1. TypeOK /\ TableInv => RunningRowHasRun
  <2> SUFFICES ASSUME TypeOK, TableInv, NEW k \in Keys \ faults
               PROVE  row[k].state = "running" <=>
                         \E c \in Calls : Working(c) /\ row[k].run = c
    BY DEF RunningRowHasRun
  <2>1. ASSUME NEW c \in Calls, Working(c), row[k].run = c PROVE row[k].state = "running"
    BY <2>1, SchedulerAssumption DEF TableInv
  <2>. QED
    BY <2>1 DEF TableInv
<1>. QED
  BY <1>1, TypeCorrect, TableInvHolds, PTL

\* retry_count is the number of failures since the last success, through
\* reruns and restarts, unless an access to the row has failed.
THEOREM RetriesCountFailuresHolds == Spec => []RetriesCountFailures
<1>1. TableInv => RetriesCountFailures
  BY DEF TableInv
<1>. QED
  BY <1>1, TableInvHolds, PTL
===============================================================================
