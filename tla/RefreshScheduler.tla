--------------------------- MODULE RefreshScheduler ---------------------------
(***************************************************************************)
(* scheduler.Scheduler behind POST /api/v1/accounts/{id}/refresh, with the *)
(* refresh_jobs table.  A call takes the in-memory claim on its key (an    *)
(* account and a capability), looks at the row of the key, starts a run in *)
(* it, runs the job, writes the outcome, reads the row back for the answer *)
(* and gives the claim up.  Any access to the table may fail, clients may  *)
(* leave (which cancels the job), and the process may die and recover.     *)
(*                                                                         *)
(* Run ids are nanosecond timestamps; they are taken to differ.  The times *)
(* in a row are left out: no decision of the program depends on them.     *)
(***************************************************************************)
EXTENDS Naturals, FiniteSets

CONSTANTS
    Calls,       \* calls of the refresh endpoint
    Keys,        \* account and capability pairs with a registered job
    KeyOf,       \* KeyOf[c]: what call c wants refreshed
    NoRun        \* the id of a row nobody has written yet

ASSUME SchedulerAssumption ==
    /\ KeyOf \in [Calls -> Keys]
    /\ NoRun \notin Calls

VARIABLES
    row,         \* refresh_jobs, one row per key (UNIQUE account, capability)
    inflight,    \* Scheduler.inflight: the claimed keys
    pc,          \* where a call is
    seen,        \* RetryCount the call read before it started its run
    streak,      \* history: recorded failures of the key since its last success
    faults       \* keys one of whose table accesses failed

vars == <<row, inflight, pc, seen, streak, faults>>

Step == {"new", "checking", "starting", "running", "ok", "failing", "answering",
         "done"}
State == {"none", "running", "success", "failed", "interrupted"}
Row == [run : Calls \cup {NoRun}, state : State, retries : Nat]

Working(c) == pc[c] \in {"running", "ok", "failing"}

TypeOK ==
    /\ row \in [Keys -> Row]
    /\ inflight \subseteq Keys
    /\ pc \in [Calls -> Step]
    /\ seen \in [Calls -> Nat]
    /\ streak \in [Keys -> Nat]
    /\ faults \subseteq Keys

Init ==
    /\ row = [k \in Keys |-> [run |-> NoRun, state |-> "none", retries |-> 0]]
    /\ inflight = {}
    /\ pc = [c \in Calls |-> "new"]
    /\ seen = [c \in Calls |-> 0]
    /\ streak = [k \in Keys |-> 0]
    /\ faults = {}

-----------------------------------------------------------------------------
Goto(c, step) == pc' = [pc EXCEPT ![c] = step]
Faulty(c) == faults' = faults \cup {KeyOf[c]}

\* Seeded fault: an early return that is not covered by the deferred delete.
FinishKeepingClaim(c) ==
    /\ inflight' = IF pc[c] = "starting" THEN inflight ELSE inflight \ {KeyOf[c]}
    /\ seen' = [seen EXCEPT ![c] = 0]
    /\ Goto(c, "done")

\* The call is answered, well or with an error; the deferred delete gives its
\* claim up, and what it had read is gone.
Finish(c) ==
    /\ inflight' = inflight \ {KeyOf[c]}
    /\ seen' = [seen EXCEPT ![c] = 0]
    /\ Goto(c, "done")

\* Seeded fault: test and set of the claim are not under one lock.
ClaimUnlocked(c) ==
    /\ pc[c] = "new"
    /\ inflight' = inflight \cup {KeyOf[c]}
    /\ Goto(c, "checking")
    /\ UNCHANGED <<row, seen, streak, faults>>

\* Enqueue claims the key, under the mutex.
Claim(c) ==
    /\ pc[c] = "new"
    /\ KeyOf[c] \notin inflight
    /\ inflight' = inflight \cup {KeyOf[c]}
    /\ Goto(c, "checking")
    /\ UNCHANGED <<row, seen, streak, faults>>

\* The key is claimed: ErrBusy, with the row if it can be read.
RefuseBusy(c) ==
    /\ pc[c] = "new"
    /\ KeyOf[c] \in inflight
    /\ Goto(c, "done")
    /\ UNCHANGED <<row, inflight, seen, streak, faults>>

\* A run that the row still shows as running is not started again.  A read
\* that fails counts as "no such row".
CheckRow(c) ==
    /\ pc[c] = "checking"
    /\ \/ /\ row[KeyOf[c]].state = "running"
          /\ Finish(c)
          /\ UNCHANGED faults
       \/ /\ row[KeyOf[c]].state # "running"
          /\ seen' = [seen EXCEPT ![c] = row[KeyOf[c]].retries]
          /\ Goto(c, "starting")
          /\ UNCHANGED <<inflight, faults>>
       \/ /\ Faulty(c)
          /\ \E n \in {0, row[KeyOf[c]].retries} : seen' = [seen EXCEPT ![c] = n]
          /\ Goto(c, "starting")
          /\ UNCHANGED inflight
    /\ UNCHANGED <<row, streak>>

\* Seeded fault: a new run starts counting its retries from nought.
StartedRowAfresh(c) == [run |-> c, state |-> "running", retries |-> 0]

\* UpsertRefreshJob resets the row: only the count of retries is carried over.
StartedRow(c) == [run |-> c, state |-> "running", retries |-> seen[c]]

StartRun(c) ==
    /\ pc[c] = "starting"
    /\ \/ /\ row' = [row EXCEPT ![KeyOf[c]] = StartedRow(c)]
          /\ Goto(c, "running")
          /\ UNCHANGED <<inflight, seen, faults>>
       \/ /\ Faulty(c)
          /\ Finish(c)
          /\ UNCHANGED row
    /\ UNCHANGED streak

\* The job function returns, at the latest when its context times out.
JobEnds(c) ==
    /\ pc[c] = "running"
    /\ \E ending \in {"ok", "failing"} : Goto(c, ending)
    /\ UNCHANGED <<row, inflight, seen, streak, faults>>

\* UpdateRefreshJobState reaches the row of this run, if it is still there.
Update(c, state, retries) ==
    row' = [row EXCEPT ![KeyOf[c]] =
               IF @.run # c THEN @
               ELSE [@ EXCEPT !.state = state, !.retries = retries]]

RecordSuccess(c) ==
    /\ pc[c] = "ok"
    /\ streak' = [streak EXCEPT ![KeyOf[c]] = 0]
    /\ \/ Update(c, "success", 0) /\ UNCHANGED faults
       \/ Faulty(c) /\ UNCHANGED row
    /\ Goto(c, "answering")
    /\ UNCHANGED <<inflight, seen>>

\* A failure is counted on top of what the row says now (on nothing, if it
\* cannot be read).
RecordFailure(c) ==
    /\ pc[c] = "failing"
    /\ streak' = [streak EXCEPT ![KeyOf[c]] = @ + 1]
    /\ \/ Update(c, "failed", row[KeyOf[c]].retries + 1) /\ UNCHANGED faults
       \/ Faulty(c) /\ (UNCHANGED row \/ Update(c, "failed", 0))
    /\ Goto(c, "answering")
    /\ UNCHANGED <<inflight, seen>>

\* The row is read back for the answer (an error if that fails).
Answer(c) ==
    /\ pc[c] = "answering"
    /\ Finish(c)
    /\ UNCHANGED <<row, streak, faults>>

-----------------------------------------------------------------------------
\* Seeded fault: nothing is said of the runs that died with the process.
RestartUnmarked ==
    LET gone == {c \in Calls : pc[c] \notin {"new", "done"}} IN
    /\ inflight' = {}
    /\ pc' = [c \in Calls |-> IF c \in gone THEN "done" ELSE pc[c]]
    /\ seen' = [c \in Calls |-> IF c \in gone THEN 0 ELSE seen[c]]
    /\ UNCHANGED <<row, streak, faults>>

\* The process dies and starts again: the claims are gone; before it listens
\* it marks running rows as interrupted, unless that update fails.
Restart ==
    LET gone == {c \in Calls : pc[c] \notin {"new", "done"}} IN
    /\ inflight' = {}
    /\ pc' = [c \in Calls |-> IF c \in gone THEN "done" ELSE pc[c]]
    /\ seen' = [c \in Calls |-> IF c \in gone THEN 0 ELSE seen[c]]
    /\ \/ /\ row' = [k \in Keys |-> IF row[k].state = "running"
                                    THEN [row[k] EXCEPT !.state = "interrupted"]
                                    ELSE row[k]]
          /\ UNCHANGED faults
       \/ /\ faults' = faults \cup {k \in Keys : row[k].state = "running"}
          /\ UNCHANGED row
    /\ UNCHANGED streak

CallStep(c) ==
    \/ CheckRow(c)
    \/ StartRun(c)
    \/ JobEnds(c)
    \/ RecordSuccess(c)
    \/ RecordFailure(c)
    \/ Answer(c)

Next ==
    \/ \E c \in Calls : Claim(c) \/ RefuseBusy(c) \/ CallStep(c)
    \/ Restart

Spec == Init /\ [][Next]_vars

\* A call that holds a claim goes on: the job is bounded by JobTimeout.
Fairness == \A c \in Calls : WF_vars(CallStep(c))
FairSpec == Spec /\ Fairness

-----------------------------------------------------------------------------
(* Properties.                                                             *)

\* No account is refreshed twice at a time for the same capability, by
\* callers in any order and across restarts.
SingleFlight ==
    \A c, d \in Calls : Working(c) /\ Working(d) /\ KeyOf[c] = KeyOf[d] => c = d

\* The table tells what goes on: a row is running exactly while the run it
\* names is under way, unless an access to it has failed.
RunningRowHasRun ==
    \A k \in Keys \ faults :
        row[k].state = "running" <=> \E c \in Calls : Working(c) /\ row[k].run = c

\* retry_count is the number of failures in a row, through the reruns and
\* restarts in between; it is what backoff and MaxRetries go by.
RetriesCountFailures == \A k \in Keys \ faults : row[k].retries = streak[k]

\* A refresh that is under way never keeps its key for good: the claim comes
\* back, whatever fails on the way.
ClaimComesBack == \A k \in Keys : k \in inflight ~> k \notin inflight
===============================================================================
