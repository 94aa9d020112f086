----------------------------- MODULE HealthWindow -----------------------------
(***************************************************************************)
(* The health engine (internal/health): a window of samples is scored and  *)
(* classified, and Observe lets a status change only after several windows *)
(* in a row.  Implements Hysteresis.                                       *)
(***************************************************************************)
EXTENDS Integers, Sequences, FiniteSetsExt, SequencesExt

CONSTANTS
    Subjects,            \* what is observed: a model, maybe of one connection
    Windows,             \* the windows that may be observed
    DowngradeSustained,  \* Engine.DowngradeSustained
    RecoverSustained,    \* Engine.RecoverSustained
    MinSamples,          \* Engine.MinSamples, which is minStableSamples
    MaxVerdicts          \* bound: verdicts per subject

\* A sample: times in milliseconds, and what became of the request.
Sample == [ttft : Nat, latency : Nat,
           fate : {"ok", "status429", "status5xx", "timeout", "network"}]

ASSUME HealthAssumption ==
    /\ Windows \subseteq Seq(Sample)
    /\ DowngradeSustained \in Nat \ {0}
    /\ RecoverSustained \in Nat \ {0}
    /\ MinSamples \in Nat
    /\ MaxVerdicts \in Nat

Status == {"healthy", "busy", "degraded", "limited"}

VARIABLES
    currentStatus,   \* windowState.currentStatus
    downgradeCount,  \* windowState.downgradeCount
    recoverCount,    \* windowState.recoverCount
    history,         \* history: verdicts of the windows that were large enough
    shown            \* status and stable of the last Observe's result

healthVars == <<currentStatus, downgradeCount, recoverCount, history, shown>>

-----------------------------------------------------------------------------
(* Scoring a window.  Rates are counts over the size of the window; here    *)
(* both sides of a comparison are multiplied by that size.                  *)

Count(w, fate) == Cardinality({i \in DOMAIN w : w[i].fate = fate})

\* A hundred times the p-th percentile: linear between the two samples next
\* to position p/100 * (n-1) of the sorted times.
Percentile100(times, p) ==
    LET sorted == SortSeq(times, <)
        n == Len(sorted)
        lo == (p * (n - 1)) \div 100
        frac == (p * (n - 1)) % 100
        hi == IF lo + 1 >= n THEN n - 1 ELSE lo + 1
    IN  IF n = 0 THEN 0
        ELSE 100 * sorted[lo + 1] + (sorted[hi + 1] - sorted[lo + 1]) * frac

TTFT(w, p) == Percentile100([i \in DOMAIN w |-> w[i].ttft], p)
Latency(w, p) == Percentile100([i \in DOMAIN w |-> w[i].latency], p)

\* The score times the size of the window.
ScoreTimes(w) ==
    LET n == Len(w)
        errors == 30 * Count(w, "status429") + 45 * Count(w, "status5xx")
                + 40 * Count(w, "timeout") + 35 * Count(w, "network")
        slow == (IF TTFT(w, 95) > 300000 THEN 10 ELSE 0)
              + (IF TTFT(w, 95) > 1000000 THEN 10 ELSE 0)
              + (IF Latency(w, 95) > 2000000 THEN 10 ELSE 0)
        score == (100 - slow) * n - errors
    IN  IF score < 0 THEN 0 ELSE score

Classify(w, limited) ==
    LET Exceeds(fate, percent) == 100 * Count(w, fate) > percent * Len(w)
    IN  IF limited THEN "account_limited"
        ELSE IF Exceeds("network", 30) \/ Exceeds("timeout", 50) THEN "network_issue"
        ELSE IF Exceeds("status5xx", 40) THEN "provider_degraded"
        ELSE IF \/ Exceeds("status429", 30)
                \/ TTFT(w, 95) > 1000000
                \/ TTFT(w, 50) > 500000 THEN "model_busy_inferred"
        ELSE IF ScoreTimes(w) < 60 * Len(w) THEN "provider_degraded"
        ELSE "healthy"

ToStatus(fault) ==
    CASE fault = "account_limited" -> "limited"
      [] fault \in {"provider_degraded", "network_issue"} -> "degraded"
      [] fault = "model_busy_inferred" -> "busy"
      [] OTHER -> "healthy"

Evaluate(w, limited) == ToStatus(Classify(w, limited))

-----------------------------------------------------------------------------
(* The engine.                                                              *)

statusRank == [s \in Status |->
    CASE s = "healthy" -> 0 [] s = "busy" -> 1
      [] s = "degraded" -> 2 [] s = "limited" -> 3]

worse(a, b) == statusRank[a] > statusRank[b]

HealthInit ==
    /\ currentStatus = [k \in Subjects |-> "healthy"]
    /\ downgradeCount = [k \in Subjects |-> 0]
    /\ recoverCount = [k \in Subjects |-> 0]
    /\ history = [k \in Subjects |-> <<>>]
    /\ shown = [k \in Subjects |-> [status |-> "unknown", stable |-> FALSE]]

Show(k, status, stable) ==
    shown' = [shown EXCEPT ![k] = [status |-> status, stable |-> stable]]

Counts(k, down, up) ==
    /\ downgradeCount' = [downgradeCount EXCEPT ![k] = down]
    /\ recoverCount' = [recoverCount EXCEPT ![k] = up]

\* Too few samples: nothing is learnt from the window.
ObserveFew(k, w) ==
    /\ w # <<>>
    /\ Len(w) < MinSamples
    /\ Show(k, "unknown", FALSE)
    /\ UNCHANGED <<currentStatus, downgradeCount, recoverCount, history>>

\* The windows so far agree with the status.
Confirm(k, desired) ==
    /\ desired = currentStatus[k]
    /\ Counts(k, 0, 0)
    /\ Show(k, desired, TRUE)
    /\ UNCHANGED currentStatus

\* Seeded fault: one worse window too many is needed.
DowngradeLate(k, desired) ==
    LET n == downgradeCount[k] + 1
    IN  /\ worse(desired, currentStatus[k])
        /\ IF n <= DowngradeSustained
           THEN /\ Counts(k, n, 0)
                /\ Show(k, currentStatus[k], FALSE)
                /\ UNCHANGED currentStatus
           ELSE /\ Counts(k, 0, 0)
                /\ Show(k, desired, TRUE)
                /\ currentStatus' = [currentStatus EXCEPT ![k] = desired]

\* One more worse window; when there were enough the status follows.
Downgrade(k, desired) ==
    LET n == downgradeCount[k] + 1
    IN  /\ worse(desired, currentStatus[k])
        /\ IF n < DowngradeSustained
           THEN /\ Counts(k, n, 0)
                /\ Show(k, currentStatus[k], FALSE)
                /\ UNCHANGED currentStatus
           ELSE /\ Counts(k, 0, 0)
                /\ Show(k, desired, TRUE)
                /\ currentStatus' = [currentStatus EXCEPT ![k] = desired]

\* Seeded fault: a better window leaves the count of worse ones alone.
RecoverOnly(k, desired) ==
    LET n == recoverCount[k] + 1
    IN  /\ desired # currentStatus[k] /\ ~worse(desired, currentStatus[k])
        /\ IF n < RecoverSustained
           THEN /\ Counts(k, downgradeCount[k], n)
                /\ Show(k, currentStatus[k], FALSE)
                /\ UNCHANGED currentStatus
           ELSE /\ Counts(k, downgradeCount[k], 0)
                /\ Show(k, desired, TRUE)
                /\ currentStatus' = [currentStatus EXCEPT ![k] = desired]

\* One more better window; when there were enough the status follows.
Recover(k, desired) ==
    LET n == recoverCount[k] + 1
    IN  /\ desired # currentStatus[k] /\ ~worse(desired, currentStatus[k])
        /\ IF n < RecoverSustained
           THEN /\ Counts(k, 0, n)
                /\ Show(k, currentStatus[k], FALSE)
                /\ UNCHANGED currentStatus
           ELSE /\ Counts(k, 0, 0)
                /\ Show(k, desired, TRUE)
                /\ currentStatus' = [currentStatus EXCEPT ![k] = desired]

ObserveEnough(k, w, limited) ==
    LET desired == Evaluate(w, limited)
    IN  /\ w # <<>>
        /\ Len(w) >= MinSamples
        /\ Len(history[k]) < MaxVerdicts
        /\ history' = [history EXCEPT ![k] = Append(@, desired)]
        /\ Confirm(k, desired) \/ Downgrade(k, desired) \/ Recover(k, desired)

HealthNext ==
    \E k \in Subjects, w \in Windows :
        \/ ObserveFew(k, w)
        \/ \E limited \in BOOLEAN : ObserveEnough(k, w, limited)

HealthSpec == HealthInit /\ [][HealthNext]_healthVars

-----------------------------------------------------------------------------
(* Properties.                                                              *)

\* The engine's state and what it returns.
HealthTypeOK ==
    /\ currentStatus \in [Subjects -> Status]
    /\ downgradeCount \in [Subjects -> 0..(DowngradeSustained - 1)]
    /\ recoverCount \in [Subjects -> 0..(RecoverSustained - 1)]
    /\ history \in [Subjects -> Seq(Status)]
    /\ shown \in [Subjects -> [status : Status \cup {"unknown"}, stable : BOOLEAN]]

\* The two counters amount to the promise of the engine's comments: the status
\* of each subject moves exactly when enough consecutive windows point the same
\* way, whatever windows in between were equal, opposite or too small.
Promise == INSTANCE Hysteresis WITH
    Verdict <- Status,
    Best <- "healthy",
    Rank <- statusRank,
    verdicts <- history,
    standing <- currentStatus,
    told <- shown
StatusFollowsStreaks == Promise!Spec
=============================================================================
