------------------------------ MODULE Hysteresis ------------------------------
(***************************************************************************)
(* What the comments of health.Engine promise of a status that follows     *)
(* measurements without flapping: it gets worse only when the last         *)
(* DowngradeSustained verdicts were all worse than it, recovers only when  *)
(* the last RecoverSustained were all better, and then takes the latest    *)
(* verdict.  It must also move then.  There are no counters here: the      *)
(* status is a function of the verdicts, one after another.                *)
(***************************************************************************)
EXTENDS Naturals, Sequences

CONSTANTS
    Subjects,            \* what is judged
    Verdict,             \* what a window may say
    Best,                \* the verdict a new subject starts from
    Rank,                \* how bad a verdict is
    DowngradeSustained,  \* this many worse verdicts in a row take effect
    RecoverSustained     \* as many better ones

VARIABLES
    verdicts,   \* all verdicts so far
    standing,   \* the status they amount to
    told        \* what the subject's last observer was told

hysteresisVars == <<verdicts, standing, told>>

\* The last DowngradeSustained verdicts of seen are all worse than status.
SustainedWorse(seen, status) ==
    /\ DowngradeSustained <= Len(seen)
    /\ \A i \in (Len(seen) - DowngradeSustained + 1)..Len(seen) :
           Rank[seen[i]] > Rank[status]

\* The last RecoverSustained verdicts of seen are all better than status.
SustainedBetter(seen, status) ==
    /\ RecoverSustained <= Len(seen)
    /\ \A i \in (Len(seen) - RecoverSustained + 1)..Len(seen) :
           Rank[seen[i]] < Rank[status]

Init ==
    /\ verdicts = [k \in Subjects |-> <<>>]
    /\ standing = [k \in Subjects |-> Best]
    /\ told = [k \in Subjects |-> [status |-> "unknown", stable |-> FALSE]]

\* The status that subject k has after verdict v.
Outcome(k, v) ==
    LET seen == Append(verdicts[k], v)
    IN  IF SustainedWorse(seen, standing[k]) \/ SustainedBetter(seen, standing[k])
        THEN v
        ELSE standing[k]

\* A verdict: observers are told the status it leads to, and that the status
\* is stable when it is what this verdict says.
Hear(k, v) ==
    /\ verdicts' = [verdicts EXCEPT ![k] = Append(@, v)]
    /\ standing' = [standing EXCEPT ![k] = Outcome(k, v)]
    /\ told' = [told EXCEPT ![k] = [status |-> Outcome(k, v),
                                    stable |-> v = Outcome(k, v)]]

\* No verdict: nothing changes, and nobody may act on it.
HearNothing(k) ==
    /\ told' = [told EXCEPT ![k] = [status |-> "unknown", stable |-> FALSE]]
    /\ UNCHANGED <<verdicts, standing>>

Next == \E k \in Subjects : HearNothing(k) \/ \E v \in Verdict : Hear(k, v)

Spec == Init /\ [][Next]_hysteresisVars
=============================================================================
