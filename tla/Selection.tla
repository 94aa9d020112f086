------------------------------ MODULE Selection ------------------------------
(***************************************************************************)
(* What the loops that filter a slice and sort.SliceStable make of it: the *)
(* chosen positions one after the other.  A position is found by the       *)
(* number of those before it, so that what the result holds follows from   *)
(* facts about finite sets.                                                *)
(***************************************************************************)
EXTENDS Naturals, FiniteSets

\* The positions of S that do not come after i, by key and then by position.
UpTo(S, key, i) == {j \in S : key[j] < key[i] \/ (key[j] = key[i] /\ j <= i)}

\* The positions of S by key, those of one key in their order.
Ranked(S, key) ==
    [k \in 1..Cardinality(S) |-> CHOOSE i \in S : Cardinality(UpTo(S, key, i)) = k]

\* The positions of S in their order.
InOrder(S) == Ranked(S, [i \in S |-> 0])

\* A loop over seq that appends the members at the positions of S.
Kept(seq, S) == [k \in DOMAIN InOrder(S) |-> seq[InOrder(S)[k]]]

\* sort.SliceStable by key, a number for each position.
StableSort(seq, key) ==
    [k \in DOMAIN seq |-> seq[Ranked(DOMAIN seq, key)[k]]]
=============================================================================
