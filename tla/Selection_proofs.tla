--------------------------- MODULE Selection_proofs ---------------------------
(***************************************************************************)
(* Ranked lists every position once and in order: the number of positions  *)
(* up to a given one tells any two apart, so every number from 1 to the    *)
(* size of the set belongs to one of them.                                 *)
(***************************************************************************)
EXTENDS Selection, SequenceTheorems, FiniteSetTheorems, TLAPS

\* A finite set of positions, with a number for each.
Keyed(S, key) == S \in SUBSET Nat /\ IsFiniteSet(S) /\ \A i \in S : key[i] \in Nat

\* i comes before j.
Precedes(key, i, j) == key[i] < key[j] \/ (key[i] = key[j] /\ i < j)

\* f lists the n members of S once each, what comes before first.
Lists(f, n, S, key) ==
    /\ n \in Nat
    /\ f \in [1..n -> S]
    /\ \A i \in S : \E k \in 1..n : f[k] = i
    /\ \A k, l \in 1..n : k < l => Precedes(key, f[k], f[l])

LEMMA UpToCounts ==
  ASSUME NEW S, NEW key, Keyed(S, key), NEW i \in S
  PROVE  /\ IsFiniteSet(UpTo(S, key, i))
         /\ Cardinality(UpTo(S, key, i)) \in 1..Cardinality(S)
<1> DEFINE U == UpTo(S, key, i)
<1>1. U \in SUBSET S /\ i \in U
  BY DEF UpTo, Keyed
<1> HIDE DEF U
<1>2. IsFiniteSet(U) /\ Cardinality(U) <= Cardinality(S)
  BY <1>1, FS_Subset DEF Keyed
<1>3. Cardinality(U) \in Nat /\ Cardinality(S) \in Nat
  BY <1>2, FS_CardinalityType DEF Keyed
<1>4. Cardinality(U) # 0
  BY <1>1, <1>2, FS_EmptySet
<1>. QED
  BY <1>2, <1>3, <1>4 DEF U

\* What comes first has fewer positions up to it.
LEMMA UpToGrows ==
  ASSUME NEW S, NEW key, Keyed(S, key), NEW i \in S, NEW j \in S, Precedes(key, i, j)
  PROVE  Cardinality(UpTo(S, key, i)) < Cardinality(UpTo(S, key, j))
<1> DEFINE U == UpTo(S, key, i)
           V == UpTo(S, key, j)
<1>1. U \in SUBSET V /\ j \in V /\ j \notin U
  <2>1. /\ i \in Nat /\ j \in Nat /\ key[i] \in Nat /\ key[j] \in Nat
        /\ \A x \in S : x \in Nat /\ key[x] \in Nat
    BY DEF Keyed
  <2>2. ASSUME NEW x \in U PROVE x \in V
    BY <2>1 DEF UpTo, Precedes
  <2>3. j \in V /\ j \notin U
    BY <2>1 DEF UpTo, Precedes
  <2>. QED
    BY <2>2, <2>3
<1>2. IsFiniteSet(U) /\ IsFiniteSet(V)
  BY UpToCounts
<1>3. Cardinality(U) \in Nat /\ Cardinality(V) \in Nat
  BY <1>2, FS_CardinalityType
<1> HIDE DEF U, V
<1>4. Cardinality(U) <= Cardinality(V) /\ Cardinality(U) # Cardinality(V)
  BY <1>1, <1>2, FS_Subset
<1>. QED
  BY <1>3, <1>4 DEF U, V

\* Every number from 1 to the size of S is that of a position.
LEMMA EveryRankTaken ==
  ASSUME NEW S, NEW key, Keyed(S, key), NEW k \in 1..Cardinality(S)
  PROVE  \E i \in S : Cardinality(UpTo(S, key, i)) = k
<1> DEFINE rank == [i \in S |-> Cardinality(UpTo(S, key, i))]
           n == Cardinality(S)
<1>1. n \in Nat
  BY FS_CardinalityType DEF Keyed
<1>2. IsFiniteSet(1..n) /\ Cardinality(1..n) = n
  <2>1. /\ IsFiniteSet(1..n)
        /\ Cardinality(1..n) = IF 1 > n THEN 0 ELSE n - 1 + 1
    BY <1>1, FS_Interval
  <2> HIDE DEF n
  <2>. QED
    BY <1>1, <2>1
<1>3. rank \in [S -> 1..n]
  BY UpToCounts
<1>4. ASSUME NEW i \in S, NEW j \in S, i # j PROVE rank[i] # rank[j]
  <2>1. Precedes(key, i, j) \/ Precedes(key, j, i)
    BY <1>4 DEF Keyed, Precedes
  <2>2. rank[i] < rank[j] \/ rank[j] < rank[i]
    BY <2>1, UpToGrows
  <2>3. rank[i] \in Nat /\ rank[j] \in Nat
    BY <1>1, <1>3
  <2>. QED
    BY <2>2, <2>3
<1> HIDE DEF rank
<1>5. rank \in Injection(S, 1..n)
  BY <1>3, <1>4 DEF Injection, IsInjective
<1>6. rank \in Surjection(S, 1..n)
  BY <1>2, <1>5, FS_Injection
<1>7. \E i \in S : rank[i] = k
  BY <1>6 DEF Surjection
<1>. QED
  BY <1>7 DEF rank

\* Ranked lists the positions of S, each once, in order.
LEMMA RankedLists ==
  ASSUME NEW S, NEW key, Keyed(S, key)
  PROVE  Lists(Ranked(S, key), Cardinality(S), S, key)
<1> DEFINE n == Cardinality(S)
           order == Ranked(S, key)
           rank(i) == Cardinality(UpTo(S, key, i))
<1>1. n \in Nat
  BY FS_CardinalityType DEF Keyed
<1>2. ASSUME NEW k \in 1..n PROVE order[k] \in S /\ rank(order[k]) = k
  <2>1. \E i \in S : rank(i) = k
    BY EveryRankTaken
  <2>2. order[k] = CHOOSE i \in S : rank(i) = k
    BY DEF Ranked
  <2> HIDE DEF order, rank
  <2>. QED
    BY <2>1, <2>2
<1>3. order \in [1..n -> S]
  <2>1. order = [k \in 1..n |-> CHOOSE i \in S : rank(i) = k]
    BY DEF Ranked
  <2> HIDE DEF order, rank, n
  <2>. QED
    BY <1>2, <2>1
<1>4. ASSUME NEW i \in S, NEW j \in S, i # j
      PROVE  Precedes(key, i, j) \/ Precedes(key, j, i)
  BY <1>4 DEF Keyed, Precedes
<1>5. ASSUME NEW i \in S PROVE rank(i) \in 1..n
  BY UpToCounts
<1>6. ASSUME NEW i \in S, NEW j \in S, Precedes(key, i, j) PROVE rank(i) < rank(j)
  BY <1>6, UpToGrows
<1> HIDE DEF order, rank, n
<1>7. ASSUME NEW i \in S PROVE \E k \in 1..n : order[k] = i
  <2>1. rank(i) \in 1..n
    BY <1>5
  <2>2. order[rank(i)] \in S /\ rank(order[rank(i)]) = rank(i)
    BY <1>2, <2>1
  <2>3. order[rank(i)] = i
    BY <1>1, <1>4, <1>6, <2>1, <2>2
  <2>. QED
    BY <2>1, <2>3
<1>8. ASSUME NEW k \in 1..n, NEW l \in 1..n, k < l PROVE Precedes(key, order[k], order[l])
  <2>1. /\ order[k] \in S /\ order[l] \in S
        /\ rank(order[k]) = k /\ rank(order[l]) = l
    BY <1>2
  <2>. QED
    BY <1>1, <1>4, <1>6, <1>8, <2>1
<1>. QED
  BY <1>1, <1>3, <1>7, <1>8 DEF order, n, Lists

\* Ranked is the only list that holds the positions once each and in order.
THEOREM RankedIsOnly ==
  ASSUME NEW S, NEW key, Keyed(S, key), NEW n, NEW f, Lists(f, n, S, key)
  PROVE  n = Cardinality(S) /\ f = Ranked(S, key)
<1>. /\ n \in Nat /\ f \in [1..n -> S]
     /\ \A i \in S : \E k \in 1..n : f[k] = i
     /\ \A k, l \in 1..n : k < l => Precedes(key, f[k], f[l])
  BY DEF Lists
<1>1. ASSUME NEW k \in 1..n, NEW l \in 1..n, k # l PROVE f[k] # f[l]
  <2>1. k < l \/ l < k
    BY <1>1
  <2>2. Precedes(key, f[k], f[l]) \/ Precedes(key, f[l], f[k])
    BY <2>1
  <2>3. f[k] \in Nat /\ key[f[k]] \in Nat /\ f[l] \in Nat /\ key[f[l]] \in Nat
    BY DEF Keyed
  <2>. QED
    BY <2>2, <2>3 DEF Precedes
<1>2. n = Cardinality(S)
  <2>1. f \in Bijection(1..n, S)
    BY <1>1 DEF Bijection, Injection, Surjection, IsInjective
  <2>. QED
    BY <2>1, FS_CountingElements DEF ExistsBijection
<1>3. ASSUME NEW k \in 1..n PROVE Cardinality(UpTo(S, key, f[k])) = k
  <2> DEFINE U == UpTo(S, key, f[k])
             g == [l \in 1..k |-> f[l]]
  <2>1. ASSUME NEW l \in 1..n PROVE f[l] \in U <=> l <= k
    <3>1. l < k => Precedes(key, f[l], f[k])
      OBVIOUS
    <3>2. k < l => Precedes(key, f[k], f[l])
      OBVIOUS
    <3>3. /\ f[k] \in Nat /\ f[l] \in Nat /\ key[f[k]] \in Nat /\ key[f[l]] \in Nat
          /\ f[l] \in S
      BY DEF Keyed
    <3>4. CASE l < k
      BY <3>1, <3>3, <3>4 DEF UpTo, Precedes
    <3>5. CASE l = k
      BY <3>3, <3>5 DEF UpTo
    <3>6. CASE k < l
      BY <3>2, <3>3, <3>6 DEF UpTo, Precedes
    <3>. QED
      BY <3>4, <3>5, <3>6
  <2>2. U \subseteq S
    BY DEF UpTo
  <2> HIDE DEF U
  <2>3. g \in [1..k -> U] /\ \A l \in 1..k : g[l] = f[l]
    BY <2>1
  <2>4. \A x \in U : \E l \in 1..k : g[l] = x
    BY <2>1, <2>2
  <2>5. \A l, m \in 1..k : g[l] = g[m] => l = m
    BY <1>1, <2>3
  <2> HIDE DEF g
  <2>6. g \in Bijection(1..k, U)
    BY <2>3, <2>4, <2>5 DEF Bijection, Injection, Surjection, IsInjective
  <2>7. Cardinality(U) = k
    BY <2>6, FS_CountingElements DEF ExistsBijection
  <2>. QED
    BY <2>7 DEF U
<1>4. ASSUME NEW k \in 1..n, NEW i \in S, Cardinality(UpTo(S, key, i)) = k PROVE i = f[k]
  <2>1. PICK l \in 1..n : f[l] = i
    OBVIOUS
  <2>. QED
    BY <1>3, <1>4, <2>1
<1>5. ASSUME NEW k \in 1..n
      PROVE  f[k] = CHOOSE i \in S : Cardinality(UpTo(S, key, i)) = k
  BY <1>3, <1>4
<1>. QED
  BY <1>2, <1>5 DEF Ranked

-----------------------------------------------------------------------------
(* Filters.                                                                 *)

\* The positions of a filter rise.
LEMMA InOrderLists ==
  ASSUME NEW S \in SUBSET Nat, IsFiniteSet(S)
  PROVE  /\ Cardinality(S) \in Nat
         /\ InOrder(S) \in [1..Cardinality(S) -> S]
         /\ \A i \in S : \E k \in 1..Cardinality(S) : InOrder(S)[k] = i
         /\ \A k, l \in 1..Cardinality(S) : k < l => InOrder(S)[k] < InOrder(S)[l]
<1> DEFINE key == [i \in S |-> 0]
<1>1. Keyed(S, key)
  BY DEF Keyed
<1>2. \A i, j \in S : Precedes(key, i, j) <=> i < j
  BY DEF Precedes
<1>3. InOrder(S) = Ranked(S, key)
  BY DEF InOrder
<1> HIDE DEF key
<1>4. /\ Cardinality(S) \in Nat
      /\ InOrder(S) \in [1..Cardinality(S) -> S]
      /\ \A i \in S : \E k \in 1..Cardinality(S) : InOrder(S)[k] = i
      /\ \A k, l \in 1..Cardinality(S) :
            k < l => Precedes(key, InOrder(S)[k], InOrder(S)[l])
  BY <1>1, <1>3, RankedLists DEF Lists
<1>. QED
  BY <1>2, <1>4

LEMMA InOrderIsOnly ==
  ASSUME NEW S \in SUBSET Nat, IsFiniteSet(S), NEW n \in Nat, NEW f \in [1..n -> S],
         \A i \in S : \E k \in 1..n : f[k] = i,
         \A k, l \in 1..n : k < l => f[k] < f[l]
  PROVE  n = Cardinality(S) /\ f = InOrder(S)
<1> DEFINE key == [i \in S |-> 0]
<1>1. Keyed(S, key)
  BY DEF Keyed
<1>2. \A i, j \in S : Precedes(key, i, j) <=> i < j
  BY DEF Precedes
<1>3. InOrder(S) = Ranked(S, key)
  BY DEF InOrder
<1> HIDE DEF key
<1>4. Lists(f, n, S, key)
  BY <1>2 DEF Lists
<1>5. n = Cardinality(S) /\ f = Ranked(S, key)
  BY <1>1, <1>4, RankedIsOnly
<1>. QED
  BY <1>3, <1>5

\* The positions in a sequence are finitely many numbers.
LEMMA PositionsFinite ==
  ASSUME NEW T, NEW seq \in Seq(T), NEW S \in SUBSET DOMAIN seq
  PROVE  S \in SUBSET Nat /\ IsFiniteSet(S) /\ IsFiniteSet(DOMAIN seq)
         /\ DOMAIN seq = 1..Len(seq) /\ Len(seq) \in Nat
         /\ Cardinality(DOMAIN seq) = Len(seq)
<1> DEFINE n == Len(seq)
<1>1. n \in Nat /\ DOMAIN seq = 1..n
  OBVIOUS
<1> HIDE DEF n
<1>2. IsFiniteSet(1..n) /\ Cardinality(1..n) = IF 1 > n THEN 0 ELSE n - 1 + 1
  BY <1>1, FS_Interval
<1>3. Cardinality(1..n) = n
  BY <1>1, <1>2
<1>4. IsFiniteSet(S)
  BY <1>1, <1>2, FS_Subset
<1>. QED
  BY <1>1, <1>2, <1>3, <1>4 DEF n

\* A filter keeps the members it is told to, in their order, and no other.
THEOREM KeptMembers ==
  ASSUME NEW T, NEW seq \in Seq(T), NEW S \in SUBSET DOMAIN seq
  PROVE  /\ Kept(seq, S) \in Seq(T)
         /\ \A k \in DOMAIN Kept(seq, S) : \E i \in S : Kept(seq, S)[k] = seq[i]
         /\ \A i \in S : \E k \in DOMAIN Kept(seq, S) : Kept(seq, S)[k] = seq[i]
         /\ Kept(seq, S) = <<>> <=> S = {}
<1> DEFINE n == Cardinality(S)
           order == InOrder(S)
           kept == Kept(seq, S)
<1>1. S \in SUBSET Nat /\ IsFiniteSet(S)
  BY PositionsFinite
<1>2. /\ n \in Nat /\ order \in [1..n -> S]
      /\ \A i \in S : \E k \in 1..n : order[k] = i
  BY <1>1, InOrderLists
<1>3. kept = [k \in DOMAIN order |-> seq[order[k]]]
  BY DEF Kept
<1>4. \A i \in S : seq[i] \in T
  OBVIOUS
<1> HIDE DEF n, order, kept
<1>5. DOMAIN kept = 1..n /\ \A k \in 1..n : kept[k] = seq[order[k]] /\ kept[k] \in T
  BY <1>2, <1>3, <1>4
<1>6. kept \in [1..n -> T]
  BY <1>2, <1>3, <1>5
<1>7. kept \in Seq(T) /\ Len(kept) = n
  BY <1>2, <1>6
<1>8. kept = <<>> <=> S = {}
  BY <1>2, <1>7
<1>9. \A k \in DOMAIN kept : \E i \in S : kept[k] = seq[i]
  BY <1>2, <1>5
<1>10. \A i \in S : \E k \in DOMAIN kept : kept[k] = seq[i]
  BY <1>2, <1>5
<1>. QED
  BY <1>7, <1>8, <1>9, <1>10 DEF kept

\* A later position comes last.
LEMMA InOrderGrows ==
  ASSUME NEW S \in SUBSET Nat, IsFiniteSet(S), NEW n \in Nat, \A i \in S : i < n
  PROVE  InOrder(S \cup {n}) = Append(InOrder(S), n)
<1> DEFINE m == Cardinality(S)
           old == InOrder(S)
           new == Append(old, n)
           R == S \cup {n}
<1>1. /\ m \in Nat /\ old \in [1..m -> S]
      /\ \A i \in S : \E k \in 1..m : old[k] = i
      /\ \A k, l \in 1..m : k < l => old[k] < old[l]
  BY InOrderLists
<1>2. R \in SUBSET Nat /\ IsFiniteSet(R)
  BY FS_AddElement
<1> HIDE DEF m, old
<1>3. old \in Seq(R) /\ Len(old) = m
  BY <1>1
<1>4. /\ new = [k \in 1..(m + 1) |-> new[k]]
      /\ new[m + 1] = n /\ \A k \in 1..m : new[k] = old[k]
  <2>1. n \in R
    OBVIOUS
  <2>2. new \in Seq(R) /\ Len(new) = m + 1
    BY <1>3, <2>1, AppendProperties
  <2>3. new[m + 1] = n /\ \A k \in 1..m : new[k] = old[k]
    BY <1>3, <2>1, AppendProperties
  <2> HIDE DEF new, R
  <2>4. new = [k \in 1..(m + 1) |-> new[k]]
    BY <2>2
  <2>. QED
    BY <2>3, <2>4
<1> HIDE DEF new
<1>5. /\ \A k \in 1..(m + 1) : k \in 1..m \/ k = m + 1
      /\ \A k \in 1..m : k \in 1..(m + 1)
      /\ m + 1 \in 1..(m + 1) /\ m + 1 \in Nat
  BY <1>1
<1>6. new \in [1..(m + 1) -> R]
  <2>1. \A k \in 1..(m + 1) : new[k] \in R
    BY <1>1, <1>4, <1>5
  <2>. QED
    BY <1>4, <2>1
<1>7. ASSUME NEW i \in R PROVE \E k \in 1..(m + 1) : new[k] = i
  <2>1. CASE i \in S
    BY <1>1, <1>4, <1>5, <2>1
  <2>2. CASE i = n
    BY <1>4, <1>5, <2>2
  <2>. QED
    BY <2>1, <2>2
<1>8. ASSUME NEW k \in 1..(m + 1), NEW l \in 1..(m + 1), k < l PROVE new[k] < new[l]
  <2>0. k \in 1..m
    BY <1>1, <1>8
  <2>1. k \in 1..m /\ new[k] = old[k] /\ old[k] \in S
    BY <1>1, <1>4, <2>0
  <2>2. CASE l \in 1..m
    <3>1. old[k] < old[l] /\ new[l] = old[l]
      BY <1>1, <1>4, <1>8, <2>1, <2>2
    <3>. QED
      BY <2>1, <3>1
  <2>3. CASE l = m + 1
    <3>1. old[k] < n /\ new[l] = n
      BY <1>4, <2>1, <2>3
    <3>. QED
      BY <2>1, <3>1
  <2>. QED
    BY <1>5, <2>2, <2>3
<1> HIDE DEF R
<1>9. new = InOrder(R)
  BY <1>2, <1>5, <1>6, <1>7, <1>8, InOrderIsOnly
<1>. QED
  BY <1>9 DEF new, old, R

\* The positions of the members of seq that belong to G.
PlacesOf(seq, G) == InOrder({i \in DOMAIN seq : seq[i] \in G})

\* Appending a member that a filter keeps appends its position, and appending
\* another one changes nothing.
LEMMA PlacesGrow ==
  ASSUME NEW T, NEW seq \in Seq(T), NEW e \in T, NEW G
  PROVE  /\ PlacesOf(Append(seq, e), G) = IF e \in G
                                          THEN Append(PlacesOf(seq, G), Len(seq) + 1)
                                          ELSE PlacesOf(seq, G)
         /\ PlacesOf(seq, G) \in Seq(Nat)
         /\ \A k \in DOMAIN PlacesOf(seq, G) : PlacesOf(seq, G)[k] \in DOMAIN seq
<1> DEFINE more == Append(seq, e)
           S == {i \in DOMAIN seq : seq[i] \in G}
           R == {i \in DOMAIN more : more[i] \in G}
           n == Len(seq) + 1
<1>1. /\ Len(more) = n /\ more[n] = e /\ n \in Nat /\ Len(seq) \in Nat
      /\ \A i \in 1..Len(seq) : more[i] = seq[i]
      /\ DOMAIN seq = 1..Len(seq) /\ DOMAIN more = 1..n
  <2>1. /\ more \in Seq(T) /\ Len(more) = n /\ more[n] = e /\ Len(seq) \in Nat
        /\ \A i \in 1..Len(seq) : more[i] = seq[i]
    BY AppendProperties
  <2> HIDE DEF more
  <2>. QED
    BY <2>1
<1>2. S \in SUBSET Nat /\ IsFiniteSet(S) /\ S \in SUBSET DOMAIN seq
  <2>1. S \in SUBSET DOMAIN seq
    OBVIOUS
  <2> HIDE DEF S
  <2>. QED
    BY <2>1, PositionsFinite
<1> HIDE DEF more
<1>3. R = IF e \in G THEN S \cup {n} ELSE S
  <2>1. \A i : i \in R <=> (i \in S \/ (i = n /\ e \in G))
    BY <1>1
  <2>. QED
    BY <2>1
<1>4. \A i \in S : i < n
  BY <1>1, <1>2
<1>5. /\ Cardinality(S) \in Nat /\ InOrder(S) \in [1..Cardinality(S) -> S]
  BY <1>2, InOrderLists
<1> HIDE DEF S, R
<1>6. /\ InOrder(S) \in Seq(Nat)
      /\ \A k \in DOMAIN InOrder(S) : InOrder(S)[k] \in DOMAIN seq
  <2>1. InOrder(S) \in [1..Cardinality(S) -> Nat]
    BY <1>2, <1>5
  <2>2. InOrder(S) \in Seq(Nat)
    BY <1>5, <2>1, SeqDef
  <2>. QED
    BY <1>2, <1>5, <2>2
<1>7. InOrder(R) = IF e \in G THEN Append(InOrder(S), n) ELSE InOrder(S)
  <2>1. CASE e \in G
    <3>1. InOrder(S \cup {n}) = Append(InOrder(S), n)
      BY <1>1, <1>2, <1>4, InOrderGrows
    <3>. QED
      BY <1>3, <2>1, <3>1
  <2>2. CASE e \notin G
    BY <1>3, <2>2
  <2>. QED
    BY <2>1, <2>2
<1>. QED
  BY <1>6, <1>7 DEF PlacesOf, more, S, R, n

-----------------------------------------------------------------------------
(* Sorting.                                                                 *)

\* A sorted sequence has the members of the sequence, each as often, by key,
\* and those of one key in their order: at says where each comes from.
THEOREM StableSortSorts ==
  ASSUME NEW T, NEW seq \in Seq(T), NEW key, \A i \in DOMAIN seq : key[i] \in Nat
  PROVE  /\ StableSort(seq, key) \in Seq(T)
         /\ Len(StableSort(seq, key)) = Len(seq)
         /\ \E at : /\ Lists(at, Len(seq), DOMAIN seq, key)
                    /\ \A k \in DOMAIN seq : StableSort(seq, key)[k] = seq[at[k]]
<1> DEFINE n == Len(seq)
           at == Ranked(DOMAIN seq, key)
           sorted == StableSort(seq, key)
<1>1. /\ n \in Nat /\ DOMAIN seq = 1..n /\ DOMAIN seq \in SUBSET Nat
      /\ IsFiniteSet(DOMAIN seq) /\ Cardinality(DOMAIN seq) = n
  BY PositionsFinite
<1>2. Keyed(DOMAIN seq, key)
  BY <1>1 DEF Keyed
<1>3. Lists(at, n, DOMAIN seq, key)
  BY <1>1, <1>2, RankedLists
<1>4. sorted = [k \in 1..n |-> seq[at[k]]]
  BY <1>1 DEF StableSort
<1>5. \A i \in 1..n : seq[i] \in T
  OBVIOUS
<1> HIDE DEF n, at, sorted
<1>6. sorted \in [1..n -> T]
  BY <1>1, <1>3, <1>4, <1>5 DEF Lists
<1>7. sorted \in Seq(T) /\ Len(sorted) = n
  BY <1>1, <1>6
<1>8. \A k \in DOMAIN seq : sorted[k] = seq[at[k]]
  BY <1>1, <1>4
<1>. QED
  BY <1>3, <1>7, <1>8 DEF n, sorted

=============================================================================
