-------------------------- MODULE TokenAccess_proofs --------------------------
(***************************************************************************)
(* Proofs about TokenAccess, for any finite set of requests and any        *)
(* tokens, limits and whitelists.                                          *)
(***************************************************************************)
EXTENDS TokenAccess, FiniteSetTheorems, TLAPS

\* A request that is past Authenticate carries the token it was given.
CarriesToken == \A r \in Requests : pc[r] # "idle" => tok[r] \in Tokens

-----------------------------------------------------------------------------
(* Facts about the holders of a token.                                     *)

LEMMA HoldersFinite ==
  ASSUME NEW t
  PROVE  /\ IsFiniteSet(Holders(t))
         /\ Cardinality(Holders(t)) \in Nat
<1>1. Holders(t) \subseteq Requests
  BY DEF Holders
<1>2. IsFiniteSet(Holders(t))
  BY <1>1, ConstantsAssumption, FS_Subset DEF ConstantsAssumption
<1>. QED
  BY <1>2, FS_CardinalityType

\* Steps that neither enter nor leave the holding section, and do not
\* change the token of a request inside it, keep every holder set.
LEMMA HoldersKept ==
  ASSUME \A r \in Requests :
            /\ pc[r] \in Holding <=> pc'[r] \in Holding
            /\ pc[r] \in Holding => tok'[r] = tok[r]
  PROVE  \A t \in Tokens : Holders(t)' = Holders(t)
BY DEF Holders

\* Types and carried tokens are preserved together: the counter of Acquire
\* and Release is only well typed because the request carries a token.
LEMMA TypedAndCarried == Spec => [](TypeOK /\ CarriesToken)
<1>1. Init => TypeOK /\ CarriesToken
  BY DEF Init, TypeOK, RowState, Step, CarriesToken
<1>2. TypeOK /\ CarriesToken /\ [Next]_vars => (TypeOK /\ CarriesToken)'
  <2> SUFFICES ASSUME TypeOK, CarriesToken, [Next]_vars
               PROVE  TypeOK' /\ CarriesToken'
    OBVIOUS
  <2> USE DEF TypeOK, CarriesToken, RowState, Step
  <2>1. ASSUME NEW r \in Requests, Arrival(r)
        PROVE  TypeOK' /\ CarriesToken'
    BY <2>1 DEF Arrival, Authenticate
  <2>2. ASSUME NEW r \in Requests, HandlerStep(r)
        PROVE  TypeOK' /\ CarriesToken'
    <3>0. pc[r] # "idle" => tok[r] \in Tokens /\ inUse[tok[r]] \in Nat
      OBVIOUS
    <3>1. CASE Acquire(r)
      <4>1. inUse' \in [Tokens -> Nat]
        BY <3>0, <3>1 DEF Acquire
      <4>. QED
        BY <3>0, <3>1, <4>1 DEF Acquire
    <3>2. CASE RefuseSlot(r)
      BY <3>2 DEF RefuseSlot
    <3>3. ASSUME NEW m \in Models, AdmitModel(r, m) \/ RefuseModel(r, m)
          PROVE  TypeOK' /\ CarriesToken'
      BY <3>3 DEF AdmitModel, RefuseModel
    <3>4. CASE HandlerReturns(r)
      BY <3>4 DEF HandlerReturns
    <3>5. CASE Release(r)
      <4>1. inUse' \in [Tokens -> Nat]
        BY <3>0, <3>5 DEF Release
      <4>. QED
        BY <3>0, <3>5, <4>1 DEF Release
    <3>. QED
      BY <2>2, <3>1, <3>2, <3>3, <3>4, <3>5 DEF HandlerStep, DoorStep
  <2>3. CASE Admin
    BY <2>3 DEF Admin, CreateToken, SetTokenEnabled, DeleteToken, Expire
  <2>4. CASE Restart
    BY <2>4 DEF Restart
  <2>5. CASE UNCHANGED vars
    BY <2>5 DEF vars
  <2>. QED
    BY <2>1, <2>2, <2>3, <2>4, <2>5 DEF Next
<1>. QED
  BY <1>1, <1>2, PTL DEF Spec

\* Type correctness of the door, for every instance.
THEOREM TypeCorrect == Spec => []TypeOK
<1>. QED
  BY TypedAndCarried, PTL

-----------------------------------------------------------------------------
(* How each step changes the holders of a token.                           *)

\* The state the steps below start from.
Sound == TypeOK /\ CarriesToken

LEMMA AcquireHolders ==
  ASSUME Sound, NEW r \in Requests, Acquire(r),
         NEW a, a = tok[r]
  PROVE  /\ a \in Tokens
         /\ r \notin Holders(a)
         /\ Holders(a)' = Holders(a) \cup {r}
         /\ \A t \in Tokens \ {a} : Holders(t)' = Holders(t)
<1> USE DEF Sound, TypeOK, CarriesToken, Acquire, Holding
<1>1. a \in Tokens /\ tok' = tok /\ pc' = [pc EXCEPT ![r] = "admitted"]
  OBVIOUS
<1>2. r \notin Holders(a)
  BY DEF Holders
<1>3. Holders(a)' = Holders(a) \cup {r}
  BY <1>1 DEF Holders
<1>4. \A t \in Tokens \ {a} : Holders(t)' = Holders(t)
  BY <1>1 DEF Holders
<1>. QED
  BY <1>1, <1>2, <1>3, <1>4

LEMMA ReleaseHolders ==
  ASSUME Sound, NEW r \in Requests, Release(r),
         NEW a, a = tok[r]
  PROVE  /\ a \in Tokens
         /\ r \in Holders(a)
         /\ Holders(a)' = Holders(a) \ {r}
         /\ \A t \in Tokens \ {a} : Holders(t)' = Holders(t)
<1> USE DEF Sound, TypeOK, CarriesToken, Release, Holding
<1>1. /\ a \in Tokens
      /\ tok' = [tok EXCEPT ![r] = NoToken]
      /\ pc' = [pc EXCEPT ![r] = "idle"]
  OBVIOUS
<1>2. r \in Holders(a)
  BY DEF Holders
<1>3. Holders(a)' = Holders(a) \ {r}
  BY <1>1 DEF Holders
<1>4. \A t \in Tokens \ {a} : Holders(t)' = Holders(t)
  BY <1>1 DEF Holders
<1>. QED
  BY <1>1, <1>2, <1>3, <1>4

\* Every other step of a request or an administrator keeps counter and
\* holders alike.
LEMMA OtherStepsKeep ==
  ASSUME Sound,
         \/ \E r \in Requests :
              \/ Arrival(r)
              \/ RefuseSlot(r)
              \/ \E m \in Models : AdmitModel(r, m) \/ RefuseModel(r, m)
              \/ HandlerReturns(r)
         \/ Admin
         \/ UNCHANGED vars
  PROVE  inUse' = inUse /\ \A t \in Tokens : Holders(t)' = Holders(t)
<1> USE DEF Sound, TypeOK, CarriesToken, Holding, Step
<1>1. ASSUME NEW r \in Requests, Arrival(r) \/ RefuseSlot(r)
      PROVE  inUse' = inUse /\ \A t \in Tokens : Holders(t)' = Holders(t)
  BY <1>1, HoldersKept DEF Arrival, Authenticate, RefuseSlot
<1>2. ASSUME NEW r \in Requests,
             \/ \E m \in Models : AdmitModel(r, m) \/ RefuseModel(r, m)
             \/ HandlerReturns(r)
      PROVE  inUse' = inUse /\ \A t \in Tokens : Holders(t)' = Holders(t)
  BY <1>2, HoldersKept DEF AdmitModel, RefuseModel, HandlerReturns
<1>3. CASE Admin
  BY <1>3, HoldersKept
     DEF Admin, CreateToken, SetTokenEnabled, DeleteToken, Expire
<1>4. CASE UNCHANGED vars
  BY <1>4, HoldersKept DEF vars
<1>. QED
  BY <1>1, <1>2, <1>3, <1>4

-----------------------------------------------------------------------------
(* The two safety theorems.                                                *)

\* One step keeps the accounting and the cap.  The cap alone is not
\* inductive: Acquire tests the counter, not the set of holders.
LEMMA SlotsInductive ==
  ASSUME Sound, SlotAccounting, ConcurrencyCap, [Next]_vars
  PROVE  SlotAccounting' /\ ConcurrencyCap'
<1>0. \A t \in Tokens : /\ Limit[t] \in Nat
                        /\ inUse[t] = Cardinality(Holders(t))
                        /\ Cardinality(Holders(t)) \in Nat
                        /\ Limit[t] > 0 => Cardinality(Holders(t)) <= Limit[t]
  BY HoldersFinite, ConstantsAssumption
     DEF ConstantsAssumption, SlotAccounting, ConcurrencyCap
<1>1. ASSUME NEW r \in Requests, Acquire(r)
      PROVE  SlotAccounting' /\ ConcurrencyCap'
  <2>. PICK a : a = tok[r]
    OBVIOUS
  <2>0. /\ a \in Tokens
        /\ r \notin Holders(a)
        /\ Holders(a)' = Holders(a) \cup {r}
        /\ \A t \in Tokens \ {a} : Holders(t)' = Holders(t)
    BY <1>1, AcquireHolders
  <2>1. Cardinality(Holders(a)') = Cardinality(Holders(a)) + 1
    BY <2>0, HoldersFinite, FS_AddElement
  <2>2. /\ inUse' = [inUse EXCEPT ![a] = inUse[a] + 1]
        /\ ~(Limit[a] > 0 /\ inUse[a] >= Limit[a])
    BY <1>1 DEF Acquire
  <2>4. inUse \in [Tokens -> Nat]
    BY DEF Sound, TypeOK
  <2>5. /\ inUse'[a] = inUse[a] + 1
        /\ \A t \in Tokens \ {a} : inUse'[t] = inUse[t]
    BY <2>0, <2>2, <2>4
  <2>3. \A t \in Tokens : /\ inUse'[t] = Cardinality(Holders(t)')
                          /\ Limit[t] > 0 => Cardinality(Holders(t)') <= Limit[t]
    <3>1. /\ inUse'[a] = Cardinality(Holders(a)')
          /\ Limit[a] > 0 => Cardinality(Holders(a)') <= Limit[a]
      BY <1>0, <2>0, <2>1, <2>2, <2>5
    <3>2. \A t \in Tokens \ {a} :
             /\ inUse'[t] = Cardinality(Holders(t)')
             /\ Limit[t] > 0 => Cardinality(Holders(t)') <= Limit[t]
      BY <1>0, <2>0, <2>5
    <3>. QED
      BY <3>1, <3>2
  <2>. QED
    BY <2>3 DEF SlotAccounting, ConcurrencyCap
<1>2. ASSUME NEW r \in Requests, Release(r)
      PROVE  SlotAccounting' /\ ConcurrencyCap'
  <2>. PICK a : a = tok[r]
    OBVIOUS
  <2>0. /\ a \in Tokens
        /\ r \in Holders(a)
        /\ Holders(a)' = Holders(a) \ {r}
        /\ \A t \in Tokens \ {a} : Holders(t)' = Holders(t)
    BY <1>2, ReleaseHolders
  <2> DEFINE H == Holders(a)
  <2>7. IsFiniteSet(H) /\ r \in H
    BY <2>0, HoldersFinite
  <2> HIDE DEF H
  <2>8. Cardinality(H \ {r}) = Cardinality(H) - 1 /\ Cardinality(H) # 0
    BY <2>7, FS_RemoveElement, FS_EmptySet
  <2>1. Cardinality(Holders(a)') = Cardinality(Holders(a)) - 1
    BY <2>0, <2>8 DEF H
  <2>2. Cardinality(Holders(a)) # 0
    BY <2>8 DEF H
  <2>5. inUse' = [inUse EXCEPT ![a] = IF inUse[a] > 0 THEN inUse[a] - 1
                                                      ELSE inUse[a]]
    BY <1>2 DEF Release
  <2>6. inUse \in [Tokens -> Nat]
    BY DEF Sound, TypeOK
  <2>3. /\ inUse'[a] = inUse[a] - 1
        /\ \A t \in Tokens \ {a} : inUse'[t] = inUse[t]
    BY <1>0, <2>0, <2>2, <2>5, <2>6
  <2>4. \A t \in Tokens : /\ inUse'[t] = Cardinality(Holders(t)')
                          /\ Limit[t] > 0 => Cardinality(Holders(t)') <= Limit[t]
    <3>1. /\ inUse'[a] = Cardinality(Holders(a)')
          /\ Limit[a] > 0 => Cardinality(Holders(a)') <= Limit[a]
      BY <1>0, <2>0, <2>1, <2>2, <2>3
    <3>2. \A t \in Tokens \ {a} :
             /\ inUse'[t] = Cardinality(Holders(t)')
             /\ Limit[t] > 0 => Cardinality(Holders(t)') <= Limit[t]
      BY <1>0, <2>0, <2>3
    <3>. QED
      BY <3>1, <3>2
  <2>. QED
    BY <2>4 DEF SlotAccounting, ConcurrencyCap
<1>3. CASE Restart
  <2>1. \A t \in Tokens : Holders(t)' = {} /\ inUse'[t] = 0
    BY <1>3 DEF Restart, Holders, Holding
  <2>2. \A t \in Tokens : Cardinality(Holders(t)') = 0
    BY <2>1, FS_EmptySet
  <2>. QED
    BY <1>0, <2>1, <2>2 DEF SlotAccounting, ConcurrencyCap
<1>4. ASSUME inUse' = inUse, \A t \in Tokens : Holders(t)' = Holders(t)
      PROVE  SlotAccounting' /\ ConcurrencyCap'
  BY <1>0, <1>4 DEF SlotAccounting, ConcurrencyCap
<1>. QED
  BY <1>1, <1>2, <1>3, <1>4, OtherStepsKeep DEF Next, HandlerStep, DoorStep

LEMMA SlotsHold == Spec => [](SlotAccounting /\ ConcurrencyCap)
<1>1. Init => SlotAccounting /\ ConcurrencyCap
  <2> SUFFICES ASSUME Init
               PROVE  SlotAccounting /\ ConcurrencyCap
    OBVIOUS
  <2>1. \A t \in Tokens : Holders(t) = {} /\ inUse[t] = 0
    BY DEF Init, Holders, Holding
  <2>2. \A t \in Tokens : Cardinality(Holders(t)) = 0
    BY <2>1, FS_EmptySet
  <2>3. \A t \in Tokens : Limit[t] \in Nat
    BY ConstantsAssumption DEF ConstantsAssumption
  <2>. QED
    BY <2>1, <2>2, <2>3 DEF SlotAccounting, ConcurrencyCap
<1>2. /\ TypeOK /\ CarriesToken
      /\ SlotAccounting /\ ConcurrencyCap
      /\ [Next]_vars
      => (SlotAccounting /\ ConcurrencyCap)'
  BY SlotsInductive DEF Sound
<1>. QED
  BY <1>1, <1>2, TypedAndCarried, PTL DEF Spec

\* access.Service.inUse equals the number of requests holding a slot of the
\* token, for any number of requests, tokens and limits: no path leaks.
THEOREM SlotAccountingHolds == Spec => []SlotAccounting
<1>. QED
  BY SlotsHold, PTL

\* A token's max_concurrency is never exceeded, for any instance.
THEOREM ConcurrencyCapHolds == Spec => []ConcurrencyCap
<1>. QED
  BY SlotsHold, PTL
=============================================================================
