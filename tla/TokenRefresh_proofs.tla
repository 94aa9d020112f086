-------------------------- MODULE TokenRefresh_proofs --------------------------
(***************************************************************************)
(* One refresh at a time, and no refresh token presented twice, for any    *)
(* requests.                                                               *)
(*                                                                         *)
(* OneRefreshAtATime is not inductive, as nothing in it stops a second     *)
(* request from leading.  The invariant names the flight: whoever leads is *)
(* the one that inflight holds.  That a replaced token is not presented    *)
(* again rests on it (Clean): nobody else exchanges the entry meanwhile.   *)
(***************************************************************************)
EXTENDS TokenRefresh, TLAPS

LeaderInFlight == \A r \in Requests : Leading(r) => inflight = r

\* The one part of the type invariant that the argument needs.
PositionsTyped == pc \in [Requests -> Step]

\* A step of r that keeps it leading, or lets it lead no more, keeps the
\* invariant: nobody else moves.
LEMMA OneMoves ==
  ASSUME PositionsTyped, LeaderInFlight,
         NEW r \in Requests, NEW step \in Step, Goto(r, step), UNCHANGED inflight,
         Leading(r) \/ step \in {"asking", "waiting", "using"}
  PROVE  PositionsTyped' /\ LeaderInFlight'
BY DEF PositionsTyped, LeaderInFlight, Leading, Goto, Step

\* Requests whose handler returns lead no more.
LEMMA ManyReturn ==
  ASSUME PositionsTyped, LeaderInFlight, NEW S, Return(S),
         UNCHANGED inflight \/ \A r \in Requests : Leading(r) => r \in S
  PROVE  PositionsTyped' /\ LeaderInFlight'
BY DEF PositionsTyped, LeaderInFlight, Leading, Return, Step

\* inflight, tested and set under one lock, names the one that refreshes.
LEMMA LeaderHolds == Spec => []LeaderInFlight
<1>1. Init => PositionsTyped /\ LeaderInFlight
  BY DEF Init, PositionsTyped, LeaderInFlight, Leading, Step
<1>2. PositionsTyped /\ LeaderInFlight /\ [Next]_vars => (PositionsTyped /\ LeaderInFlight)'
  <2> SUFFICES ASSUME PositionsTyped, LeaderInFlight, [Next]_vars
               PROVE  PositionsTyped' /\ LeaderInFlight'
    OBVIOUS
  <2> USE DEF Step
  <2>1. ASSUME NEW r \in Requests, ReadAccount(r) PROVE PositionsTyped' /\ LeaderInFlight'
    BY <2>1, OneMoves DEF ReadAccount, flight
  <2>2. ASSUME NEW r \in Requests, Lead(r) PROVE PositionsTyped' /\ LeaderInFlight'
    <3>1. \A q \in Requests : ~Leading(q)
      BY <2>2, NobodyAssumption DEF Lead, LeaderInFlight
    <3> QED BY <2>2, <3>1 DEF Lead, PositionsTyped, LeaderInFlight, Leading, Goto
  <2>3. ASSUME NEW r \in Requests, Wait(r) PROVE PositionsTyped' /\ LeaderInFlight'
    BY <2>3, OneMoves DEF Wait
  <2>4. ASSUME NEW r \in Requests, Leading(r), NEW kind, NEW slot, Conclude(r, kind, slot)
        PROVE  PositionsTyped' /\ LeaderInFlight'
    BY <2>4, OneMoves DEF Conclude
  <2>5. ASSUME NEW r \in Requests, Load(r) PROVE PositionsTyped' /\ LeaderInFlight'
    <3>1. Leading(r)
      BY <2>5 DEF Load, Leading
    <3>2. CASE Goto(r, "posting") /\ UNCHANGED flight
      BY <3>1, <3>2, OneMoves DEF flight
    <3> QED BY <2>4, <2>5, <3>1, <3>2 DEF Load
  <2>6. ASSUME NEW r \in Requests, Post(r) PROVE PositionsTyped' /\ LeaderInFlight'
    <3>1. Leading(r)
      BY <2>6 DEF Post, Leading
    <3>2. CASE Goto(r, "storing") /\ UNCHANGED flight
      BY <3>1, <3>2, OneMoves DEF flight
    <3> QED BY <2>4, <2>6, <3>1, <3>2 DEF Post
  <2>7. ASSUME NEW r \in Requests, Store(r) PROVE PositionsTyped' /\ LeaderInFlight'
    <3>1. Leading(r)
      BY <2>7 DEF Store, Leading
    <3>2. CASE Goto(r, "deleting") /\ UNCHANGED flight
      BY <3>1, <3>2, OneMoves DEF flight
    <3> QED BY <2>4, <2>7, <3>1, <3>2 DEF Store
  <2>8. ASSUME NEW r \in Requests, DeleteOld(r) PROVE PositionsTyped' /\ LeaderInFlight'
    BY <2>4, <2>8 DEF DeleteOld, Leading
  <2>9. ASSUME NEW r \in Requests, Release(r) PROVE PositionsTyped' /\ LeaderInFlight'
    <3>1. \A q \in Requests : Leading(q) => q = r
      BY <2>9 DEF Release, Leading, LeaderInFlight
    <3> QED BY <2>9, <3>1 DEF Release, PositionsTyped, LeaderInFlight, Leading, Goto
  <2>10. ASSUME NEW r \in Requests, Resume(r) PROVE PositionsTyped' /\ LeaderInFlight'
    BY <2>10, OneMoves DEF Resume, flight
  <2>11. ASSUME NEW r \in Requests, UseResult(r) PROVE PositionsTyped' /\ LeaderInFlight'
    BY <2>11, ManyReturn DEF UseResult
  <2>12. ASSUME Restart PROVE PositionsTyped' /\ LeaderInFlight'
    BY <2>12, ManyReturn DEF Restart, Leading
  <2>13. ASSUME UNCHANGED <<pc, inflight>> PROVE PositionsTyped' /\ LeaderInFlight'
    BY <2>13 DEF PositionsTyped, LeaderInFlight, Leading
  <2>14. ASSUME NEW s, Expire(s) PROVE UNCHANGED <<pc, inflight>>
    BY <2>14 DEF Expire, flight
  <2>15. ASSUME RevokeReads \/ RevokeDeletes \/ RevokeMarks PROVE UNCHANGED <<pc, inflight>>
    BY <2>15 DEF RevokeReads, RevokeDeletes, RevokeMarks, flight
  <2>16. ASSUME UNCHANGED vars PROVE UNCHANGED <<pc, inflight>>
    BY <2>16 DEF vars, flight
  <2> QED
    BY <2>1, <2>2, <2>3, <2>5, <2>6, <2>7, <2>8, <2>9, <2>10, <2>11, <2>12, <2>13,
       <2>14, <2>15, <2>16
    DEF Next, RequestStep
<1> QED BY <1>1, <1>2, PTL DEF Spec

\* However many requests find the tokens of an account due, at most one of them
\* is in refreshOnce.
THEOREM OneRefreshAtATimeHolds == Spec => []OneRefreshAtATime
<1>1. LeaderInFlight => OneRefreshAtATime
  BY DEF LeaderInFlight, OneRefreshAtATime
<1> QED BY <1>1, LeaderHolds, PTL

-----------------------------------------------------------------------------
(* Types.                                                                   *)

\* Who has asked for the tokens shares the result of somebody.
Called == \A r \in Requests : pc[r] \notin {"new", "asking", "done"} => call[r] \in Requests

LEMMA TypeStep ==
  ASSUME TypeOK, Called, [Next]_vars
  PROVE  TypeOK' /\ Called'
<1> USE DEF TypeOK, Called, Step, Goto
<1>1. ASSUME NEW r \in Requests, ReadAccount(r) PROVE TypeOK' /\ Called'
  BY <1>1 DEF ReadAccount, account, platform, flight, history, admin
<1>2. ASSUME NEW r \in Requests, Lead(r) \/ Wait(r) PROVE TypeOK' /\ Called'
  <2>1. CASE Lead(r)
    BY <2>1 DEF Lead, account, platform, local, history, admin
  <2>2. CASE Wait(r)
    BY <2>2 DEF Wait, account, platform, local, history, admin
  <2>. QED BY <1>2, <2>1, <2>2
<1>3. ASSUME NEW r \in Requests, NEW kind \in {"failed", "rejected", "kept", "renewed"},
             NEW slot \in Nat, Conclude(r, kind, slot),
             pc[r] \in {"loading", "posting", "storing", "deleting"}
      PROVE  /\ inflight' \in Requests \cup {Nobody} /\ pc' \in [Requests -> Step]
             /\ call' \in [Requests -> Requests \cup {Nobody}]
             /\ result' \in [Requests -> Result] /\ Called'
  <2>1. [kind |-> kind, slot |-> slot] \in Result
    BY DEF Result
  <2>. QED
    BY <1>3, <2>1 DEF Conclude
<1>4. \A r \in Requests : ref[r].slot \in Nat /\ ref[r].slot + 1 \in Nat
  BY DEF Row
<1>5. ASSUME NEW r \in Requests, Load(r) PROVE TypeOK' /\ Called'
  <2>1. /\ pc[r] = "loading"
        /\ UNCHANGED <<row, authState, vault, due, current, ref, presented, replayed,
                       revoking, revoked, faults>>
    BY <1>5 DEF Load, account, platform, history, admin
  <2>2. ASSUME NEW kind \in {"failed", "kept"}, Conclude(r, kind, ref[r].slot), UNCHANGED token
        PROVE  TypeOK' /\ Called'
    <3>1. /\ inflight' \in Requests \cup {Nobody} /\ pc' \in [Requests -> Step]
          /\ call' \in [Requests -> Requests \cup {Nobody}]
          /\ result' \in [Requests -> Result] /\ Called'
      BY <1>3, <1>4, <2>1, <2>2
    <3>. QED
      BY <2>1, <2>2, <3>1
  <2>3. CASE /\ ref[r].slot \in DOMAIN vault
             /\ token' = [token EXCEPT ![r] = vault[ref[r].slot]]
             /\ Goto(r, "posting") /\ UNCHANGED flight
    <3>1. token' \in [Requests -> 0..current]
      BY <2>3
    <3>. QED
      BY <2>1, <2>3, <3>1 DEF flight
  <2>. QED
    BY <1>5, <2>2, <2>3 DEF Load
<1>6. ASSUME NEW r \in Requests, Post(r) PROVE TypeOK' /\ Called'
  <2>1. CASE Conclude(r, "failed", ref[r].slot)
             /\ UNCHANGED <<platform, token, history, faults>>
    BY <1>3, <1>4, <1>6, <2>1 DEF Post, account, platform, history, admin
  <2>2. CASE /\ replayed' = replayed \cup (presented \cap {token[r]})
             /\ Conclude(r, "rejected", ref[r].slot)
             /\ UNCHANGED <<platform, token, presented, faults>>
    BY <1>3, <1>4, <1>6, <2>2 DEF Post, account, platform, admin
  <2>3. CASE /\ presented' = presented \cup {current} /\ current' = current + 1
             /\ \/ /\ token' = [token EXCEPT ![r] = current + 1]
                   /\ Goto(r, "storing") /\ UNCHANGED <<flight, faults>>
                \/ /\ Conclude(r, "failed", ref[r].slot)
                   /\ faults' = TRUE /\ UNCHANGED token
             /\ UNCHANGED <<due, replayed>>
    <3>1. /\ current' \in Nat /\ 0..current \subseteq 0..current' /\ current + 1 \in 0..current'
          /\ current \in 0..current'
      BY <2>3
    <3>2. UNCHANGED <<row, authState, vault, ref, revoking, revoked>>
      BY <1>6 DEF Post, account, admin
    <3>3. CASE /\ token' = [token EXCEPT ![r] = current + 1]
               /\ Goto(r, "storing") /\ UNCHANGED <<flight, faults>>
      BY <1>6, <2>3, <3>1, <3>2, <3>3 DEF Post, flight
    <3>4. CASE /\ Conclude(r, "failed", ref[r].slot)
               /\ faults' = TRUE /\ UNCHANGED token
      <4>1. /\ inflight' \in Requests \cup {Nobody} /\ pc' \in [Requests -> Step]
            /\ call' \in [Requests -> Requests \cup {Nobody}]
            /\ result' \in [Requests -> Result] /\ Called'
        BY <1>3, <1>4, <1>6, <3>4 DEF Post
      <4>. QED
        BY <2>3, <3>1, <3>2, <3>4, <4>1
    <3>. QED
      BY <2>3, <3>3, <3>4
  <2>. QED
    BY <1>6, <2>1, <2>2, <2>3 DEF Post
<1>7. ASSUME NEW r \in Requests, Store(r) PROVE TypeOK' /\ Called'
  <2>1. UNCHANGED <<row, authState, due, current, ref, token, presented, replayed,
                    revoking, revoked>>
    BY <1>7 DEF Store, account, platform, local, history, admin
  <2>2. CASE /\ vault' = [x \in DOMAIN vault \cup {ref[r].slot + 1} |->
                            IF x = ref[r].slot + 1 THEN token[r] ELSE vault[x]]
             /\ Goto(r, "deleting") /\ UNCHANGED <<flight, faults>>
    BY <1>4, <1>7, <2>1, <2>2 DEF Store, flight
  <2>3. CASE Conclude(r, "failed", ref[r].slot) /\ faults' = TRUE /\ UNCHANGED vault
    BY <1>3, <1>4, <1>7, <2>1, <2>3 DEF Store
  <2>. QED
    BY <1>7, <2>2, <2>3 DEF Store
<1>8. ASSUME NEW r \in Requests, DeleteOld(r) PROVE TypeOK' /\ Called'
  BY <1>3, <1>4, <1>8 DEF DeleteOld, Restrict, account, platform, local, history, admin
<1>9. ASSUME NEW r \in Requests, Release(r) \/ Resume(r) PROVE TypeOK' /\ Called'
  BY <1>9 DEF Release, Resume, account, platform, flight, local, history, admin
<1>10. ASSUME NEW S \in SUBSET Requests, Return(S)
       PROVE  /\ pc' \in [Requests -> Step] /\ ref' \in [Requests -> Row]
              /\ call' \in [Requests -> Requests \cup {Nobody}]
              /\ token' \in [Requests -> 0..current] /\ Called'
  BY <1>10 DEF Return, FirstRow, Row
<1>11. ASSUME NEW r \in Requests, UseResult(r) PROVE TypeOK' /\ Called'
  <2>1. result[call[r]] \in Result
    BY <1>11 DEF UseResult
  <2>2. row' = row \/ \E b \in BOOLEAN : row' = [slot |-> result[call[r]].slot, printed |-> b]
    BY <1>11 DEF UseResult, account
  <2>3. row' \in Row
    BY <2>1, <2>2 DEF Result, Row
  <2>4. authState' \in {authState, "reauth_required"} /\ faults' \in {faults, TRUE}
    BY <1>11 DEF UseResult, account
  <2>. QED
    BY <1>10, <1>11, <2>3, <2>4 DEF UseResult, platform, history, admin
<1>12. ASSUME NEW s \in DOMAIN vault, Expire(s) PROVE TypeOK' /\ Called'
  BY <1>12 DEF Expire, account, flight, local, history, admin
<1>13. ASSUME RevokeReads \/ RevokeDeletes \/ RevokeMarks PROVE TypeOK' /\ Called'
  <2>1. CASE RevokeReads
    BY <2>1 DEF RevokeReads, Row, account, platform, flight, local, history
  <2>2. CASE RevokeDeletes
    BY <2>2 DEF RevokeDeletes, Restrict, account, platform, flight, local, history
  <2>3. CASE RevokeMarks
    <3>1. [step |-> "idle", slot |-> 0] \in [step : {"idle", "deleting", "marking"}, slot : Nat]
      OBVIOUS
    <3>. QED
      BY <2>3, <3>1 DEF RevokeMarks, platform, flight, local, history
  <2>. QED BY <1>13, <2>1, <2>2, <2>3
<1>14. CASE Restart
  BY <1>10, <1>14 DEF Restart, account, platform, history
<1>15. CASE UNCHANGED vars
  BY <1>15 DEF vars, account, platform, flight, local, history, admin
<1>. QED
  BY <1>1, <1>2, <1>5, <1>6, <1>7, <1>8, <1>9, <1>11, <1>12, <1>13, <1>14, <1>15
  DEF Next, RequestStep

LEMMA TypesHold == Spec => [](TypeOK /\ Called)
<1>1. Init => TypeOK /\ Called
  <2> SUFFICES ASSUME Init PROVE TypeOK /\ Called
    OBVIOUS
  <2>1. FirstRow \in Row /\ NoResult \in Result
    BY DEF Row, FirstRow, NoResult, Result
  <2>2. DOMAIN vault = {0} /\ vault[0] = 0
    BY DEF Init
  <2>3. pc \in [Requests -> Step] /\ Called
    BY DEF Init, Called, Step
  <2>4. /\ ref \in [Requests -> Row] /\ call \in [Requests -> Requests \cup {Nobody}]
        /\ token \in [Requests -> 0..current] /\ result \in [Requests -> Result]
    BY <2>1 DEF Init
  <2>5. row \in Row /\ revoking \in [step : {"idle", "deleting", "marking"}, slot : Nat]
    BY <2>1 DEF Init
  <2>6. /\ current \in Nat /\ authState \in {"ok", "reauth_required"}
        /\ inflight \in Requests \cup {Nobody}
        /\ due \subseteq 0..current /\ presented \subseteq 0..current /\ replayed \subseteq presented
    BY DEF Init
  <2>7. revoked \in BOOLEAN /\ faults \in BOOLEAN
    BY DEF Init
  <2>8. DOMAIN vault \subseteq Nat /\ \A s \in DOMAIN vault : vault[s] \in 0..current
    BY <2>2, <2>6
  <2>. QED
    BY <2>3, <2>4, <2>5, <2>6, <2>7, <2>8 DEF TypeOK
<1>. QED
  BY <1>1, TypeStep, PTL DEF Spec

\* Account, vault, platform and requests keep their types.
THEOREM TypeCorrect == Spec => []TypeOK
<1>. QED
  BY TypesHold, PTL

-----------------------------------------------------------------------------
(* The vault and the platform agree.                                        *)

\* Between these steps the vault may hold a token that is replaced already.
Replacing(r) == pc[r] \in {"storing", "deleting"}

\* As long as nothing has failed half way, what is in the vault is what the
\* platform accepts, except while the one leader replaces its entry; so what
\* a leader has loaded is accepted.
Clean ==
    /\ replayed = {}
    /\ \A s \in DOMAIN vault :
          vault[s] = current \/ \E r \in Requests : Replacing(r) /\ ref[r].slot = s
    /\ \A s, t \in DOMAIN vault : vault[s] = vault[t] => s = t
    /\ \A r \in Requests : pc[r] = "posting" =>
          token[r] = current /\ \A s \in DOMAIN vault : s = ref[r].slot
    /\ \A r \in Requests : pc[r] = "storing" =>
          token[r] = current /\ \A s \in DOMAIN vault : vault[s] # current
    /\ \A r \in Requests : result[r].kind # "rejected"
    /\ authState = "reauth_required" => revoked

VaultInv ==
    /\ current \notin presented
    /\ revoking.step # "idle" => revoked
    /\ ~faults => Clean

\* A step that puts nothing into the vault, presents nothing and moves nobody
\* into or out of the middle of a refresh changes nothing of it.
LEMMA QuietStep ==
  ASSUME Clean, UNCHANGED <<current, replayed>>,
         DOMAIN vault' \subseteq DOMAIN vault,
         \A s \in DOMAIN vault' : vault'[s] = vault[s],
         \A r \in Requests : result'[r].kind = "rejected" => result[r].kind = "rejected",
         \A r \in Requests : pc'[r] \in {"posting", "storing"} =>
            pc[r] = pc'[r] /\ token'[r] = token[r] /\ ref'[r] = ref[r],
         \A r \in Requests : Replacing(r) => pc'[r] = pc[r] /\ ref'[r] = ref[r],
         authState' = "reauth_required" => revoked'
  PROVE  Clean'
BY DEF Clean, Replacing

\* The end of refreshOnce without a refusal shares no refusal.
LEMMA ConcludeStep ==
  ASSUME TypeOK, NEW r \in Requests, NEW kind \in {"failed", "kept", "renewed"}, NEW slot,
         Conclude(r, kind, slot)
  PROVE  /\ \A q \in Requests : result'[q].kind = "rejected" => result[q].kind = "rejected"
         /\ pc'[r] = "releasing" /\ \A q \in Requests \ {r} : pc'[q] = pc[q]
BY DEF Conclude, Goto, TypeOK

\* Loading: nobody else replaces an entry, so the entry loaded is the only one.
LEMMA LoadClean ==
  ASSUME TypeOK, LeaderInFlight, Clean, NEW r \in Requests, Load(r)
  PROVE  Clean'
<1>1. /\ pc[r] = "loading"
      /\ UNCHANGED <<row, authState, vault, current, replayed, ref, revoked>>
  BY DEF Load, account, platform, history, admin
<1>2. ASSUME NEW kind \in {"failed", "kept"}, NEW slot, Conclude(r, kind, slot), UNCHANGED token
      PROVE  Clean'
  BY <1>1, <1>2, ConcludeStep, QuietStep DEF Clean, Replacing
<1>3. CASE /\ ref[r].slot \in DOMAIN vault /\ token' = [token EXCEPT ![r] = vault[ref[r].slot]]
           /\ Goto(r, "posting") /\ UNCHANGED flight
  <2>1. \A q \in Requests : ~Replacing(q)
    BY <1>1 DEF LeaderInFlight, Leading, Replacing
  <2>2. \A s \in DOMAIN vault : vault[s] = current /\ s = ref[r].slot
    BY <1>3, <2>1 DEF Clean
  <2>3. /\ pc'[r] = "posting" /\ token'[r] = current
        /\ \A q \in Requests \ {r} : pc'[q] = pc[q] /\ token'[q] = token[q]
    BY <1>3, <2>2 DEF TypeOK, Goto
  <2>. QED
    BY <1>1, <1>3, <2>1, <2>2, <2>3 DEF Clean, Replacing, flight
<1>. QED
  BY <1>2, <1>3 DEF Load

\* Presenting: the token is the one accepted.  From then on the entry is stale.
LEMMA PostClean ==
  ASSUME TypeOK, LeaderInFlight, VaultInv, Clean, NEW r \in Requests, Post(r), ~faults'
  PROVE  Clean'
<1>1. /\ pc[r] = "posting" /\ token[r] = current
      /\ \A s \in DOMAIN vault : s = ref[r].slot
      /\ UNCHANGED <<authState, vault, ref, revoked>>
  BY DEF Post, Clean, account, admin
<1>2. CASE Conclude(r, "failed", ref[r].slot) /\ UNCHANGED <<platform, token, history, faults>>
  BY <1>1, <1>2, ConcludeStep, QuietStep DEF Clean, Replacing, platform, history
<1>3. CASE /\ current' = current + 1 /\ token' = [token EXCEPT ![r] = current + 1]
           /\ Goto(r, "storing") /\ UNCHANGED <<flight, due, replayed>>
  <2>1. \A q \in Requests : pc[q] \in {"posting", "storing", "deleting"} => q = r
    BY <1>1 DEF LeaderInFlight, Leading
  <2>2. /\ pc'[r] = "storing" /\ token'[r] = current' /\ UNCHANGED result
        /\ \A q \in Requests \ {r} : pc'[q] = pc[q]
    BY <1>3 DEF TypeOK, Goto, flight
  <2>3. \A s \in DOMAIN vault : vault[s] # current'
    BY <1>3 DEF TypeOK
  <2>. QED
    BY <1>1, <1>3, <2>1, <2>2, <2>3 DEF Clean, Replacing
<1>. QED
  BY <1>1, <1>2, <1>3 DEF Post

\* Storing: the new entry is the only one with the token now accepted.
LEMMA StoreClean ==
  ASSUME TypeOK, LeaderInFlight, Clean, NEW r \in Requests, Store(r), ~faults'
  PROVE  Clean'
<1> DEFINE n == ref[r].slot + 1
<1>1. /\ vault' = [x \in DOMAIN vault \cup {n} |-> IF x = n THEN token[r] ELSE vault[x]]
      /\ Goto(r, "deleting") /\ UNCHANGED <<flight, faults>>
  BY DEF Store
<1>2. /\ pc[r] = "storing" /\ token[r] = current
      /\ \A s \in DOMAIN vault : vault[s] # current
      /\ UNCHANGED <<authState, current, replayed, token, ref, revoked, result>>
  BY <1>1 DEF Store, Clean, account, platform, local, history, admin, flight
<1>3. /\ DOMAIN vault' = DOMAIN vault \cup {n} /\ vault'[n] = current
      /\ \A s \in DOMAIN vault' \ {n} : vault'[s] = vault[s]
  BY <1>1, <1>2
<1>4. pc'[r] = "deleting" /\ \A q \in Requests \ {r} : pc'[q] = pc[q]
  BY <1>1 DEF TypeOK, Goto
<1>5. \A q \in Requests : pc[q] \in {"posting", "storing", "deleting"} => q = r
  BY <1>2 DEF LeaderInFlight, Leading
<1>. QED
  BY <1>2, <1>3, <1>4, <1>5 DEF Clean, Replacing

\* Deleting: only the entry whose token was replaced goes.
LEMMA DeleteClean ==
  ASSUME TypeOK, LeaderInFlight, Clean, NEW r \in Requests, DeleteOld(r), ~faults'
  PROVE  Clean'
<1>1. /\ pc[r] = "deleting" /\ vault' = Restrict(vault, DOMAIN vault \ {ref[r].slot})
      /\ Conclude(r, "renewed", ref[r].slot + 1)
      /\ UNCHANGED <<authState, current, replayed, token, ref, revoked>>
  BY DEF DeleteOld, account, platform, local, history, admin
<1>2. /\ DOMAIN vault' = DOMAIN vault \ {ref[r].slot}
      /\ \A s \in DOMAIN vault' : vault'[s] = vault[s]
  BY <1>1 DEF Restrict
<1>3. \A q \in Requests : pc[q] \in {"posting", "storing", "deleting"} => q = r
  BY <1>1 DEF LeaderInFlight, Leading
<1>4. /\ \A q \in Requests : result'[q].kind = "rejected" => result[q].kind = "rejected"
      /\ pc'[r] = "releasing" /\ \A q \in Requests \ {r} : pc'[q] = pc[q]
  BY <1>1, ConcludeStep
<1>5. \A s \in DOMAIN vault' : vault'[s] = current'
  <2>1. \A q \in Requests : Replacing(q) => q = r
    BY <1>3 DEF Replacing
  <2>2. \A s \in DOMAIN vault' : s \in DOMAIN vault /\ s # ref[r].slot
    BY <1>2
  <2>3. \A s \in DOMAIN vault :
           vault[s] = current \/ \E q \in Requests : Replacing(q) /\ ref[q].slot = s
    BY DEF Clean
  <2>. QED
    BY <1>1, <1>2, <2>1, <2>2, <2>3
<1>6. \A s, t \in DOMAIN vault' : vault'[s] = vault'[t] => s = t
  BY <1>2 DEF Clean
<1>7. \A q \in Requests : pc'[q] \notin {"posting", "storing"} /\ result'[q].kind # "rejected"
  BY <1>1, <1>3, <1>4 DEF Clean
<1>. QED
  BY <1>1, <1>5, <1>6, <1>7 DEF Clean, Replacing

LEMMA CleanStep ==
  ASSUME TypeOK, Called, LeaderInFlight, VaultInv, Clean, ~faults', [Next]_vars
  PROVE  Clean'
<1> USE DEF Goto
<1>1. ASSUME NEW r \in Requests, ReadAccount(r) PROVE Clean'
  BY <1>1, QuietStep
  DEF ReadAccount, TypeOK, Clean, Replacing, account, platform, flight, history, admin
<1>2. ASSUME NEW r \in Requests, Lead(r) \/ Wait(r) PROVE Clean'
  <2>1. /\ UNCHANGED <<authState, vault, current, replayed, result, ref, token, revoked>>
        /\ pc[r] = "asking" /\ pc'[r] \in {"loading", "waiting"}
        /\ \A q \in Requests \ {r} : pc'[q] = pc[q]
    BY <1>2 DEF Lead, Wait, TypeOK, account, platform, local, history, admin
  <2>. QED
    BY <2>1, QuietStep DEF Clean, Replacing
<1>3. ASSUME NEW r \in Requests, Load(r) PROVE Clean'
  BY <1>3, LoadClean
<1>4. ASSUME NEW r \in Requests, Post(r) PROVE Clean'
  BY <1>4, PostClean
<1>5. ASSUME NEW r \in Requests, Store(r) PROVE Clean'
  BY <1>5, StoreClean
<1>6. ASSUME NEW r \in Requests, DeleteOld(r) PROVE Clean'
  BY <1>6, DeleteClean
<1>7. ASSUME NEW r \in Requests, Release(r) \/ Resume(r) PROVE Clean'
  <2>1. /\ UNCHANGED <<authState, vault, current, replayed, result, ref, token, revoked>>
        /\ pc[r] \in {"releasing", "waiting"} /\ pc'[r] = "using"
        /\ \A q \in Requests \ {r} : pc'[q] = pc[q]
    BY <1>7 DEF Release, Resume, TypeOK, account, platform, flight, local, history, admin
  <2>. QED
    BY <2>1, QuietStep DEF Clean, Replacing
<1>8. ASSUME NEW S \in SUBSET Requests, Return(S), \A q \in S : ~Replacing(q),
             UNCHANGED <<vault, current, replayed, result>>,
             authState' = "reauth_required" => revoked'
      PROVE  Clean'
  <2>1. \A q \in Requests : IF q \in S THEN pc'[q] = "done"
                            ELSE pc'[q] = pc[q] /\ ref'[q] = ref[q] /\ token'[q] = token[q]
    BY <1>8 DEF Return
  <2>. QED
    BY <1>8, <2>1, QuietStep DEF Replacing
<1>9. ASSUME NEW r \in Requests, UseResult(r) PROVE Clean'
  <2>1. result[call[r]].kind # "rejected"
    BY <1>9 DEF UseResult, Called, Clean
  <2>2. authState' = authState /\ UNCHANGED <<vault, current, replayed, result, revoked>>
    BY <1>9, <2>1 DEF UseResult, account, platform, history, admin
  <2>. QED
    BY <1>8, <1>9, <2>2 DEF UseResult, Clean, Replacing
<1>10. ASSUME NEW s \in DOMAIN vault, Expire(s) PROVE Clean'
  BY <1>10, QuietStep DEF Expire, Clean, account, flight, local, history, admin
<1>11. CASE RevokeReads
  BY <1>11, QuietStep DEF RevokeReads, Clean, account, platform, flight, local, history
<1>12. CASE RevokeDeletes
  <2>1. /\ UNCHANGED <<authState, current, replayed, result, pc, ref, token, revoked>>
        /\ vault' = vault \/ vault' = Restrict(vault, DOMAIN vault \ {revoking.slot})
    BY <1>12 DEF RevokeDeletes, account, platform, flight, local, history
  <2>2. DOMAIN vault' \subseteq DOMAIN vault /\ \A s \in DOMAIN vault' : vault'[s] = vault[s]
    BY <2>1 DEF Restrict
  <2>. QED
    BY <2>1, <2>2, QuietStep DEF Clean
<1>13. CASE RevokeMarks
  BY <1>13, QuietStep DEF RevokeMarks, VaultInv, platform, flight, local, history
<1>14. CASE Restart
  <2> DEFINE live == {r \in Requests : pc[r] \notin {"new", "done"}}
  <2>1. \A r \in live : pc[r] \notin {"storing", "deleting"}
    BY <1>14 DEF Restart
  <2>2. /\ Return(live)
        /\ UNCHANGED <<authState, vault, current, replayed, result, revoked>>
    BY <1>14 DEF Restart, account, platform, history
  <2>. QED
    BY <1>8, <2>1, <2>2 DEF Clean, Replacing
<1>15. CASE UNCHANGED vars
  BY <1>15, QuietStep DEF vars, Clean, account, platform, flight, local, history, admin
<1>. QED
  BY <1>1, <1>2, <1>3, <1>4, <1>5, <1>6, <1>7, <1>9, <1>10, <1>11, <1>12, <1>13, <1>14, <1>15
  DEF Next, RequestStep

\* A failure half way is never forgotten, and so for a revocation.
LEMMA VaultStep ==
  ASSUME TypeOK, Called, LeaderInFlight, VaultInv, [Next]_vars
  PROVE  VaultInv'
<1>1. faults => faults'
  BY DEF Next, RequestStep, vars, ReadAccount, Lead, Wait, Load, Post, Store, DeleteOld, Release,
         Resume, UseResult, Expire, RevokeReads, RevokeDeletes, RevokeMarks, Restart
<1>2. ~faults' => Clean'
  BY <1>1, CleanStep DEF VaultInv
<1>3. \/ UNCHANGED <<current, presented>>
      \/ presented' = presented \cup {current} /\ current' = current + 1
  <2>1. ASSUME NEW r \in Requests, Post(r) 
        PROVE  \/ UNCHANGED <<current, presented>>
               \/ presented' = presented \cup {current} /\ current' = current + 1
    BY <2>1 DEF Post, platform, history
  <2>. QED
    BY <2>1 DEF Next, RequestStep, vars, ReadAccount, Lead, Wait, Load, Store, DeleteOld, Release,
                Resume, UseResult, Expire, RevokeReads, RevokeDeletes, RevokeMarks, Restart,
                platform, history
<1>4. current' \notin presented'
  BY <1>3 DEF VaultInv, TypeOK
<1>5. \/ UNCHANGED admin
      \/ revoked' = TRUE
      \/ revoking.step # "idle" /\ UNCHANGED revoked
      \/ revoking'.step = "idle"
  <2>1. CASE UNCHANGED admin
    BY <2>1
  <2>2. CASE RevokeReads
    BY <2>2 DEF RevokeReads
  <2>3. CASE RevokeDeletes
    BY <2>3 DEF RevokeDeletes
  <2>4. CASE RevokeMarks
    BY <2>4 DEF RevokeMarks
  <2>5. CASE Restart
    BY <2>5 DEF Restart
  <2>. QED
    BY <2>1, <2>2, <2>3, <2>4, <2>5
    DEF Next, RequestStep, vars, ReadAccount, Lead, Wait, Load, Post, Store, DeleteOld,
        Release, Resume, UseResult, Expire
<1>6. revoking'.step # "idle" => revoked'
  BY <1>5 DEF VaultInv, admin
<1>. QED
  BY <1>2, <1>4, <1>6 DEF VaultInv

LEMMA VaultHolds == Spec => [](TypeOK /\ VaultInv)
<1>1. Init => VaultInv
  BY DEF Init, VaultInv, Clean, NoResult
<1>. QED
  BY <1>1, VaultStep, TypesHold, LeaderHolds, PTL DEF Spec

\* No refresh token the platform has replaced is presented to it again, for
\* any number of requests with references of any age, unless an access failed
\* half way.
THEOREM RefreshTokenUsedOnceHolds == Spec => []RefreshTokenUsedOnce
<1>1. VaultInv => RefreshTokenUsedOnce
  BY DEF VaultInv, Clean, RefreshTokenUsedOnce
<1>. QED
  BY <1>1, VaultHolds, PTL

\* Races between requests never get an account marked for a new login.
THEOREM ReauthIsDeservedHolds == Spec => []ReauthIsDeserved
<1>1. VaultInv => ReauthIsDeserved
  BY DEF VaultInv, Clean, ReauthIsDeserved
<1>. QED
  BY <1>1, VaultHolds, PTL
===============================================================================
