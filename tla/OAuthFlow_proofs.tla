---------------------------- MODULE OAuthFlow_proofs ----------------------------
(***************************************************************************)
(* The safety properties of OAuthFlow, for any flows and completers. *)
(*                                                                         *)
(* They rest on one fact that none of them states: from its redemption on, *)
(* a state belongs to a single completer, which alone may put tokens into  *)
(* its vault entry, make an account of them, or take them back; and once   *)
(* there is an account nobody is left who could take them back.            *)
(***************************************************************************)
EXTENDS OAuthFlow, FiniteSetTheorems, TLAPS

\* A completer that has redeemed its state.
Owner(c) == pc[c] \in {"exchanging", "tokens", "creating", "created"}

ArgumentsTyped == \A c \in Completers : Busy(c) => flow[c] \in Flows /\ state[c] \in Flows

RedeemedTells ==
    \A s \in Flows : redeemed[s] \in {0, 1} /\ (redeemed[s] = 1 => entry[s] = "gone")

OwnersApart ==
    /\ \A c \in Completers : Owner(c) => redeemed[state[c]] = 1
    /\ \A c, d \in Completers : Owner(c) /\ Owner(d) /\ state[c] = state[d] => c = d

OwnersHaveTokens ==
    /\ \A c \in Completers : pc[c] \in {"tokens", "creating", "created"} => state[c] \in vault
    /\ \A c \in Completers : Owner(c) /\ pc[c] # "created" =>
          \A a \in accounts : a.tokens # state[c]
    /\ \A c \in Completers : pc[c] = "created" => \E a \in accounts : a.settings = flow[c]

AccountsApart ==
    /\ \A a \in accounts : redeemed[a.tokens] = 1
    /\ \A a, b \in accounts : a.tokens = b.tokens => a = b

FlowInv ==
    /\ TypeOK
    /\ ArgumentsTyped
    /\ RedeemedTells
    /\ OwnersApart
    /\ OwnersHaveTokens
    /\ AccountsApart
    /\ AccountsHaveTokens
    /\ CompletedFlowHasAccount

-----------------------------------------------------------------------------
(* Each step keeps the invariant.                                          *)

\* One step per action.  Only a completer's own steps touch what it owns; Restart
\* leaves no owner, and the entries of redeemed states stay gone.
LEMMA FlowInvInductive == FlowInv /\ [Next]_vars => FlowInv'
<1> SUFFICES ASSUME FlowInv, [Next]_vars PROVE FlowInv'
  OBVIOUS
<1> USE FlowAssumption
    DEF FlowInv, TypeOK, ArgumentsTyped, RedeemedTells, OwnersApart, OwnersHaveTokens,
        AccountsApart, AccountsHaveTokens, CompletedFlowHasAccount, Owner, Busy, Step,
        Account, Goto, Return, callback, kept
<1>1. ASSUME NEW f \in Flows, Start(f) PROVE FlowInv'
  BY <1>1 DEF Start
<1>2. ASSUME NEW f \in Flows, Expire(f) PROVE FlowInv'
  BY <1>2 DEF Expire
<1>3. ASSUME NEW c \in Completers, NEW f \in Flows, NEW s \in Flows, Begin(c, f, s),
             listener' \in Flows \cup {NoFlow}, UNCHANGED <<entry, status, kept>>
      PROVE  FlowInv'
  BY <1>3 DEF Begin
<1>4. ASSUME NEW c \in Completers, NEW s \in Flows, BrowserReturns(c, s) PROVE FlowInv'
  BY <1>3, <1>4 DEF BrowserReturns
<1>5. ASSUME NEW c \in Completers, NEW s \in Flows, PasteCallback(c, s) PROVE FlowInv'
  BY <1>3, <1>5 DEF PasteCallback
<1>6. ASSUME NEW c \in Completers, Redeem(c) PROVE FlowInv'
  BY <1>6 DEF Redeem
<1>7. ASSUME NEW c \in Completers, Refuse(c) PROVE FlowInv'
  BY <1>7 DEF Refuse
<1>8. ASSUME NEW c \in Completers, Exchange(c) PROVE FlowInv'
  BY <1>8 DEF Exchange
<1>9. ASSUME NEW c \in Completers, MarkFailed(c) PROVE FlowInv'
  BY <1>9 DEF MarkFailed
<1>10. ASSUME NEW c \in Completers, CheckPending(c) PROVE FlowInv'
  BY <1>10 DEF CheckPending
<1>11. ASSUME NEW c \in Completers, CreateAccount(c) PROVE FlowInv'
  <2> DEFINE new == [settings |-> flow[c], tokens |-> state[c]]
  <2>1. /\ new \in Account /\ new.settings = flow[c] /\ new.tokens = state[c]
        /\ accounts' = accounts \cup {new}
        /\ pc[c] = "creating" /\ pc' = [pc EXCEPT ![c] = "created"]
        /\ UNCHANGED <<entry, status, listener, flow, state, redeemed, vault>>
    BY <1>11 DEF CreateAccount
  <2> HIDE DEF new
  <2> USE <2>1
  <2>2. TypeOK' /\ ArgumentsTyped' /\ RedeemedTells' /\ OwnersApart'
    OBVIOUS
  <2>3. OwnersHaveTokens'
    OBVIOUS
  <2>4. AccountsApart'
    OBVIOUS
  <2>5. AccountsHaveTokens' /\ CompletedFlowHasAccount'
    OBVIOUS
  <2> QED BY <2>2, <2>3, <2>4, <2>5
<1>12. ASSUME NEW c \in Completers, CreateFails(c) PROVE FlowInv'
  BY <1>12 DEF CreateFails
<1>13. ASSUME NEW c \in Completers, MarkCompleted(c) PROVE FlowInv'
  BY <1>13 DEF MarkCompleted
<1>14. ASSUME ListenerTimesOut PROVE FlowInv'
  BY <1>14 DEF ListenerTimesOut
<1>15. ASSUME Restart PROVE FlowInv'
  BY <1>15 DEF Restart
<1>16. ASSUME UNCHANGED vars PROVE FlowInv'
  BY <1>16 DEF vars
<1> QED
  BY <1>1, <1>2, <1>4, <1>5, <1>6, <1>7, <1>8, <1>9, <1>10, <1>11, <1>12, <1>13, <1>14,
     <1>15, <1>16 DEF Next

LEMMA FlowInvHolds == Spec => []FlowInv
<1>1. Init => FlowInv
  BY FlowAssumption
  DEF Init, FlowInv, TypeOK, ArgumentsTyped, RedeemedTells, OwnersApart, OwnersHaveTokens,
      AccountsApart, AccountsHaveTokens, CompletedFlowHasAccount, Owner, Busy, Step
<1> QED BY <1>1, FlowInvInductive, PTL DEF Spec

-----------------------------------------------------------------------------
\* stateStore.consume: however many callbacks arrive, are pasted or repeated, a
\* state buys tokens at most once, and at most one account is made of them.
THEOREM StateRedeemedOnceHolds == Spec => []StateRedeemedOnce
<1>1. FlowInv => StateRedeemedOnce
  <2> SUFFICES ASSUME FlowInv, NEW s \in Flows
               PROVE  /\ redeemed[s] <= 1
                      /\ Cardinality({a \in accounts : a.tokens = s}) <= redeemed[s]
    BY DEF StateRedeemedOnce
  <2> USE DEF FlowInv, RedeemedTells, AccountsApart
  <2> DEFINE made == {a \in accounts : a.tokens = s}
  <2>1. redeemed[s] \in {0, 1}
    OBVIOUS
  <2>2. CASE made = {}
    <3>1. Cardinality(made) = 0
      BY <2>2, FS_EmptySet
    <3> QED BY <2>1, <3>1
  <2>3. ASSUME NEW a \in made PROVE Cardinality(made) = 1 /\ redeemed[s] = 1
    <3>1. made = {a}
      OBVIOUS
    <3>2. Cardinality({a}) = 1
      BY FS_Singleton
    <3> QED BY <3>1, <3>2
  <2> QED BY <2>1, <2>2, <2>3
<1> QED BY <1>1, FlowInvHolds, PTL

\* completeFlowAccount: an account never points at tokens that are not in the
\* vault, whichever completions fail next to the one that made it.
THEOREM AccountsHaveTokensHolds == Spec => []AccountsHaveTokens
<1>1. FlowInv => AccountsHaveTokens
  BY DEF FlowInv
<1> QED BY <1>1, FlowInvHolds, PTL

\* oauthFlow.status: a flow only reports completion when an account was created
\* from it.
THEOREM CompletedFlowHasAccountHolds == Spec => []CompletedFlowHasAccount
<1>1. FlowInv => CompletedFlowHasAccount
  BY DEF FlowInv
<1> QED BY <1>1, FlowInvHolds, PTL

\* The flows keep their types, whatever arrives and whoever completes.
THEOREM TypeCorrect == Spec => []TypeOK
<1>1. FlowInv => TypeOK
  BY DEF FlowInv
<1> QED BY <1>1, FlowInvHolds, PTL
=================================================================================
