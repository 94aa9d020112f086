------------------------------- MODULE OAuthFlow -------------------------------
(***************************************************************************)
(* Authorising an OAuth account: oauthStart, the one-shot callback         *)
(* listener on port 1455, oauthComplete (the callback pasted by hand),     *)
(* their common completeFlowAccount, and the state store that lets each    *)
(* state be redeemed once.                                                 *)
(*                                                                         *)
(* A flow stands for its state as well: f names the oauthFlow, the state   *)
(* its browser was sent away with, and the vault entry (flow id) its       *)
(* tokens go to.  The listener serves whichever callback comes first, with *)
(* the flow it was opened for; the state in the callback decides which     *)
(* authorisation is redeemed.  Flows and states live in memory; the vault  *)
(* and the accounts table outlive the process.                             *)
(***************************************************************************)
EXTENDS Naturals, FiniteSets

CONSTANTS
    Flows,
    Completers,   \* calls of completeFlowAccount, each used once
    NoFlow

ASSUME FlowAssumption == NoFlow \notin Flows

VARIABLES
    entry,      \* stateStore.entries: is the state of a flow redeemable
    status,     \* oauthFlow.status
    listener,   \* the flow whose goroutine holds port 1455, or NoFlow
    pc,         \* where a completer is
    flow,       \* the oauthFlow a completer works for
    state,      \* the state in the callback it was given
    redeemed,   \* history: how many times a state was redeemed for tokens
    vault,      \* flows whose tokens are in the vault
    accounts    \* accounts created: whose settings, whose tokens

callback == <<flow, state>>
kept == <<redeemed, vault, accounts>>
vars == <<entry, status, listener, pc, callback, kept>>

Step == {"idle", "arrived", "cancelled", "exchanging", "tokens", "refused",
         "creating", "created", "done", "dropped"}
Account == [settings : Flows, tokens : Flows]

Busy(c) == pc[c] \notin {"idle", "done", "dropped"}

TypeOK ==
    /\ entry \in [Flows -> {"none", "live", "stale", "gone"}]
    /\ status \in [Flows -> {"none", "pending", "completed", "failed"}]
    /\ listener \in Flows \cup {NoFlow}
    /\ pc \in [Completers -> Step]
    /\ flow \in [Completers -> Flows \cup {NoFlow}]
    /\ state \in [Completers -> Flows \cup {NoFlow}]
    /\ redeemed \in [Flows -> Nat]
    /\ vault \subseteq Flows
    /\ accounts \subseteq Account

Init ==
    /\ entry = [f \in Flows |-> "none"]
    /\ status = [f \in Flows |-> "none"]
    /\ listener = NoFlow
    /\ pc = [c \in Completers |-> "idle"]
    /\ flow = [c \in Completers |-> NoFlow]
    /\ state = [c \in Completers |-> NoFlow]
    /\ redeemed = [f \in Flows |-> 0]
    /\ vault = {}
    /\ accounts = {}

Goto(c, step) == pc' = [pc EXCEPT ![c] = step]

\* completeFlowAccount returns; its arguments go with it.
Return(c, how) ==
    /\ pc' = [pc EXCEPT ![c] = how]
    /\ flow' = [flow EXCEPT ![c] = NoFlow]
    /\ state' = [state EXCEPT ![c] = NoFlow]

-----------------------------------------------------------------------------
(* Beginning a flow, and the ways its end is reported.                     *)

\* oauthStart: StartAuth registers a fresh state and purges the stale ones;
\* the callback port is taken if it is free (another program may hold it).
Start(f) ==
    /\ status[f] = "none" /\ entry[f] = "none"
    /\ entry' = [g \in Flows |-> IF g = f THEN "live"
                                 ELSE IF entry[g] = "stale" THEN "gone" ELSE entry[g]]
    /\ status' = [status EXCEPT ![f] = "pending"]
    /\ \/ listener = NoFlow /\ listener' = f
       \/ UNCHANGED listener
    /\ UNCHANGED <<pc, callback, kept>>

\* A completer begins, for flow f, with a callback that names state s and
\* carries a code or the news that the user has cancelled.
Begin(c, f, s) ==
    /\ pc[c] = "idle"
    /\ flow' = [flow EXCEPT ![c] = f]
    /\ state' = [state EXCEPT ![c] = s]
    /\ \E news \in {"arrived", "cancelled"} : Goto(c, news)

\* The browser of some flow is sent to the port: the listener takes that
\* callback, closes, and completes the flow it was opened for.
BrowserReturns(c, s) ==
    /\ listener # NoFlow /\ entry[s] # "none"
    /\ Begin(c, listener, s)
    /\ listener' = NoFlow
    /\ UNCHANGED <<entry, status, kept>>

\* oauthComplete: the pasted address names a flow this process knows.
PasteCallback(c, s) ==
    /\ status[s] # "none"
    /\ Begin(c, s, s)
    /\ UNCHANGED <<entry, status, listener, kept>>

\* AwaitCallback gives up.
ListenerTimesOut ==
    /\ listener # NoFlow
    /\ listener' = NoFlow
    /\ UNCHANGED <<entry, status, pc, callback, kept>>

-----------------------------------------------------------------------------
(* completeFlowAccount.                                                    *)

\* Seeded fault: the entry is only deleted once the tokens are there.
RedeemKeepsEntry(c) ==
    /\ pc[c] = "arrived"
    /\ IF entry[state[c]] = "live"
       THEN /\ redeemed' = [redeemed EXCEPT ![state[c]] = @ + 1]
            /\ Goto(c, "exchanging")
       ELSE Goto(c, "refused") /\ UNCHANGED redeemed
    /\ UNCHANGED <<entry, status, listener, callback, vault, accounts>>

\* stateStore.consume: the entry goes, redeemable or stale.
Redeem(c) ==
    /\ pc[c] = "arrived"
    /\ entry' = [entry EXCEPT ![state[c]] = "gone"]
    /\ IF entry[state[c]] = "live"
       THEN /\ redeemed' = [redeemed EXCEPT ![state[c]] = @ + 1]
            /\ Goto(c, "exchanging")
       ELSE Goto(c, "refused") /\ UNCHANGED redeemed
    /\ UNCHANGED <<status, listener, callback, vault, accounts>>

\* A cancelled authorisation leaves its state unredeemed.
Refuse(c) ==
    /\ pc[c] = "cancelled"
    /\ Goto(c, "refused")
    /\ UNCHANGED <<entry, status, listener, callback, kept>>

\* exchange, and Vault.Store under the flow the state belongs to.
Exchange(c) ==
    /\ pc[c] = "exchanging"
    /\ \/ vault' = vault \cup {state[c]} /\ Goto(c, "tokens")
       \/ Goto(c, "refused") /\ UNCHANGED vault
    /\ UNCHANGED <<entry, status, listener, callback, redeemed, accounts>>

\* CompleteAuth has failed: so has the flow, unless it is decided already.
MarkFailed(c) ==
    /\ pc[c] = "refused"
    /\ status' = [status EXCEPT ![flow[c]] = IF @ = "pending" THEN "failed" ELSE @]
    /\ Return(c, "done")
    /\ UNCHANGED <<entry, listener, kept>>

\* CompleteAuth has succeeded: go on if nobody has decided the flow yet.
CheckPending(c) ==
    /\ pc[c] = "tokens"
    /\ IF status[flow[c]] = "pending" THEN Goto(c, "creating") /\ UNCHANGED callback
                                      ELSE Return(c, "dropped")
    /\ UNCHANGED <<entry, status, listener, kept>>

\* Seeded fault: the tokens are wiped whatever becomes of the account.
CreateAccountWipes(c) ==
    /\ pc[c] = "creating"
    /\ accounts' = accounts \cup {[settings |-> flow[c], tokens |-> state[c]]}
    /\ vault' = vault \ {state[c]}
    /\ Goto(c, "created")
    /\ UNCHANGED <<entry, status, listener, callback, redeemed>>

CreateAccount(c) ==
    /\ pc[c] = "creating"
    /\ accounts' = accounts \cup {[settings |-> flow[c], tokens |-> state[c]]}
    /\ Goto(c, "created")
    /\ UNCHANGED <<entry, status, listener, callback, redeemed, vault>>

\* Seeded fault: the failure of the insert is not told to the flow.
CreateFailsSilently(c) ==
    /\ pc[c] = "creating"
    /\ vault' = vault \ {state[c]}
    /\ Goto(c, "created")
    /\ UNCHANGED <<entry, status, listener, callback, redeemed, accounts>>

\* The insert fails: the tokens are taken back and the flow has failed.  When
\* the provider is gone the tokens stay behind.
CreateFails(c) ==
    /\ pc[c] = "creating"
    /\ vault' = vault \ {state[c]} \/ UNCHANGED vault
    /\ status' = [status EXCEPT ![flow[c]] = "failed"]
    /\ Return(c, "done")
    /\ UNCHANGED <<entry, listener, redeemed, accounts>>

MarkCompleted(c) ==
    /\ pc[c] = "created"
    /\ status' = [status EXCEPT ![flow[c]] = "completed"]
    /\ Return(c, "done")
    /\ UNCHANGED <<entry, listener, kept>>

-----------------------------------------------------------------------------
\* stateTTL passes.
Expire(f) ==
    /\ entry[f] = "live"
    /\ entry' = [entry EXCEPT ![f] = "stale"]
    /\ UNCHANGED <<status, listener, pc, callback, kept>>

\* The process dies and starts again: flows, states and the listener are gone.
Restart ==
    /\ entry' = [f \in Flows |-> IF entry[f] = "none" THEN "none" ELSE "gone"]
    /\ status' = [f \in Flows |-> "none"]
    /\ listener' = NoFlow
    /\ pc' = [c \in Completers |-> IF Busy(c) THEN "done" ELSE pc[c]]
    /\ flow' = [c \in Completers |-> NoFlow]
    /\ state' = [c \in Completers |-> NoFlow]
    /\ UNCHANGED kept

Next ==
    \/ \E f \in Flows : Start(f) \/ Expire(f)
    \/ \E c \in Completers :
          \/ \E s \in Flows : BrowserReturns(c, s) \/ PasteCallback(c, s)
          \/ Redeem(c)
          \/ Refuse(c)
          \/ Exchange(c)
          \/ MarkFailed(c)
          \/ CheckPending(c)
          \/ CreateAccount(c)
          \/ CreateFails(c)
          \/ MarkCompleted(c)
    \/ ListenerTimesOut
    \/ Restart

Spec == Init /\ [][Next]_vars

-----------------------------------------------------------------------------
(* Properties.                                                             *)

\* A state is good for one redemption, however many callbacks, pasted
\* addresses and restarts there are (state.go:20), and an account is made
\* from every redemption at most once.
StateRedeemedOnce ==
    \A s \in Flows :
        /\ redeemed[s] <= 1
        /\ Cardinality({a \in accounts : a.tokens = s}) <= redeemed[s]

\* No account points at nothing: its tokens are in the vault, and no other
\* completion takes them away again.
AccountsHaveTokens == \A a \in accounts : a.tokens \in vault

\* A flow that says it is completed has produced an account.
CompletedFlowHasAccount ==
    \A f \in Flows : status[f] = "completed" => \E a \in accounts : a.settings = f
===============================================================================
