---------------------------- MODULE Administration ----------------------------
(***************************************************************************)
(* The administrators' operations on providers, accounts and policies      *)
(* (internal/api), with the tables and the vault they write.  A handler is *)
(* a call in steps: every statement on the database, every vault access    *)
(* and every answer of the platform stands alone, so that calls interleave *)
(* as the HTTP server lets them.  SQLite enforces the foreign keys that    *)
(* the schema declares (db.Open sets foreign_keys).                        *)
(***************************************************************************)
EXTENDS Naturals

CONSTANTS
    Calls,        \* requests that may be under way at a time
    Providers, Accounts,   \* ids
    Policies,     \* ids of routing policies
    Keys,         \* API keys; a fingerprint tells them apart
    NoKey,        \* an empty vault entry
    Nothing       \* no account or provider

ASSUME AdministrationAssumption ==
    /\ NoKey \notin Keys
    /\ Nothing \notin Accounts \cup Providers

VARIABLES
    providers,    \* rows of providers
    attached,     \* providers and accounts that rows without a DELETE refer to
    rows,         \* rows[a]: the row of accounts, or what became of it
    vault,        \* vault[a]: its two entries, account and account-rot
    policies,     \* policies[i]: the accounts a policy's candidates name
    usage,        \* accounts that usage_events mention
    calls,        \* calls[c]: the handler c is in
    rotations     \* rotations[a]: rotations begun, up to two

adminVars == <<providers, attached, rows, vault, policies, usage, calls, rotations>>

AccountStatus == {"active", "disabled", "error"}
VaultEntry == {"first", "rot"}

AccountRow == [status : AccountStatus \cup {"unborn", "gone"},
        provider : Providers \cup {Nothing},
        entry : VaultEntry,                        \* secret_account
        print : Keys \cup {NoKey}]            \* secret_fingerprint

HandlerStep == {"idle", "insert", "validate", "switch", "activate",
         "verify", "discover", "list", "serve",
         "policies", "usage", "remove", "removeProvider"}

\* A handler and its local variables; saw and blind are history: whether
\* the account a deletion is about had usage when it began, and whether one of
\* its counts failed.
HandlerCall == [at : HandlerStep,
         on : Accounts \cup Providers \cup {Nothing},
         under : Providers \cup {Nothing},
         key : Keys \cup {NoKey},
         saw : SUBSET Accounts,
         blind : BOOLEAN]

NoCall == [at |-> "idle", on |-> Nothing, under |-> Nothing, key |-> NoKey,
         saw |-> {}, blind |-> FALSE]

Unborn == [status |-> "unborn", provider |-> Nothing, entry |-> "first", print |-> NoKey]

AdminInit ==
    /\ providers = {}
    /\ attached = {}
    /\ rows = [a \in Accounts |-> Unborn]
    /\ vault = [a \in Accounts |-> [e \in VaultEntry |-> NoKey]]
    /\ policies = [i \in Policies |-> {}]
    /\ usage = {}
    /\ calls = [c \in Calls |-> NoCall]
    /\ rotations = [a \in Accounts |-> 0]

Exists(a) == rows[a].status \in AccountStatus

\* Helpers of the steps: c goes on at a step, or returns.
Goes(c, step) == calls' = [calls EXCEPT ![c].at = step]
Ends(c) == calls' = [calls EXCEPT ![c] = NoCall]
Starts(c, rec) == calls[c].at = "idle" /\ calls' = [calls EXCEPT ![c] = rec]

\* Vault.Store and Vault.Delete on one entry of an account.
PutEntry(a, e, k) == vault' = [vault EXCEPT ![a][e] = k]

------------------------------------------------------------------------------
(* Operations of one statement. *)

\* POST /providers.
CreateProvider(p) ==
    /\ p \notin providers
    /\ providers' = providers \cup {p}
    /\ UNCHANGED <<attached, rows, vault, policies, usage, calls, rotations>>

\* updateAccount with a status (a new name changes nothing modelled here).
UpdateAccount(a, s) ==
    /\ Exists(a)
    /\ rows' = [rows EXCEPT ![a].status = s]
    /\ UNCHANGED <<providers, attached, vault, policies, usage, calls, rotations>>

\* SaveRoutingPolicy: upsert by id; whether the accounts exist is not asked.
SavePolicy(i, candidates) ==
    /\ candidates # {}
    /\ policies' = [policies EXCEPT ![i] = candidates]
    /\ UNCHANGED <<providers, attached, rows, vault, usage, calls, rotations>>

\* Rows that refer to an account and that nothing deletes: capabilities
\* (Check), quota snapshots (ManualSupplement), members of pools.
AttachRow(a) ==
    /\ Exists(a)
    /\ attached' = attached \cup {a}
    /\ UNCHANGED <<providers, rows, vault, policies, usage, calls, rotations>>

\* SaveQuotaPool: the pool refers to its provider and its members.
SavePool(p, members) ==
    /\ p \in providers /\ \A a \in members : Exists(a)
    /\ attached' = attached \cup {p} \cup members
    /\ UNCHANGED <<providers, rows, vault, policies, usage, calls, rotations>>

------------------------------------------------------------------------------
(* createAccount *)

\* GetProvider finds the provider and the key enters the vault; a failure of
\* either returns an error before anything changed.
CreateAccount(c, a, p, k) ==
    /\ rows[a].status = "unborn"
    /\ \A d \in Calls : calls[d].on # a
    /\ p \in providers
    /\ Starts(c, [NoCall EXCEPT !.at = "insert", !.on = a, !.under = p, !.key = k])
    /\ PutEntry(a, "first", k)
    /\ UNCHANGED <<providers, attached, rows, policies, usage, rotations>>

\* The row, or, when the provider is gone or the statement fails, no row and
\* no vault entry.
InsertAccount(c) ==
    LET a == calls[c].on IN
    /\ calls[c].at = "insert"
    /\ \/ /\ calls[c].under \in providers
          /\ rows' = [rows EXCEPT ![a] = [status |-> "active", provider |-> calls[c].under,
                                          entry |-> "first", print |-> calls[c].key]]
          /\ UNCHANGED vault
       \/ PutEntry(a, "first", NoKey) /\ UNCHANGED rows
    /\ Ends(c)
    /\ UNCHANGED <<providers, attached, policies, usage, rotations>>

------------------------------------------------------------------------------
(* rotateCredential *)

Least(m, n) == IF m < n THEN m ELSE n

\* Seeded fault: the new key goes to the entry the account uses.
StoreNewKeyInPlace(c, a, k) ==
    /\ Exists(a)
    /\ Starts(c, [NoCall EXCEPT !.at = "validate", !.on = a, !.key = k])
    /\ PutEntry(a, rows[a].entry, k)
    /\ rotations' = [rotations EXCEPT ![a] = Least(@ + 1, 2)]
    /\ UNCHANGED <<providers, attached, rows, policies, usage>>

\* The account and its provider are read; the new key is stored under the one
\* name an account's rotations have.
StoreNewKey(c, a, k) ==
    /\ Exists(a)
    /\ Starts(c, [NoCall EXCEPT !.at = "validate", !.on = a, !.key = k])
    /\ PutEntry(a, "rot", k)
    /\ rotations' = [rotations EXCEPT ![a] = Least(@ + 1, 2)]
    /\ UNCHANGED <<providers, attached, rows, policies, usage>>

\* The platform takes the key the entry now holds, or it does not (or the
\* entry is gone): then the entry is deleted.
ValidateNewKey(c) ==
    LET a == calls[c].on IN
    /\ calls[c].at = "validate"
    /\ \/ vault[a]["rot"] # NoKey /\ Goes(c, "switch") /\ UNCHANGED vault
       \/ PutEntry(a, "rot", NoKey) /\ Ends(c)
    /\ UNCHANGED <<providers, attached, rows, policies, usage, rotations>>

\* SetAccountCredentialRef; the entry is deleted if the row is gone or the
\* statement fails.
SwitchCredential(c) ==
    LET a == calls[c].on IN
    /\ calls[c].at = "switch"
    /\ \/ /\ Exists(a)
          /\ rows' = [rows EXCEPT ![a].entry = "rot", ![a].print = calls[c].key]
          /\ Goes(c, "activate")
          /\ UNCHANGED vault
       \/ PutEntry(a, "rot", NoKey) /\ Ends(c) /\ UNCHANGED rows
    /\ UNCHANGED <<providers, attached, policies, usage, rotations>>

\* SetAccountStatus and SetAccountVerifiedAt, whatever the status was.
SetStatus(a, s) ==
    rows' = [rows EXCEPT ![a].status = IF Exists(a) THEN s ELSE @]

ActivateRotated(c) ==
    /\ calls[c].at = "activate"
    /\ SetStatus(calls[c].on, "active")
    /\ Ends(c)
    /\ UNCHANGED <<providers, attached, vault, policies, usage, rotations>>

------------------------------------------------------------------------------
(* Calls to the platform with an account: verify, discover, and a relay. *)

\* GetAccount and resolveTarget: the account is active and has its key.
ResolveTarget(c, a, purpose) ==
    /\ rows[a].status = "active"
    /\ vault[a][rows[a].entry] # NoKey
    /\ Starts(c, [NoCall EXCEPT !.at = purpose, !.on = a, !.under = rows[a].provider])
    /\ UNCHANGED <<providers, attached, rows, vault, policies, usage, rotations>>

\* The platform's answer decides the status, whatever it is by now.
Verify(c) ==
    /\ calls[c].at = "verify"
    /\ \E s \in {"active", "error"} : SetStatus(calls[c].on, s)
    /\ Ends(c)
    /\ UNCHANGED <<providers, attached, vault, policies, usage, rotations>>

\* UpsertModels, which refers to the provider; the platform's refusal or the
\* failure of the statement end the call.
UpsertModels(c) ==
    /\ calls[c].at = "discover"
    /\ \/ /\ calls[c].under \in providers
          /\ attached' = attached \cup {calls[c].under}
          /\ Goes(c, "list")
       \/ Ends(c) /\ UNCHANGED attached
    /\ UNCHANGED <<providers, rows, vault, policies, usage, rotations>>

\* SaveAccountModels, which refers to the account.
SaveAccountModels(c) ==
    /\ calls[c].at = "list"
    /\ \/ Exists(calls[c].on) /\ attached' = attached \cup {calls[c].on}
       \/ UNCHANGED attached
    /\ Ends(c)
    /\ UNCHANGED <<providers, rows, vault, policies, usage, rotations>>

\* A relay's usage event: no foreign key, so the account may be gone.
RecordUsage(c) ==
    /\ calls[c].at = "serve"
    /\ usage' = usage \cup {calls[c].on}
    /\ Ends(c)
    /\ UNCHANGED <<providers, attached, rows, vault, policies, rotations>>

------------------------------------------------------------------------------
(* deleteAccount *)

DeleteAccount(c, a) ==
    /\ Exists(a)
    /\ Starts(c, [NoCall EXCEPT !.at = "policies", !.on = a, !.saw = usage \cap {a}])
    /\ UNCHANGED <<providers, attached, rows, vault, policies, usage, rotations>>

\* A count above zero is a conflict; the error of a failing count is dropped,
\* and the count is zero.
CountOrIgnore(c, n, next) ==
    \/ n > 0 /\ Ends(c)
    \/ n = 0 /\ Goes(c, next)
    \/ calls' = [calls EXCEPT ![c].at = next, ![c].blind = TRUE]

CountCandidates(c) ==
    LET naming == {i \in Policies : calls[c].on \in policies[i]} IN
    /\ calls[c].at = "policies"
    /\ CountOrIgnore(c, IF naming = {} THEN 0 ELSE 1, "usage")
    /\ UNCHANGED <<providers, attached, rows, vault, policies, usage, rotations>>

\* Seeded fault: the policies are asked, the history is not.
CountNoUsage(c) ==
    /\ calls[c].at = "usage"
    /\ Goes(c, "remove")
    /\ UNCHANGED <<providers, attached, rows, vault, policies, usage, rotations>>

CountUsage(c) ==
    /\ calls[c].at = "usage"
    /\ CountOrIgnore(c, IF calls[c].on \in usage THEN 1 ELSE 0, "remove")
    /\ UNCHANGED <<providers, attached, rows, vault, policies, usage, rotations>>

\* The row goes, unless other rows refer to it.  The vault keeps the key.
RemoveAccount(c) ==
    LET a == calls[c].on IN
    /\ calls[c].at = "remove"
    /\ \/ Exists(a) /\ a \notin attached /\ rows' = [rows EXCEPT ![a].status = "gone"]
       \/ UNCHANGED rows
    /\ Ends(c)
    /\ UNCHANGED <<providers, attached, vault, policies, usage, rotations>>

------------------------------------------------------------------------------
(* Deleting providers *)

AccountsUnder(p) == {a \in Accounts : Exists(a) /\ rows[a].provider = p}

\* An account that is counted is a conflict; an error of the count is dropped,
\* so that the call may go on either way.
DeleteProvider(c, p) ==
    /\ Starts(c, [NoCall EXCEPT !.at = "removeProvider", !.on = p])
    /\ UNCHANGED <<providers, attached, rows, vault, policies, usage, rotations>>

\* The row goes, unless an account, a model or a pool refers to it by now.
RemoveProvider(c) ==
    LET p == calls[c].on IN
    /\ calls[c].at = "removeProvider"
    /\ \/ AccountsUnder(p) = {} /\ p \notin attached /\ providers' = providers \ {p}
       \/ UNCHANGED providers
    /\ Ends(c)
    /\ UNCHANGED <<attached, rows, vault, policies, usage, rotations>>

\* The process dies: handlers are gone, tables and Keychain stay.
AdminRestart ==
    /\ \E c \in Calls : calls[c] # NoCall
    /\ calls' = [c \in Calls |-> NoCall]
    /\ UNCHANGED <<providers, attached, rows, vault, policies, usage, rotations>>

------------------------------------------------------------------------------
Statement ==
    \/ \E p \in Providers : CreateProvider(p)
    \/ \E a \in Accounts, s \in AccountStatus : UpdateAccount(a, s)
    \/ \E i \in Policies, candidates \in SUBSET Accounts : SavePolicy(i, candidates)
    \/ \E a \in Accounts : AttachRow(a)
    \/ \E p \in Providers, members \in SUBSET Accounts : SavePool(p, members)

CallStarts(c) ==
    \/ \E a \in Accounts, p \in Providers, k \in Keys : CreateAccount(c, a, p, k)
    \/ \E a \in Accounts, k \in Keys : StoreNewKey(c, a, k)
    \/ \E a \in Accounts, purpose \in {"verify", "discover", "serve"} :
          ResolveTarget(c, a, purpose)
    \/ \E a \in Accounts : DeleteAccount(c, a)
    \/ \E p \in Providers : DeleteProvider(c, p)

CallGoesOn(c) ==
    \/ InsertAccount(c)
    \/ ValidateNewKey(c) \/ SwitchCredential(c) \/ ActivateRotated(c)
    \/ Verify(c) \/ UpsertModels(c) \/ SaveAccountModels(c) \/ RecordUsage(c)
    \/ CountCandidates(c) \/ CountUsage(c) \/ RemoveAccount(c)
    \/ RemoveProvider(c)

AdminNext ==
    \/ Statement
    \/ \E c \in Calls : CallStarts(c) \/ CallGoesOn(c)
    \/ AdminRestart

AdminSpec == AdminInit /\ [][AdminNext]_adminVars

------------------------------------------------------------------------------
\* Tables, vault and handlers keep their shape.
AdminTypeOK ==
    /\ providers \subseteq Providers
    /\ attached \subseteq Providers \cup Accounts
    /\ rows \in [Accounts -> AccountRow]
    /\ vault \in [Accounts -> [VaultEntry -> Keys \cup {NoKey}]]
    /\ policies \in [Policies -> SUBSET Accounts]
    /\ usage \subseteq Accounts
    /\ calls \in [Calls -> HandlerCall]
    /\ rotations \in [Accounts -> 0..2]

\* The row of a names an entry of the vault that holds the key whose
\* fingerprint the row records.
HasCredential(a) ==
    /\ vault[a][rows[a].entry] = rows[a].print
    /\ rows[a].print # NoKey

\* One rotation never costs an account its credential, wherever it fails, is
\* cut off by a restart, or meets the account's deletion: rotateCredential
\* validates the new key beside the old one.
FirstRotationIsSafe ==
    \A a \in Accounts : Exists(a) /\ rotations[a] <= 1 => HasCredential(a)

\* What the comment of rotateCredential promises of every rotation: the old
\* credential is kept until the new one is accepted, and never overwritten.
OldCredentialKept ==
    \A a \in Accounts : Exists(a) => HasCredential(a)

\* An account with usage is not deleted (deleteAccount): only one whose usage
\* is written while the deletion is under way, or was not counted because the
\* count failed, can be.
HistoryProtects ==
    [][\A c \in Calls, a \in Accounts :
         (/\ calls[c].at = "remove" /\ calls[c].on = a
          /\ rows[a].status # "gone" /\ rows'[a].status = "gone")
         => a \notin calls[c].saw \/ calls[c].blind]_adminVars
==============================================================================
