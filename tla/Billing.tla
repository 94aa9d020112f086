------------------------------- MODULE Billing -------------------------------
(***************************************************************************)
(* Price versions and the usage summary (internal/repository, MR-019).     *)
(* Nothing is charged when a request ends: the summary multiplies the      *)
(* tokens of every successful attempt by the version that was in force     *)
(* when the attempt began, each time it is asked.                          *)
(*                                                                         *)
(* Both dates are compared as text, and that of a price is any text at all *)
(* (api.go:748).  A Time is the rank of such a text in the order of texts: *)
(* a price written with an offset may stand where its instant does not.    *)
(***************************************************************************)
EXTENDS Naturals, FiniteSets, Functions

CONSTANTS
    PricedModels,  \* upstream models: actual_model, and model_id of a price
    Attempts,      \* ids of request_attempts
    Nanos,         \* prices, in nano-USD a token
    TokenCounts,   \* tokens an attempt may report
    MaxTime,       \* bound of the clock
    MaxPrices      \* bound of the number of versions

ASSUME BillingAssumption ==
    /\ MaxTime \in Nat /\ MaxPrices \in Nat
    /\ Nanos \subseteq Nat /\ TokenCounts \subseteq Nat

VARIABLES
    now,           \* the time of the server
    prices,        \* price_versions: the columns a summary reads
    ledger,        \* ledger[r]: the row of request_attempts, or [status |-> "none"]
    inForce,       \* history: inForce[r][m], the prices m had when r began
    redated        \* history: attempts for which a version was added later
                   \* that is not dated after them

billingVars == <<now, prices, ledger, inForce, redated>>

Time == 0..MaxTime

BillingInit ==
    /\ now = 0
    /\ prices = {}
    /\ ledger = [r \in Attempts |-> [status |-> "none"]]
    /\ inForce = [r \in Attempts |-> [m \in PricedModels |-> {}]]
    /\ redated = {}

\* Seeded fault: the summary asks for today's price.
PriceAtLatest(m, t) ==
    LET known == {v \in prices : v.model = m} IN
    {v.nano : v \in {w \in known : \A u \in known : u.from <= w.from}}

\* The correlated subquery of AggregateUsage, as PriceAt: the newest version
\* not dated after t.  No version is no price; of versions dated alike any one
\* may be taken.
PriceAt(m, t) ==
    LET known == {v \in prices : v.model = m /\ v.from <= t} IN
    {v.nano : v \in {w \in known : \A u \in known : u.from <= w.from}}

\* handlePriceVersions: effective_at is what the administrator writes, past
\* or future.
AddPrice(m, from, nano) ==
    /\ Cardinality(prices) < MaxPrices
    /\ prices' = prices \cup {[model |-> m, from |-> from, nano |-> nano]}
    /\ redated' = redated \cup {r \in Attempts : ledger[r].status # "none" /\ from <= ledger[r].began}
    /\ UNCHANGED <<now, ledger, inForce>>

\* CreateAttempt
BeginAttempt(r, m) ==
    /\ ledger[r].status = "none"
    /\ ledger' = [ledger EXCEPT ![r] = [status |-> "started", model |-> m, began |-> now, tokens |-> 0]]
    /\ inForce' = [inForce EXCEPT ![r] = [n \in PricedModels |-> PriceAt(n, now)]]
    /\ UNCHANGED <<now, prices, redated>>

\* FinishAttempt: what the platform reported, its name of the model included.
EndAttempt(r, m, n, status) ==
    /\ ledger[r].status = "started"
    /\ ledger' = [ledger EXCEPT ![r].status = status, ![r].model = m, ![r].tokens = n]
    /\ UNCHANGED <<now, prices, inForce, redated>>

Later ==
    /\ now < MaxTime
    /\ now' = now + 1
    /\ UNCHANGED <<prices, ledger, inForce, redated>>

BillingNext ==
    \/ \E m \in PricedModels, from \in Time, nano \in Nanos : AddPrice(m, from, nano)
    \/ \E r \in Attempts, m \in PricedModels : BeginAttempt(r, m)
    \/ \E r \in Attempts, m \in PricedModels, n \in TokenCounts,
          status \in {"success", "partial", "failed", "cancelled"} : EndAttempt(r, m, n, status)
    \/ Later

BillingSpec == BillingInit /\ [][BillingNext]_billingVars

------------------------------------------------------------------------------
(* AggregateUsage, for the row of one model. *)

Successful(m) == {r \in Attempts : ledger[r].status = "success" /\ ledger[r].model = m}

\* Tokens times NULL is NULL, which SUM leaves out.
Priced(m) == {r \in Successful(m) : PriceAt(m, ledger[r].began) # {}}

\* A row whose attempts are all without a price has the sum NULL, which Scan
\* refuses: the summary then fails as a whole.
SummaryAnswers == \A m \in PricedModels : Successful(m) # {} => Priced(m) # {}

The(S) == CHOOSE x \in S : TRUE

Amount(m) == SumFunction([r \in Priced(m) |-> ledger[r].tokens * The(PriceAt(m, ledger[r].began))])

------------------------------------------------------------------------------
BillingTypeOK ==
    /\ now \in Time
    /\ prices \subseteq [model : PricedModels, from : Time, nano : Nanos]
    /\ ledger \in [Attempts -> {[status |-> "none"]} \cup
                   [status : {"started", "success", "partial", "failed", "cancelled"},
                    model : PricedModels, began : Time, tokens : TokenCounts \cup {0}]]
    /\ inForce \in [Attempts -> [PricedModels -> SUBSET Nanos]]
    /\ redated \subseteq Attempts

\* What a summary charges for a model is what the prices in force when its
\* attempts began make of it, however late it is asked and whatever versions
\* have been added since, unless one was added whose date is not after theirs (api.go:811,
\* repository.go AggregateUsage).  Attempts begun without a price are left out.
BillKeepsItsPrice ==
    \A m \in PricedModels :
      LET priced == {r \in Successful(m) : inForce[r][m] # {}} IN
      /\ SummaryAnswers
      /\ Successful(m) \cap redated = {}
      /\ \A r \in priced : \A x, y \in inForce[r][m] : x = y
      => Amount(m) = SumFunction([r \in priced |-> ledger[r].tokens * The(inForce[r][m])])
==============================================================================
