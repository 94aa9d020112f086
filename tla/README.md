# Midroute: models and proofs

TLA+ modules, TLC configurations and TLAPS proofs for the Go server in
`src/apps/server`. Line numbers below are relative to `src/apps/server/internal`
unless a path says otherwise. `PROJECT.json` lists every run, every seeded
fault, every hazard with the properties that guard it, and the source lines
behind each definition.

## 1. The system

Midroute is a single process (Go, SQLite with one connection, an in-memory or
Keychain vault) that accepts chat requests in three dialects and relays them to
upstream accounts.

| Component | State | Operations | Hard part |
|---|---|---|---|
| Token access (`access`, `requireToken`) | `tokens` rows, in-memory slot counts | authenticate, take and return a slot, check the model, create / disable / delete a token | slots on every exit path, tokens that change while in use |
| Routing policy (`router.resolveCandidates`) | `routing_policies`, `accounts` | read policy, filter accounts, sort | rows change between the reads |
| Chat relay (`router.Forward*`, `api.handleChatCompletions`) | loop variables, `request_attempts`, `usage_events`, the reply | resolve, attempt, call, settle, fail over, account, reply | failing in the middle of a reply, failing ledger writes, clients that leave, crashes |
| Responses relay (`api/responses_oauth.go`) | loop variables, `response_bindings`, `usage_events`, the reply | as above, with conversations bound to an account | stickiness against failover and administration |
| Messages relay (`api/anthropic.go`) | loop variables, the reply | as above, without bindings or attempts | failing in the middle of a reply |
| Refresh scheduler (`scheduler`) | `refresh_jobs`, in-memory claims | enqueue, run, record, mark interrupted | claim and row together, failing table accesses, restarts |
| OAuth flows (`connectors/oauth`, `oauthStart` ...) | states and flows in memory, the listener, vault, `accounts` | start, callback, paste, redeem, exchange, create account | two completions, two flows and one port, expiry, restart |
| OAuth token refresh (`oauth.Service.Refresh`, `resolveOAuthTarget`) | in-memory single flight, vault, the account's reference | load, refresh, store, delete, switch | rotated refresh tokens, stale references |
| Credentials (`credentials`, `rotateCredential`, `revokeAccount`) | vault, the account's reference | create, rotate, verify, revoke | shared vault entries, no transaction over vault and table |
| Administration (`api`, `repository`) | `providers`, `accounts`, `projects`, `tokens`, `routing_policies` | create, edit, delete with reference checks | check and change in separate statements |
| Connectors (`connectors`) | the flag and the buffer of a stream | call, cut into events, translate, judge the end | streams that end without their marker, or inside an event |
| Health engine (`health`) | status and two counters per subject | score a window, observe | hysteresis over windows of every kind |
| Prices and summaries (`api`, `repository`) | `price_versions`, `request_attempts` | add a version, begin and end an attempt, summarise | a cost is computed long after the request |
| Sessions (`session`, `httpserver`) | sessions in memory | log in, judge, log out | sliding expiry against other requests |
| Migrations (`db`) | tables, `schema_migrations` | open, migrate, serve | death at any point, several processes |
| Quota (`quota`), statements (`usage`) | snapshots, pools, imported statements | observe, supplement, reconcile | freshness; otherwise arithmetic |
| HTTP server, configuration, tools, web console | none of their own | | |

How they interact. Each HTTP request is a goroutine. `requireToken` wraps the
three relays: it authenticates, takes a slot, runs the handler, and returns the
slot. A relay asks the router for candidates, resolves each (for an OAuth account
that may refresh its tokens), calls upstream and records what happened.
Administrators change the same tables from other goroutines; there are no
transactions across statements. At start `main` repairs what a dead process left
(`MarkStaleAttemptsInterrupted`, `MarkInterruptedRefreshJobs`) before it listens.
So every interleaving of single statements, map operations under a mutex, and
upstream calls is possible, and that is the grain of the actions.

What makes each component correct is listed with its module in section 3.

## 2. Modules

| Module | Models | Composes |
|---|---|---|
| `TokenAccess` | tokens and slots around a handler | |
| `Selection` | what a filtering loop and `sort.SliceStable` make of a slice | |
| `RoutePolicy` | who may be tried, in which order | extends `Selection` |
| `ReplyContract` | abstract: what a client may be sent as one reply | |
| `ChatRelay` | one chat request from policy to reply, with both ledgers | extends `RoutePolicy`, implements `ReplyContract` |
| `ResponsesRelay` | responses requests and bindings | extends `Selection`, checked against `ReplyContract` |
| `RefreshScheduler` | refresh calls, claims and rows | |
| `OAuthFlow` | authorisation flows from start to account | |
| `TokenRefresh` | the token refresh of one OAuth account, and its revocation | |
| `MessagesRelay` | one request of `/v1/messages`: candidates, calls, pass-through | |
| `ChatStream` | one streaming call inside a connector, from upstream events to chunks and outcome | |
| `Administration` | providers, accounts and their keys, policies, deletions, a statement at a time | |
| `Projects` | projects and the tokens that name them | |
| `Billing` | price versions, attempts, and what a summary makes of them | |
| `Sessions` | the guard, its session store, login and logout | |
| `Migration` | processes of several versions that migrate one file | |
| `Hysteresis` | abstract: a status that follows streaks of verdicts | |
| `HealthWindow` | scoring a window and `Engine.Observe` | implements `Hysteresis` |
| `Services` | the eight modules from `MessagesRelay` on, side by side | extends them |
| `*_proofs` | the theorems of section 5 | extend their modules and TLAPS |
| `MC*` | small instances for TLC | extend their module |

`Services` composes the eight modules from `MessagesRelay` on. They share no state, so
a product of them would only multiply their states. Its variable `part` is chosen once, at the
start, and only that component moves (`OthersStand`): the behaviours are those of the eight specifications, one at a
time, and so are the states. A module that shares state with another is not split this way: the
relays read accounts and policies that their own modules let administrators change.

`Selection` finds the positions of a filtered or sorted slice by counting those that come before (`Ranked`),
where one would write `SelectSeq` or `SortSeq`: those are recursive, and nothing could be proved of them.

Conventions. A handler's position is `pc[r]`; a step of the handler up to its
next shared access is one action. `Goto` moves it. Definitions called "Seeded
fault" sit in front of the definition they vary, with one plausible mistake; no
action uses them, `PROJECT.json` names the property each must break. History
variables are marked in the declarations. Database and vault accesses may fail
where the code has an error path; where the code only logs or ignores the failure,
the model remembers that it happened (`skipped`, `unsaved`, `faults`) so that
properties can say exactly whom it excuses.

## 3. Runs and what they show

### Token access (`MCTokenAccess.cfg`)
`SlotAccounting`: the counter of a token is the number of requests that hold one
of its slots, on every path out of the handler, while tokens are disabled, deleted
and expire. `ConcurrencyCap`: never more holders than the limit. `RevocationDrains`
(liveness): once a token stays invalid, nobody keeps or takes a slot of it but requests admitted before whose client or
upstream never moves again. `SlotComesBack` (liveness): a limited token has a free slot again and again, unless as many
requests as it admits wait for ever for their client or upstream.
Bounds: three requests, so that two can fill the cap of 2 and a third meets it; two
tokens, one capped and restricted to one of two models, one unlimited and expiring.
Fairness: weak fairness of the steps at the door alone (`DoorStep`: taking a slot, the refusal, the release). Behind the door
nothing is fair. The client of the responses and messages relays has no overall timeout (`cmd/server/main.go:90-98`), and the
server reads bodies and writes answers without one (`135-139`): a silent upstream or client keeps its slot for ever,
and that is what both properties excuse. For chat, `RequestAnswered` below says which requests end.

### Chat relay (`MCChatRelay.cfg`)
`ReplyKept` is the refinement: `ChatRelay` implements `ReplyContract`. All bytes of
a reply come from one attempt, an error only comes before output, and a closed
reply stays closed. `AttemptsTellTruth`: the attempts table agrees with the wire
(success and partial rows supplied the bytes, failed rows none, open rows belong to
calls in flight, interrupted ones to a dead process). `UsageMatchesAttempts`: one
usage event per finished request, for the last attempt's account, marked as a success
iff that attempt was one, also when the client has left. `FailoverExhausts`: an error
that another account could cure reaches the client only when no candidate is left.
`MonitorOnlyNeverTried`; `OutcomesAreFinal` (action property): an outcome is written
once; `RequestAnswered` (liveness): a handler that has started ends, unless its client for ever neither reads nor leaves.
Properties on the ledger excuse requests with a failed ledger write.
Bounds: one request (requests share nothing but tables that others only read; the
administrator's and the process's steps interleave with it), two accounts to
fail over between and one that is only monitored, three policies (none, a disabled
one, one whose priorities reverse the listing), and all nine causes of failure.
Fairness: weak fairness of a started handler, except while it may be in a write to its client (`Writing`). Every chat
connector's HTTP client has a timeout (`connectors/httpclient.go:16`), so a call returns, unless it hands on output that the client does not
read, which nothing ends (`cmd/server/main.go:135-139`); `StreamEvent` is not fair and may go on until it does.

### Chat failover (`MCChatRelay_failover.cfg`, expected violation)
`DocumentedFailover` is what `router/router.go:342` says: failover on 429, timeout,
network errors, truncation and 5xx. Errors of `client.Do` and of decoding a body are
never classified (`connectors/httpclient.go:19-59`), so `Retryable` says no.

### Responses relay (`MCResponsesRelay.cfg`)
`ConversationAffinity`: a request that continues a conversation is only ever sent to
the account its handle is bound to, and that account is not a monitored one.
`BindingNeverMoves` (action property): a handle stays with its account, even if another
account hands out the same id. `HandleKnownAfterReply` (action property): when the client
sees the end of a reply, its handle can be continued, unless the write failed. A client that already continues at
`response.completed`, before the reply is closed, is outside it: the binding is saved between the two.
`UsageTellsWhoAnswered`: a completed reply is charged once as a success, last, to the
account that gave it.
Bounds: two requests (one can continue what the other begins, both can receive the same
id), three accounts, one handle, a retryable and a silent failure. Two failures are
enough: the loop tells failures apart only by `responsesRetryable` and by whether
they can follow output.

### Responses contract (`MCResponsesRelay_contract.cfg`, expected violation)
The same `ReplyContract`, which the comments at `api/responses_oauth.go:200` and `:225`
promise as well. The loop cannot see the flag `started` and decides on the error alone.

### Refresh scheduler (`MCRefreshScheduler.cfg`)
`SingleFlight`: no two runs for one key at a time, also across restarts and when the row
cannot be read. `RunningRowHasRun`: a row is running exactly while its run is under way.
`RetriesCountFailures`: `retry_count` is the number of failures since the last success,
through reruns and restarts. Both excuse keys one of whose accesses failed; what follows
such a failure is visible in `CheckRow`: a row left running refuses every refresh until
the next restart. `ClaimComesBack` (liveness): the claim on a key is given up.
Bounds: four calls, three of them on one key, so that a call can be refused, rerun after a
failure and rerun after a restart; one on another key. Fairness: weak fairness of a call
that has its claim; `JobTimeout` bounds the job.

A rerun also forgets when the last success was: the upsert and the failing update write an empty
`last_success_at` (`scheduler/scheduler.go:103-112`, `148`, `154`), while
`src/docs/contracts/data-contracts-v1.md:35` says that a failed refresh keeps the last successful
value. The model has no times, so this is noted here and not run.

### OAuth flows (`MCOAuthFlow.cfg`)
`StateRedeemedOnce`: a state buys tokens once, and they make at most one account.
`AccountsHaveTokens`: the tokens of an account are in the vault, and no other completion's
failure removes them. `CompletedFlowHasAccount`: a flow that reports completion has an
account, though not that its settings and tokens are of one flow: the listener completes its own flow with whatever callback
arrives (`api/responses_oauth.go:437`), so with two flows open an account may hold one's settings and the other's tokens.
Accounts are not deleted in this module. Bounds: two flows, so that a callback can
reach the other flow's listener; three completers, so that one flow can be completed twice
while the other is completed too. No fairness: nothing obliges a user to return.

The comment at `api/responses_oauth.go:491` says that the first of two completions wins. What wins is
the first to change the status: a second completion fails at once on the redeemed state and marks the
flow failed (`MarkFailed`) while the first still exchanges its code; the first then finds the flow decided,
leaves its tokens in the vault without an account (`CheckPending`), and `oauthComplete` answers 201 with an empty id.

### Token refresh (`MCTokenRefresh.cfg`)
`OneRefreshAtATime`: of all requests that find the tokens of an account due, one is inside
`refreshOnce`. `RefreshTokenUsedOnce`: a refresh token the platform has replaced is not presented
again, although requests go by references they read before others refreshed. `ReauthIsDeserved`:
races between requests never mark the account for a new login; only a revocation or a failure half
way does. `WaiterWakes` (liveness): a request that waits for another one's refresh goes on, whatever
that refresh comes to.
`faults` records the failures the code cannot undo, and excuses them: an answer of the platform
that gets lost after it replaced the token, a failing `Store`, a failing `Delete`, a failing update
of the row, and a crash between them. What then follows can be read off the actions: a crash
between `DeleteOld` and `UseResult` leaves the account pointing at a deleted entry.
Entries are numbered because the Keychain vault prefixes the service name it is given
(`credentials/keychain.go:63-77`) and a refresh gives it the prefixed name: the entry stored from
entry n is entry n+1, so a refresh never overwrites the tokens it replaces, and the name grows by a
prefix each time. Removing the call from the map and closing its channel are one step (`Release`): between
the two a waiter only waits longer, and a newcomer leads in either case.
Bounds: three requests for one account (accounts share nothing here): a leader, one that waits, and
one that holds an old reference, in every order, each refreshing at most once. Fairness: weak fairness of
a request that has read the account. The platform's answer is bounded by `refreshTimeout`; that the
vault answers is an assumption, as the `security` command is run without a time limit.

### Tokens kept (`MCTokenRefresh_kept.cfg`, expected violation)
`TokensStayReachable` is what the checklist asks for (`src/tasks/midroute-implementation-checklist.md:240`:
one refresh lock and a comparison of credential versions) and the comment at `api/api.go:1335` describes:
as long as nothing fails and nobody revokes, an account at rest can load its tokens. No version is
compared. A request that found the tokens fresh carries a reference without fingerprint, so it writes
the reference it read back to the account, after another request may have refreshed and deleted
that entry.

### Services (`MCServices.cfg`)
Each component alone, as section 2 says. No fairness is stated: these are safety properties, and
nothing obliges an administrator, a client or a platform to act. `CHECK_DEADLOCK FALSE`, because
a request that is answered, a stream that has ended and a bounded clock have nothing left to do.
`ServicesTypeOK` is the type invariant of all eight; the counters of the health engine stay
below their thresholds.

*Health.* `StatusFollowsStreaks` is the refinement of `Hysteresis`: the status moves exactly when the last
`DowngradeSustained` verdicts were all worse than it or the last `RecoverSustained` all better,
and what the observer is told agrees. The abstract module has no counters, only the verdicts.
Bounds: one subject (subjects share nothing), thresholds 2 and 3
(`NewEngine` sets both to 2; two values tell the counters apart), `MinSamples` 2 where the engine has 20, one window too small, the others healthy,
busy (slow, or throttled) and degraded, each with and without a limited account, and five verdicts, which is
a full downgrade, a broken streak and a full recovery.

*Sessions.* `SessionsEnd` (action property): a session lets a request in only if it was issued by the
process that runs, nobody has logged it out, and it was used within its lifetime, in whatever order
other requests renew it, log in, log out, or wait between the judgement and their handler.
Bounds: two requests at a time, two session tokens, a lifetime of two ticks and a clock of four, so that
a session can be renewed and still run out. The comment of `handleSession` says that logging in takes the
admin key; a valid session is enough, as the guard decides and the handler does not look again.

*Migrations.* `SchemaSound`: the tables have seen migrations 1 to n, each once and in order,
`schema_migrations` lists exactly these, and whoever serves has all it knows behind it. Two processes may
both read version 0 and both run migration 1; the second one fails on what exists already.
Bounds: an older program (2 migrations) and two of the same newer one (4), in every order
and overlap, each dying anywhere and starting again. The version is looked at once, at the start: an older
program that serves goes on when a newer one migrates its file.

*Streams.* `SuccessMeansComplete`: a call is a success exactly if the stream ended regularly and
the end marker was in it. `ClientReadsUpstream`: the client reads the upstream's texts once, in
order, each chunk closed before the next, and at most one chunk that ends the reply.
The module keeps what the connectors do at the edges: OpenAI's looks for the characters `[DONE]` anywhere,
so a text that contains them counts as the marker; Anthropic's flag is set by a stop reason
only, so a `message_stop` without one closes the reply, which is still judged truncated; Gemini's
finish reason is noted and never becomes a chunk; the translators judge the flag
before the error, so a call that is refused with a status comes back as truncated, which is retried; and
what stands in the buffer when a stream ends or breaks at the end of a line is still handed on.
Bounds: three dialects, five events of five kinds, in the orders the platforms send.

*Messages relay.* `OneAccountAnswers`: all that the client reads is one account's, and if the
request is charged it is charged once, to that account. The loop knows as little of output as that
of the responses relay; here the property holds because the errors of a stream are not classified and so never retryable.
For the same reason the error body is written after the output, and a stream that breaks before its first event is
not failed over. A streaming reply is never charged (`StreamCompletes`).
Bounds: three accounts, any of which may be candidates, three events per stream.

*Administration.* `FirstRotationIsSafe`: as long as an account's credential was rotated at most
once, its row names an entry that holds the key with the recorded fingerprint, wherever the
rotation fails, is cut off, or meets the account's deletion. `HistoryProtects` (action property): an account that had usage when its
deletion began is not deleted, unless a count failed and was taken for zero; usage written between the count and the delete
is not protected by the code, and excused. What the code leaves open is in the actions:
`Verify` and `ActivateRotated` write a status whatever an administrator has decided since; `SavePolicy`
does not ask whether its accounts exist; an account with capabilities, models,
snapshots or a pool can never be deleted (nothing deletes those rows); the vault keeps the key of a deleted one.
Bounds: two handlers at a time, one provider, one account (accounts share only policies and
providers), one policy, two keys, and all of a handler's failures.

*Projects.* `TokenHasProject`: a token whose creation did not overlap the deletion of its project has its project.
The two checks stand in statements of their own, so the overlap itself is excused (`raced`): a token of a deleted project may remain.
Bounds: three handlers, two projects, two tokens.

*Billing.* `BillKeepsItsPrice`: the amount of a summary is the tokens times the prices in force when the attempts
began, however late it is asked and whatever versions have been added since, unless one was added whose date is not after theirs.
Dates are compared as text (`repository/repository.go:943`), and that of a price is any text but the empty one (`api/api.go:748`): `Time` is the
rank in the order of texts. A price dated with an offset, or in another layout than the attempts' UTC seconds, may stand where its instant
does not, so that in real time it counts too early or too late. The model sums by model; the code groups by provider, account, model and project.
A model all of whose attempts have no price makes the summary fail (the sum is NULL, `repository/repository.go:968`);
where some have one, the others cost nothing, without a word. Two versions of one model with the
same date are ambiguous. Bounds: two models, two attempts, two prices, two versions, two instants.

### Rotation (`MCServices_rotation.cfg`, expected violation)
`OldCredentialKept` is `api/api.go:495`: the old credential is kept until the new one is
accepted, and never overwritten. Every rotation of an account uses the entry with the suffix `-rot`, so from the second one on
the new key overwrites the one in use, and a refused key deletes it.

### Native events (`MCServices_sse_framing.cfg`, expected violation)
`NativeEventsUnchanged` is `api/anthropic.go:262`: native events are forwarded as they are. The
blank line between two events is cut off and never written, so the client sees one endless event.

## 4. Abstractions

* Tokens are their keys; hashing, encoding and constant-time comparison are left out.
* Messages are not modelled, only that output happened and by which attempt.
* An upstream call ends in one of a few causes, those the code tells apart.
* The account status `error` behaves as `disabled` does: both are "not active".
* Clocks are events (`Expire`, `ListenerTimesOut`): the check may come out either way.
* What a migration's statements create, a policy's candidates beyond the accounts they name, and the
  names, notes and audit events of administrators are left out.
* Rates and scores of a window are integers here: both sides of a comparison are multiplied by the number of
  samples, percentiles by a hundred. The code computes them as floating-point numbers; a window whose rate is exactly
  a threshold may come out differently where the threshold has no exact representation.
* A call of the model is used once. The number of calls bounds the behaviours; the
  counters (`at`, `retries`, `redeemed`) are bounded by it and need no bound of their own.
* Run ids are distinct, though they are nanosecond timestamps (`scheduler/scheduler.go:104`).

## 5. Theorems

The proofs assume only what the modules state as named assumptions on constants.

`TokenAccess_proofs`. `TypeCorrect`, `SlotAccountingHolds`, `ConcurrencyCapHolds`, for any
finite set of requests and any tokens, limits and whitelists. `SlotAccounting` counts
holders, so the proof needs that the set of holders is finite and how its cardinality
changes when one request joins or leaves; the lemmas before the theorems say so for each
action. `ConcurrencyCap` follows from the counter: a slot is only taken below the limit.

`ChatRelay_proofs`. `ReplyKeptHolds`: `Spec => ReplyKept`, the refinement, for any accounts,
policies, requests and failures. The invariant relates a request's position to its wire: before
a call begins nothing was streamed; whatever is written was written by the current
attempt, and only if something was streamed; the reply is open until `Reply`. It is needed
because `ReplyContract` permits output of one attempt only, and `Failover` looks at `streamed`,
not at what was written.
`AttemptsTellTruthHolds`, `UsageMatchesAttemptsHolds`, `FailoverExhaustsHolds`, `OutcomesAreFinalHolds`: the ledgers.
`LedgerInv` says of each row what it tells of its request (`RowTells`): rows of earlier candidates lie behind `at`, the row
of the candidate in hand is started until it is settled, and a row only says success or partial if the loop stopped there; of
the loop, why it stopped (`LoopTells`); and of a request none of whose writes failed, that it has the row of its last attempt
and the event (`LedgerTells`). What is in a queue, and in which order, plays no part in these.
`MonitorOnlyNeverTriedHolds`, `TriedByPriorityHolds`: the candidates. `QueueSound` follows them from the policy to the loop: what the filter
has let pass holds no monitored account (`Callable`), whatever changes between two of its looks, and from the sorting on
the queue is in the order of its priorities (`Sorted`), so that a later attempt never is on a better candidate. Both rest on the lemmas of `Selection_proofs`.
`TypeOKHolds` is the type invariant; its part about the two ledgers is `RowsTyped`.

`ResponsesRelay_proofs`. `ConversationAffinityHolds` and `BindingNeverMovesHolds`, for any requests,
accounts, policies, handles and failures. A request that continues a conversation has the bound
account as its only candidate from the lookup on (`BoundOnly`), the mode is checked before it
enters the loop, and a call is only made for a position inside the queue (`InRange`), which for a queue of
one is the first. That the binding is still the one looked up is the second theorem, used in the
first through `BindingKept`. `TypeOKHolds` adds the domains of what a call returns (`Domains`) and that
a call is only under way for a candidate the queue has (`CallsInRange`). `HandleKnownAfterReplyHolds`: a handler at its end has bound the handle or
failed to (`HandleKnown`), and a binding that is there stays. `UsageTellsWhoAnsweredHolds`: a call that succeeded has written its event before the
binding and the end of the reply, and no event follows it (`AllCharged`).

`RefreshScheduler_proofs`. `TypeCorrect` and `SingleFlightHolds`, for any calls and keys. The
invariant `ClaimsExclude` ties each call past the claim to its key in `inflight`, and two calls with
one key to each other. The table does not occur in it: single flight holds however many of its accesses
fail, which is why `CheckRow` may treat a failed read as "no such row". On it rests what the table says
(`RunningRowHasRunHolds`, `RetriesCountFailuresHolds`): `TableInv` adds that the row of a run under way
names it and says "running", as no other call of its key is past the claim, and that a call about to start has read
the count the row has.

`TokenRefresh_proofs`. `OneRefreshAtATimeHolds`, for any requests: whoever leads is the one `inflight`
names, as `Lead` tests and sets it in one step and only `Release` of that leader and a restart clear it.
`RefreshTokenUsedOnceHolds`, `ReauthIsDeservedHolds`: the invariant `Clean` speaks of runs in which nothing
has failed half way. Then every token in the vault is the one the platform accepts, except in the entry that the one
leader is about to delete, and no two entries hold the same token. So what a leader loads, by however old a reference, is accepted:
an entry replaced since is gone and loading it fails without a request. The platform has nothing to refuse, and no account is marked but by a revocation.
`TypeCorrect` is proved first, as the argument needs generations to be numbers.

`OAuthFlow_proofs`. `StateRedeemedOnceHolds`, `AccountsHaveTokensHolds`, `CompletedFlowHasAccountHolds`,
for any flows and completers, from one invariant: from its redemption a state belongs to one
completer (`OwnersApart`), which alone stores its tokens, makes an account of them or takes them
back; while it may still take them back there is no account of them (`OwnersHaveTokens`). `TypeCorrect` gives the types of flows, completers, vault and accounts.

`Selection_proofs`. `RankedIsOnly`: `Ranked` is the one list of a finite set of positions that is in order and complete. The number of positions up to
a given one tells two positions apart, so counting them is an injection into 1 to n, and by the pigeonhole principle a bijection. From it follow what a filter keeps
(`KeptMembers`), that a stable sort is a permutation in order (`StableSortSorts`), and what appending to a sequence does to a filter of it (`PlacesGrow`).

`Services_proofs`. Each theorem is about its own module's specification; `PropertiesOfParts` and `ServicesTypeOKHolds` are about the sum, whose
steps are steps of one part in which the others stand still (`PartsRun`, `SpecsOfParts`).
`StatusFollowsStreaksHolds`, the refinement, and `EngineTypeCorrect`, for any windows, thresholds
and number of verdicts. The invariant (`EngineInv`, by `Tails`) says what the counters stand for: `downgradeCount` is the length of the
longest tail of the verdicts that is worse than the status, `recoverCount` of the longest that is
better, as far as they were not yet acted upon; so a counter reaches its threshold exactly when the abstract streak does. How windows are scored
enters only through `VerdictIsStatus`.
`SchemaSoundHolds`: the invariant `MigrationInv` adds that nobody has seen more than there is, and that who is inside a transaction
holds the write lock and has seen everything; a commit then appends the next version.
`SessionsEndHolds`: a session that is stored was issued, not logged out, and expires a lifetime after its last
use (`SessionInv`), which is what `Valid` tests.
`TokenHasProjectHolds`: a creation past its check has its project, or a deletion of it came in between, which is recorded.
`FirstRotationIsSafeHolds`, `HistoryProtectsHolds`: `AdminInv` ties each handler to the account it has read. A first
rotation is the only one under way and its entry is not the one in use until the switch (`RotationInv`); usage only grows, so the
count of a deletion that began with usage finds it, unless it fails (`HistoryInv`).
`SuccessMeansCompleteHolds`: while a stream runs the flag says whether the marker has come (`StreamInv`).
`ClientReadsUpstreamHolds`: while a stream runs what was written ends with a blank line, and a chunk that ends the reply is there only if an
event that ends it has come (`ReadsInv`), after which the platforms send nothing but `message_stop`, which the flag keeps from closing the reply again; each event
adds a text to what the client reads exactly if it adds one to what upstream sent (`EventWritten`, `TextsGrow`).
`BillKeepsItsPriceHolds`: a version dated after an attempt began is none of those that `PriceAt` looks at for it, and one that is not is recorded in `redated`; for every
other attempt a summary finds the prices of its beginning (`PriceStands`), and then sums the same function.
`OneAccountAnswersHolds`: nothing was passed on before a call brings output, what was is from the candidate in hand,
and a call that has passed something on never ends retryably (`MessagesInv`).

Every invariant, refinement and action property of the passing runs is stated by a theorem. Only model-checked are the liveness properties
`RevocationDrains`, `SlotComesBack`, `RequestAnswered`, `ClaimComesBack` and `WaiterWakes` (fairness and `ENABLED` are out of the provers' reach), and the five
properties the code violates, where a counterexample is all there is to show.

## 6. Not modelled

* Translation of request and reply bodies between dialects, parsing, routing of paths, formatting of errors,
  logging, redaction, configuration: data without protocol state. `ChatStream` has what the translation of a stream keeps and drops.
* Quota: `quota.Service` appends snapshots and computes their freshness when they are read; the server never
  calls `RecordObservation`, and nothing decides by a snapshot. Only that its rows keep an account from being deleted is in `Administration`.
* Statements (`usage/billing.go`, `usage/reconcile.go`): arithmetic over imported rows, run by `cmd/billingcheck` alone.
* The refresh that a capability check may start: after a rejected one it still reports OAuth as
  supported, from the snapshot it took before (`accounts/accounts.go:104-121`).
* The wait computed by the scheduler's backoff: it is stored in `next_run_at`, and nothing runs by it.
* `health.Thresholds`: declared and never read; the thresholds the code uses are in `Classify`.
* The web console, the build scripts and the command line tools: clients and one-shot programs.

Next proofs: that a queue holds every candidate the filter lets pass and keeps the policy's order among equal priorities, for which `KeptMembers`
and `StableSortSorts` are the lemmas.
