# Verification of the AgentChains marketplace

TLA+ models of the marketplace backend (`marketplace/`), checked with TLC, and
theorems about them checked with TLAPS.  `PROJECT.json` maps every definition
to the lines it stands for and lists runs, hazards, findings and theorems.

To check a run: `tlc -config Deposits.cfg Deposits` (module and configuration
as in `PROJECT.json`).  To check the proofs of a module, say of `Ledger`:
`tlapm LedgerProofs.tla`.

- [1. The system](#1-the-system)
- [2. How the models are cut](#2-how-the-models-are-cut)
- [3. The modules](#3-the-modules)
- [4. The runs](#4-the-runs)
- [5. What is proved](#5-what-is-proved)
- [6. Where code and documents disagree](#6-where-code-and-documents-disagree)
- [7. What is not modelled](#7-what-is-not-modelled)
- [8. Plan](#8-plan)

## 1. The system

A FastAPI application in one or more processes over one PostgreSQL database
(SQLite in development).  Agents publish data and actions, buy from one another
with dollar balances kept in an internal ledger, put money in through Stripe
Checkout, take it out through redemptions and a monthly payout, subscribe to
plans, and run workflows of agent calls.  State lives in database rows; nothing
but caches, rate limits and open sockets lives in memory.

A request handler is a coroutine with a database session of its own; every
`await` is a point where other handlers run.  Background loops (demand
aggregation, cache decay, hourly payout, retention) are started by `main.py`.
Stripe calls back with webhooks, repeatedly and in any order, until it gets a
2xx.  A process can die at any point; PostgreSQL then rolls back what was open.

The components (those in bold are modelled, in whole or in part), with their state,
operations, what makes them hard, and what makes them correct:

| Component | State | Operations | Hard because | Correct when |
|---|---|---|---|---|
| **Token ledger** `token_service` | balances, hash-chained entries | transfer, deposit, debit_for_purchase, royalty, create_account | concurrent calls on shared rows, retries, lock order, rows read before they are locked | no overdraft, one posting per key, a hash chain that never forks, no deadlock, balances = entries |
| **Deposits** `deposit_service`, `wallet`, Stripe webhook | deposit status, ledger key | create, confirm, cancel, signup bonus | confirmation spans two commits; owner and webhook race; redelivery | credited once, paid means credited, completion final |
| **Redemptions and payout** `redemption_service`, `payout_service` | request status, hold, credit row | create, cancel, approve, reject, batch, monthly payout | stale reads, status transitions without a check, two commits | money and status agree, nothing is held twice |
| **Orchestration** `orchestration_service`, `budgets` | execution and node status, cost | execute, pause, resume, cancel | the runner and its callers write one status from stale reads; layers, cycles, budget | dependencies first, approval gates, runs end |
| **Purchases** `transaction_service`, `express_service` | transaction status, ledger key, access count, order | initiate, confirm, deliver, verify, express buy | unlocked reads, several commits per purchase | completed means paid |
| **Subscriptions** `billing_v2_service`, `v2_billing`, webhooks | subscription rows, Stripe's own | subscribe, checkout, change, cancel, webhooks | events out of order and again; two sources of truth | paid plans are paid for, payments are not forgotten, cancellations stay |
| **Event delivery** `event_subscription_service`, `main`, `core/events` | subscription status, failure count, delivery rows, open sockets | register, delete, dispatch with retries, connect, broadcast | broadcasts walk a set that changes under them; fan-outs keep a row over HTTP calls and sleeps and write a count they read earlier; deletion and re-registration meanwhile; lost at a restart | a subscription is paused only for failures it had, every fan-out ends |
| **Queued webhooks** `webhook_v2_service`, `servicebus_service` | queue, attempts, dead letters | enqueue, process, retry dead letters | at-least-once queue, several commits and calls per message, ignored send results | no event silently lost |
| **OpenClaw and seller webhooks** `openclaw_service` | webhook rows | register, delete, test, dispatch | as event delivery; retries die with the process (docs/known-issues.mdx:352) | paused only for failures it had |
| **Chains and settlement** `chain_*` | templates, executions, provenance; ledger keys per node | publish, fork, execute, settle | settlement is a series of separate commits, may run twice at once | "settled" means each completed node is paid, once |
| **Action execution, WebMCP** `action_executor` | execution row with held / captured / released | execute, cancel | cancel races with execute, columns written from stale rows | the funds go with the outcome |
| **MCP federation, health monitor, circuit breaker**, MCP server | server health, breaker state; sessions | tool calls, health checks, routing | health written absolutely by several writers; half-open slots of the breaker | cut off only for failures, a recovered circuit closes |
| **A2A task servers** `agents/a2a_servers` | in-memory tasks, update queue | create, update, cancel, stream | an outcome the state machine does not allow, a cancellation or a client that leaves while the skill runs | no stream begins to wait for a task that nobody will end |
| **A2UI sessions** `a2ui/*`, `a2ui_service` | in-memory sessions, pending inputs | connect, request input, resolve, close | an answer beside a timeout, a cancellation, a close | an acknowledged answer reaches the call |
| **Accounts and credentials** `token_revocation`, `oauth2/server` | agents, creators, keys, revoked tokens, grants | register, login, exchange, refresh, revoke | Redis fails or forgets; seconds; exchanges read without a lock | a revoked token is refused, a grant has one live pair |
| Audit and security events | hash-chained audit rows | log, export, delete | the chain is extended without a lock | |
| **Listings, builder projects**, catalog, demand, matching, routing, search | rows of one owner, a cache of shared objects | CRUD, publish, scoring | a cached object belongs to another request's session; publishing is four commits | an update answered as done was stored; a project is listed for good |
| **Agent and listing trust**, reputation, verification, proofs | stages, scores, receipts, jobs | attest, challenge, verify, recompute | overlapping requests write the columns that differ from what each read | the row is right again after the next request |
| **Content storage, CDN, caches** | files, size-bounded caches | put, get, evict | a write cut short, reads in threads, limits | what is served is whole, sizes stay within bounds |
| **Rate limits** `rate_limiter`, middleware | a count and a start per key | check, clean up | windows that do not slide | less than twice the limit in any window's length, none refused early |
| **Memory** `memory_service` | snapshots in chunks; shares, embeddings | import, verify, share | stored chunks lost, repeated, exchanged, damaged | a verified snapshot is the imported one |
| Payment gateways, reconciliation, invoices | invoices | pay, reconcile, void | | |
| Dashboards, analytics, model layer, plugins, GraphQL, gRPC, evaluation | | mostly read-only or adapters | | |
| **A2UI client** `frontend/src/lib/a2ui.ts` | socket, retries, timers, heartbeat | connect, disconnect, reconnect | callbacks of a replaced socket; a retry that is pending at the disconnect | one connection; it gives up only after its retries |
| Front end otherwise, SDKs, sample agents, infrastructure, scripts | | clients and deployment | | |

How they interact: Purchases, Deposits, the signup bonus and chain settlement call the
ledger, and the ledger's `commit()` also ends *their* transaction and releases *their*
row locks - most of what is hard here comes from that. Redemptions and the payout
write `token_accounts` and `token_ledger` rows themselves, beside `token_service`,
without the treasury's lock and without hashes.  Every service announces what it did
through `core/events` to WebSockets and webhooks, after the fact and without effect on
its own state.

## 2. How the models are cut

- **A session** is a handler with a `pc`.  One step is what happens between two
  points at which another handler can run *and matter*: a SELECT, a statement
  that waits for a row lock, a commit.  Awaits between which nothing shared is
  touched are merged.
- **PostgreSQL, READ COMMITTED.**  A plain SELECT sees what is committed; an
  UPDATE and `SELECT ... FOR UPDATE` wait for the row.  Waiters are queued.
- **The identity map** of an `AsyncSession` (`expire_on_commit=False`) is
  modelled wherever a handler uses what it has read before: a second SELECT of
  a loaded row, the locking one included, does *not* refresh the object; an
  UPDATE is sent only for attributes whose value differs from the loaded one;
  pending changes are flushed before the next query.
- **A crash** drops a session's uncommitted work and its locks; callers may try
  again.
- **Left out** in all modules: authentication, wording, pagination, and time stamps and
  metadata on which no step depends.  Amounts are small integers; the rates are operators
  given as constants.

The ledger is opened up only in `Ledger`.  Elsewhere a ledger call is one step
with the interface that `Ledger` establishes: a row under a unique key, which
commits the caller's transaction.  Two things in that step are more than what
`Ledger` proves: that the balance check and the entry are atomic, and that no
update is lost (it can be, see section 6); the modules that use it count
entries, not balances.

## 3. The modules

**`Ledger`** (`token_service.py`, and of `redemption_service.py` the withdrawal and the
refund that write the same tables).  `balance` and `ledger` are committed rows; `seen[s]`
is what session s has loaded, `held[s]` the row locks it holds, `draft[s]` the entries it
has added and not committed, `unsent` and `replies` the caller's side.
A payment goes through `Begin`/`Replay` (idempotency check), `Resolve` (plain
SELECTs of the accounts), `Lock` (row locks in id order), `Apply` or `Refuse`
(balance check), `LockCreator` (the royalty's account, locked out of order),
`Commit` or `Conflict` (unique key).  A withdrawal (`create_redemption`) locks the
creator's row alone; a refund (`cancel_redemption`, `admin_reject_redemption`) reads it
without a lock, and its UPDATE waits for the row (`Flush`).  Which requests have been
cancelled or approved is the matter of `Redemptions`.  `Crash` may end a call anywhere.
An entry has a `created_at`, given out by one `clock` as it is added - two entries of one
instant, and clocks that differ between processes, are left out -, and a row's hash is
named by it: `LatestHash` is the hash of the newest row, none if that is a withdrawal's or
a refund's.
**`Bank`** is the abstract specification: one step per posted request, in full or
not at all.  `MCLedger` gives a small marketplace: two agents trading in
opposite directions, the creator of one, who withdraws and is refunded, the treasury, and
ids so that sorting matters.

**`Deposits`** (`deposit_service.py` and its callers).  `status` and `credits` are the
deposit's row and the ledger rows under its key, `lock` its row lock, `event` Stripe's
event, "open" from the start where a checkout was made (`Create`) and never where the
owner's call confirms the deposit at once (`CreateAndConfirm`).  `Select`, `Credit`,
`Complete` are the three parts of `confirm_deposit`: locking read, the ledger's
commit, which gives the lock away, and the second commit; `Reject` and `Conflict` are
its error paths.

**`Redemptions`** (`redemption_service.py`, `payout_service.py`).  One creator's
balance, API credits and requests; `mem[s]` is what a session has loaded.
Entries of the ledger are kept as debits and refunds per request, so that
"money moved" can be compared with "row says so".

**`Orchestration`** (`orchestration_service.py`, `core/budgets.py`).  One
execution: the runner, its nodes (concurrent within a layer), the callers of
pause, resume and cancel.  `own` is the runner's view of the status, refreshed
between layers only.  The topological sort is `Layers`, a recursive function.

**`Purchases`** (`transaction_service.py`, `express_service.py`).  Transactions
with status, payment method, delivered content, the debit's ledger row, the
listing's access count; express purchases with their row and order.

**`Subscriptions`** (`billing_v2_service.py`, `v2_billing.py`, `webhooks.py`,
checkout in `stripe_service.py`).  `rows` are the database's subscriptions,
`stripe` Stripe's own, `sent` and `acked` the events.  The customer paying, a
charge failing or succeeding, and Stripe ending a subscription are environment.
The handler of `customer.subscription.created` takes agent and plan from the metadata of
the subscription, and answers 200 and does nothing without them.  `Labels` says which
subscriptions carry them: the checkout of this code sets the metadata of the Session, not
of the subscription, so that its own never do; those made elsewhere, and those of the
tests, do.  A plan may be in both `FreePlans` and `PaidPlans`, as the price is looked at
per billing cycle.  The flag `cancel_at_period_end`, which nothing acts on, is left out.

**`MCServices`** puts the modules below side by side in one model: they share no
state, so the initial states choose the service that moves (`part`), the others
stay as they start, and the states are the union of theirs, not the product.
Its properties are conjunctions, one conjunct per service, each stated and
commented in its own module.

**`EventDelivery`** (`event_subscription_service.py`, `main.py`).  `subs` are the
rows, `fan` the background tasks with what each has read, `deliveries` the rows
of attempts.  PostgreSQL's locks are part of it: an inserted delivery holds its
subscription FOR KEY SHARE, an UPDATE FOR NO KEY UPDATE (`MayUpdate`, `Sharing`,
`Updating`), from the first attempt over the sleeps to the commit; a delivery to a
subscription deleted meanwhile fails on its foreign key and ends the fan-out.
**`OpenClaw`** (`openclaw_service.py`) is the fan-out without such locks: counts
read at the start, a commit per webhook.
**`LiveFeed`** (`main.py`) is what comes before both in `broadcast_event`: the two
WebSocket feeds, whose sets of viewers a broadcast walks with an await per viewer.
Python raises at the next step of the walk when the size has changed (`Resized`); with
as many viewers but others (`Swapped`) the walk may skip, end or raise, and all are
allowed.  Who is a target of a private event is a set of viewers.

**`QueuedWebhooks`** (`webhook_v2_service.py`, `servicebus_service.py`).  The broker's
queue with locks that expire, attempts, dead letters, replays; sends, completions
and the worker may each fail.  A pending attempt is committed (`Record`) before its message
is sent (`Enqueue`), so that a crash between leaves one that nobody sends.

**`Revocation`** (`core/token_revocation.py`, `core/auth_unified.py`).  The table, Redis
(down at any call, forgetting keys), each process's own set, and the checks of
`_decode_jwt` one by one; the clock ticks in half seconds, `iat` is whole.  Only what
`_decode_jwt` lets in is meant: `core/auth.py` and the decoders of creators and of users
look at no revocation.  Rows of revocations stay, as nothing calls `cleanup_expired`.
**`OAuth2`** (`oauth2/server.py`) has codes, access and refresh tokens, the exchanges
under way and what each has read.

**`Chains`** (`chain_registry_service.py`, `chain_settlement_service.py`).  Requests,
executions with their background task and the status it copies (`Outcomes`: paused and
cancelled ones too), settlements node by node over the ledger's interface.
**`ActionExecution`** (`action_executor.py`): the three commits of an execution and
the cancellations between them, each on the row it read.

**`A2ATasks`** (`agents/a2a_servers`): tasks, the queue of updates that the one stream of a
task, the response of its `tasks/sendSubscribe`, takes from, the state machine that drops
what it does not allow, clients that disconnect.  **`A2UISessions`**
(`a2ui/session_manager.py`, `a2ui_service.py`): the futures that calls wait for, and
what the user and the clock do to them.
**`A2UIClient`** (`frontend/src/lib/a2ui.ts`) is the browser's end: the sockets it has
made with their ready states, and each callback as an action.

**`RateLimits`** (`core/rate_limiter.py`): one bucket per key; `recent` remembers what
was let through by its age, as long as a window lasts.

**`Federation`** (`mcp_federation_service.py`, `mcp_health_monitor.py`): scores that
routed calls, refreshes, health requests and the monitor write from rows read
before their calls.  **`CircuitBreaker`** (`circuit_breaker.py`): the lock is given up
between the look at the state and what follows from it.

**`CachedRows`** (`listing_service.py`, `registry_service.py`): a cache of ORM objects;
`objects` says per session what was loaded and what the object says now.
**`Publishing`** (`dual_layer_service.py`): the four commits of publishing a project,
with calls and crashes between them.  **`ContentCache`** (`hashfs.py`,
`cdn_service.py`, `cache_service.py`): files by length, the hot cache with the bytes it
counts, its budget and promotion, the warm cache; reads in threads.

**`AgentTrust`** (`agent_trust_service.py`) and **`ListingTrust`**
(`trust_verification_service.py`): each request writes the columns that differ from
what it loaded, so that overlapping ones leave a row that none computed.
**`Snapshots`** (`memory_service.py`) with **`Merkle`**: chunks, their hashes and the
root, and rows that get lost, repeated, exchanged or damaged.  A hash holds the text it is
computed from, of a leaf and of a node alike (`Hash`): the code puts no prefix before
either.  A node's text is the digits of two hashes; a chunk's is the JSON of a list, which
begins with a bracket.

The theorems about a module `X` are in `XProofs`: of `Ledger`, `Deposits`,
`Redemptions`, `Orchestration`, `Purchases` and `Subscriptions`; those about all services
are in `ServicesProofs`, which extends `MCServices` and has a section per service.  `Sums`
has the lemmas they share: induction over the naturals and over finite sets, and what
sums over finite sets do when an element comes, goes or changes.

## 4. The runs

| Run | Asks | Bounds, and why they are enough |
|---|---|---|
| `ledger_concurrent` | overdraft, double posting, forked chain, unlocked writes, deadlock, termination | Two sessions; five requests each once (two opposite purchases, a deposit, a withdrawal and its refund), or a keyed purchase and a keyed deposit each twice: two sessions make every race of a pair and every lock cycle of two; LedgerProofs covers any number. The royalty is 100 %, so that all of a sale can leave the seller. |
| `ledger_serial` | double entry; refinement of `Bank` | One session, the five requests, two of them sent twice, with crashes; an unkeyed one. Neither holds with two sessions (next run). |
| `ledger_lost_update` *(violation)* | double entry with two sessions | |
| `deposits` | single credit, final completion, paid means credited | One deposit - deposits share nothing - three sessions, so that a confirmation, a redelivery and a cancellation meet, two crashes. |
| `deposits_stuck_event` *(violation)* | that Stripe's event is acknowledged in the end | One crash. |
| `redemptions` | entries, rows, holds and statuses agree | Three requests (two API credits, one cash), amounts 1-2 of 3 so that two requests can exceed the balance, four calls, two sessions, a crash, a royalty. |
| `redemptions_payout_race` *(violation)* | no double hold | Payout and one withdrawal. |
| `orchestration` | dependencies, budget, approval, termination | All 1024 graphs over three nodes with a doubled edge, cyclic ones too; a budget two nodes exhaust; two callers, two calls. |
| `orchestration_resume` *(violation)* | a resumed run goes on | A chain of three with an approval. |
| `purchases` | completed and ordered means paid, charges are counted | Two step-by-step purchases and an express one compete for a balance that pays one; six calls, a crash. |
| `subscriptions` | paid plans paid for, links, cancellations, activation | A free plan and a paid one, two checkouts, two API calls, three changes at Stripe, one repetition beyond what an unacknowledged event gets, one crash; subscriptions with and without metadata. |
| `services` | what `MCServices`' properties say of each service, see below | Per service, below. |

| In `services` | Asks (conjunct of) | Bounds; what passed alone with larger ones |
|---|---|---|
| `EventDelivery` | paused only for failures (`PausedHadFailures`); fan-outs end (`WorkEnds`) | Two subscriptions, two fan-outs of three events, two tries. One registrar: with two, one URL gets two rows. |
| `OpenClaw` | paused only for failures (`PausedHadFailures`) | Two webhooks, two fan-outs of three, two registrations; four and three (277 thousand states). |
| `LiveFeed` | broadcasts reach the connected and the webhooks unless others came or went (`NothingLost`) | Three sockets, two broadcasts, a limit of one that two connections exceed together; two scoped sockets and a limit of two (115 thousand). |
| `QueuedWebhooks` | nothing lost (`NothingLost`) | One worker with a batch of two, two attempts, three messages; two workers (5.7 million). |
| `Revocation` | verdicts (`VerdictsAreRight`) | Two tokens, two processes, three requests, two seconds. |
| `OAuth2` | one live pair (`VerdictsAreRight`), an ended grant stays ended (`WorkEnds`) | One code, three pairs, two exchanges; two codes, four pairs (357 thousand). |
| `Chains` | settled means paid, once (`SettledMeansPaid`) | One execution of two priced nodes, two settlements; two executions (6.6 million). |
| `A2ATasks` | no stream begins before its task is over (`NothingLost`) | One task; tasks share nothing. |
| `A2UISessions` | answers reach the call (`NothingLost`) | Two inputs; three (13 thousand). |
| `A2UIClient` | one connection (`LimitsHold`) | Four sockets, two retries. |
| `RateLimits` | less than twice the limit (`LimitsHold`) | Two keys, a limit of two, windows of two ticks, clean-ups after three, six ticks: three windows, two clean-ups. |
| `ActionExecution` | funds go with the outcome (`OutcomeMatchesPayment`) | Two executions, two cancellations. |
| `Federation` | out only after failures (`LimitsHold`) | One server, one request beside the monitor, four failures; two requests. |
| `CircuitBreaker` | counts in a row (`LimitsHold`), closes again (`WorkEnds`) | Three threads, threshold two, two probes, three failures. |
| `CachedRows` | done is stored (`NothingLost`) | Two requests, three values; three and two (374 thousand). |
| `Publishing` | listed for good (`NothingLost`) | Two projects, two calls at once, three in all. |
| `ContentCache` | whole unless cut (`NothingLost`), within budget (`LimitsHold`) | Two contents, of one and two bytes for a budget of two, a publisher, two readers, four reads; two publishers (255 thousand). |
| `AgentTrust` | the next attestation repairs (`VerdictsAreRight`) | Two sessions, three requests with extreme scores; four (71 thousand). |
| `ListingTrust` | one job shows (`VerdictsAreRight`) | Two requests at once, three in all. |
| `Snapshots` | verified is imported (`VerdictsAreRight`) | Up to three chunks of three kinds, one fault, two verifications. |

Two of a kind are enough where a race is between two; where the code has a
threshold, the instance has one more.

Bounds are constants named `Max...`; they cap counters in guards only.
`CHECK_DEADLOCK FALSE` is used where the calls or the environment's changes run
out and the system may stop; in the others every state has a successor.

**Fairness.**  A handler runs on: weak fairness of each session's steps (asyncio
schedules ready coroutines in turn).  Where a step takes a row lock that others take
and release, strong fairness in `Deposits`: PostgreSQL queues the waiters. `Ledger`
needs only weak fairness: in the bounded model a row that is waited for is taken by
others a finite number of times.  Stripe sends an unacknowledged event again: strong
fairness of its delivery.  In `services`, the tasks of fan-outs and the callers of the
breaker go on (weak fairness: the event loop, or the threads, keep running), and time
passes for the breaker; that each allowed call of the breaker is recorded is an
assumption on its callers, of which this code has none.  The health monitor's loop has
no caller and gets no fairness.  Crashes, customers and API calls are never fair; they
are bounded, because a handler that always dies promises nothing.

**Mutants.**  For each property of a passing run `PROJECT.json` names a mutant,
marked `\* mutant` in the module: a definition that a plausible bug would turn
another one into, and under which the property fails in that very run.

## 5. What is proved

For any number of sessions, accounts, requests, deposits, purchases, calls and crashes:

- `LedgerProofs`: `TypeCorrect`, `HashChain`, `PostedOnce`, `LockedWrites`,
  `DeadlockFree`.  From the assumptions of `Ledger` on its constants only: the
  accounts are finitely many and totally ordered, fee and royalty lie between
  nothing and the whole, a creator's account is no agent's and only creators withdraw.  All
  five follow from one invariant, `IInv = TypeOK /\ LoadInv /\ LockInv /\ DraftInv /\
  StampInv /\ LinkInv /\ ChainNeverForks /\ OncePerKey`: what a session has loaded
  (`LoadInv`) and locked (`LockInv`) at each point of its call, what it has drafted
  (`DraftInv`), that every row has its own time stamp (`StampInv`), and that a draft
  continues the chain of the committed rows as they are now (`LinkInv`).
  `ChainNeverForks` alone is not inductive: it holds because every payment locks the
  treasury's row before it reads the latest hash, so that no other payment is written
  until it commits.  Withdrawals and refunds do not take that lock and may be written in
  between; they have no hash, and so cut the chain without making it fork.
  Deadlock freedom is an argument on the largest id waited for.  A creator's row is
  locked out of order, and is waited for by payments that hold the treasury's, by
  withdrawals and by the UPDATEs of refunds; but whoever holds one waits for nothing
  further.
- `DepositsProofs`: `TypeCorrect`, `NeverCreditedTwice`, `CompletionIsFinal`.
  `CreditedOnce` is not inductive: `IInv` adds, per handler, that it holds the
  row lock up to the credit and up to a cancellation's write, that the status
  is then still pending, and that after the credit's commit, which released the
  lock, the credit is there.
- `PurchasesProofs`: `TypeCorrect`, `CompletionIsPaid`, `OrderIsPaid`.  The
  invariant adds what a handler knows of its transaction between its commits
  (a verified one is charged before it is counted; an express one is not yet
  inserted while it is being charged), that a transaction initiated step by
  step is never a simulated one, and `Alone`: nobody else knows the id of an
  express purchase.  The late writes of `deliver` and `confirm` do no harm to
  these, as they never write "completed".
- `RedemptionsProofs`: `RedemptionsTypeCorrect`, `RedemptionsHoldIsFresh`,
  `RedemptionsStatusHasEffect`, from the assumption that amounts and the opening
  balance are natural numbers and the least payout is positive.  `IInv` adds what a
  session knows at each place: `create_redemption` has loaded nothing before it
  locks, so that under the lock it sees the committed balance; the payout brings
  an old balance along and is exempt.  Only a debit needs the lock; that a status
  has its effect does not depend on it, since an effect is never undone.
- `SubscriptionsProofs`: `SubscriptionsTypeCorrect`, `SubscriptionsPaidPlanWasPaid`,
  `SubscriptionsLinkedToItsPlan`, `SubscriptionsCancelledStays`.  The assumptions: the
  null value is no plan, and the bounds are numbers; a plan may be free by the month and
  paid by the year (`PaidPlanWasPaid` speaks of those that are never free).  A webhook
  writes over a row it read without a lock, so `IInv` has to say what is still true of
  that row when it writes: it is of the plan of the event (plans of linked rows do not
  change), and if it waited for payment it still does or has been linked.  Every event
  that Stripe sent is of a subscription that was paid.  The last theorem is an action
  property and follows from the same invariant, one step after the other.
- Sums of the ledger: `FreshCommitsMatch` and `SerialCallsMatch` (`BalancesMatchLedger`),
  `FreshCommitsImplementBank` and `SerialCallsImplementBank` (the refinement of `Bank`,
  whose initial states and steps the calls map to), in `LedgerProofs`.  Neither holds of
  every behaviour - section 6 has the lost update -, so each is stated twice: for the
  behaviours in which no session commits on a row that it read before it locked it, and for
  one session, which is the case of the run `ledger_serial`.  The invariant says that the rows a
  session is about to write are the committed ones changed by the amounts of its own call.
- `RedemptionsBalanceMatches`, `RedemptionsCreditsMatch` and `ChargesCounted`: entries
  and rows agree unless an update was overwritten, and charges exceed accesses only by
  handlers that are still to count, or that died.  The sums and the cardinalities in them
  change by one element a step.
- `OrchestrationProofs`.  `SortIsSound` and `OnlyCyclesAreRefused` are about Kahn's loop
  (`Rounds`, `Layers`) for every graph: the layers are disjoint and each node lies behind what it
  depends on; a node that is left out depends on another that is left out.  The loop
  is shown to end by the nodes that are left, one fewer a round at least.  From the
  first one and `RunInv` - all nodes of the layers before the current one have completed, none of
  a later one has begun, and what they cost stays below the limit - follow `RunTypes`,
  `DependenciesComeFirst`, `CompletedRanAll`, `OverspendBounded` and `ApprovalsHold`.
- `ServicesProofs`, about the specification of `MCServices`: `ServicesTypeCorrect`,
  `ServicesPausedHadFailures`, `ServicesNothingLost`, `ServicesVerdictsAreRight`,
  `ServicesSettledMeansPaid`, `ServicesOutcomeMatchesPayment`, `ServicesLimitsHold`, and
  `EndedGrantsStayEnded`, the conjunct of `WorkEnds` that is no liveness.
  In every step of `Next` a service does a step of its own or none (`...Steps`), so that
  what is proved of each service (`...SpecInv`) holds in all behaviours.  The assumption
  is `ServicesAssumption` of `MCServices`, which TLC evaluates for the run: bounds and
  thresholds are numbers, the sets that are counted are finite, the null value is none of
  those it stands for, and a bucket of the rate limiter is not cleaned up while its window is open
  (`StaleAfter >= Window`; 600 and 60 seconds in the code).  What the invariants add, per service:

  | Service | Why the property is not inductive, and what makes it so |
  |---|---|
  | `Chains` | A settlement works from the nodes it read at the start: an execution that has not ended has no completed nodes, one that has does not change (`ChainsCompletedIsFinal`), and each node a settlement is done with is paid unless a transfer failed. |
  | `ActionExecution` | A commit writes the columns that differ from what was loaded: a view that has the funds released is never stale, and nothing is captured before the second commit. |
  | `QueuedWebhooks` | What keeps an event is the *last* message sent for it: a worker completes a message only when its event is final or a later one was sent; expired locks and replays change nothing in this. |
  | `EventDelivery`, `OpenClaw` | The count that a fan-out has read, plus what it did since, stands for failures that have happened, though others have written the row. |
  | `Federation` | What a request or the monitor has read of a server, and what it will make of it, is backed by failures the server had. |
  | `CircuitBreaker` | Successes are counted only while it is half-open, and never more failures than there were. |
  | `CachedRows` | The object a request loaded had the row's value while the request was at work, and what it sets stays in it unless another sets it too. |
  | `ContentCache` | The bytes that the hot cache counts are the sum over what it holds, which an eviction brings down by the sum over what goes (`Evicted`); who reads or writes a file has a key that was put. |
  | `LiveFeed` | Whoever was there at the start of the walk and is still there was told or will be, unless the set changed. |
  | `Revocation` | A verdict still open knows only of revocations asked for; what Redis and the processes remember is in the table or will be. |
  | `OAuth2` | A grant none of whose tokens was read twice has one thing to go on with: its code, an exchange under way or one pair. |
  | `AgentTrust`, `ListingTrust` | What a request loaded is the row unless another overtook it. |
  | `Publishing` | A published project that is at rest is not listed again, and an agent without account has a call to give it one unless that call died. |
  | `Snapshots` | What a verifier has read is judged against the root of what was imported.  Then `RootsTellTheChunks`: trees of chunk hashes with one root agree, level by level downwards, and have the same height.  Leaves and nodes are hashed alike, so the height rests on what is hashed: a chunk is the JSON of a list and never the digits of two hashes.  `RootsTakePairsForNodes` is the other side: a text that is such digits, as a piece of a content in `zkp_service.py` may be, has the root of the two texts. |
  | `RateLimits` | An open window counted all that it let through; of what passed before it, less than the limit is as recent as a window is long (`Open`, `Shut`). |
  | `A2UISessions`, `A2UIClient`, `A2ATasks` | The future of an input and its call agree; one socket at most is not closed; how far a call is says what its task has. |

**Induction over data.**  The library's induction theorems take an operator, which none
of the provers can instantiate.  `Sums` states them with a *set* instead: a set of naturals
that has 0 and with n also n + 1 is all of them (`NumberInduction`), likewise for finite sets, and
a recursive function (`Levels`, `Rounds`, a sum) is unfolded after its
existence has been proved by such an induction.  This reaches sums, graphs and trees
of any size; no operator is declared RECURSIVE.

**What proving changed in the models.**  Overlapping guards in a CASE are a choice that
the code does not have: `Attempt` of `QueuedWebhooks` and `Succeeded` of `CircuitBreaker`
now have exclusive ones.  `Merkle` has a recursive function, `RateLimits` sums with the
library's fold, and records are written out where several fields change.  No run
found more or fewer states for it.

Model-checked only: the liveness properties `CallsEnd`, `PaidIsCredited`, `RunEnds`,
`Activated` and `WorkEnds` (but for its last conjunct), which need fairness and
`ENABLED`.  All invariants and all action properties of the runs are proved.

## 6. Where code and documents disagree

Each of these four has a run that shows it, and a row under "findings":

1. **A lost update in the ledger.**  Accounts are SELECTed, then locked, and not
   refreshed: a call that waited for a lock computes from the old balance
   (`token_service.py:313`), while its docstring promises serialised transfers
   with matching balances.  An overdraft, a fork or a double posting does *not*
   follow; those are proved.
2. **A deposit's event that never gets through.**  If a handler dies between the
   credit and the status, each redelivery fails on the unique key with a 500
   (`webhooks.py:225` expects a `ValueError`).  The customer's money is credited.
3. **A balance that is paid out twice.**  The payout locks an account it has
   loaded before (`payout_service.py:62`), and writes over a withdrawal.
4. **A resumed workflow that does not resume.**  The runner has left
   (`orchestration_service.py:331-333`); `resume` only writes a word.

Met while modelling, and allowed for in the properties, without a run of its own; first
what a document or a docstring says otherwise:

- the hash chain has more than one beginning: the rows of withdrawals and refunds have no
  hashes, and the next payment takes none for its predecessor's (`token_service.py:346`;
  `models/token_account.py:72` has "NULL for genesis");
- an API-credit request that was completed as it was created, or was cancelled, is turned
  into credits (again) by its approval (`redemption_service.py:286`; line 274 has "a pending
  redemption");
- a cancellation of a workflow is overwritten, by "running" if it was committed before the
  runner starts, by its outcome if the last layer was under way
  (`orchestration_service.py:303`, `410`; line 203 has "Cancel a pending or running execution");
- a crash between the debit and the record of an express purchase leaves a charge without a
  purchase (`express_service.py:60`; docs/api-reference/express.mdx:207 calls it atomic);
  a retried express call is a second purchase;
- a subscription that was paid through the code's own checkout is never activated: the
  event has no metadata and is answered with 200 (`webhooks.py:249`, `stripe_service.py:275`);
- two calls of `subscribe` both find no active subscription and both commit one
  (`billing_v2_service.py:136`; line 134 has "Raises ValueError if the agent already has an
  active subscription"), and `get_subscription` raises from then on (line 196);
- a cancelled action is answered as released, and its execution, which read the
  row before, completes and captures the funds (`action_executor.py:141`; line 249 has
  "release held funds");

and the others:


- the monthly payout's key is computed and never looked up (`payout_service.py:44`);
- reject does not look at the status either; two cancellations refund twice;
- a late `deliver` takes a completed transaction back to delivered, which
  `models/transaction.py:23-25` does not draw; the next verification disputes it;
- two verifications of one delivery count two accesses for one charge;
- a change from a free to a paid plan by
  `change-plan` never becomes active once it is paid, because the webhook's
  `subscribe` refuses; a deletion that arrives before the creation is ignored;
  `cancel_at_period_end` is stored and acted on by nobody; Stripe is never told
  of a local cancellation;
- a deposit cancelled between the two commits of its confirmation would be
  credited; no endpoint calls `cancel_deposit`;
- a subscription or OpenClaw webhook deleted during a fan-out ends it for those
  after it; two registrations of one URL, or of one agent's OpenClaw webhook,
  insert two rows, and later lookups raise;
- a viewer who connects or goes during a broadcast ends it with a RuntimeError, and
  the webhooks never get the event (`main.py:45`, `204`);
- `a2ui.init` over `/ws/v4/a2ui` connects the socket a second time
  (`main.py:717`), and Starlette refuses a second `accept` (read only, not modelled);
- a pending retry brings an A2UI client back that was disconnected, although the code
  says "prevent auto-reconnect" (`lib/a2ui.ts:91`), and a late `onclose` stops the
  heartbeat of the next socket;
- the limiter's windows do not slide, as docs/ARCHITECTURE.md:57 says they do: nearly
  twice the limit passes around an edge (`rate_limiter.py:30`);
- a lost send of a retry loses the event (`webhook_v2_service.py:195`);
- the sentinel's id of a revocation of all is longer than its column
  (`token_revocation.py:100`, `String(36)`): on PostgreSQL revoke-all raises, and
  change-password raises after the new password was committed; two in one second
  clash on the key;
- a chain execution whose process dies stays pending; an exception in its
  statistics turns a completed one into failed (`chain_registry_service.py:456`);
- a client that disconnects while its skill runs leaves the task "working" for
  ever (`a2a_servers/server.py:212`);
- a failing health request lowers a score twice (`v3_mcp_federation.py:212-216`);
- a cached listing is an object of another request's session: a price change that
  was answered as an error is charged to buyers until the entry expires
  (`listing_service.py:147`);
- `core/auth.py` and the decoders of creators and of users look at no revocation, so that a
  revoked token goes on there;
- revoking an access token leaves its refresh token usable
  (`oauth2/server.py:431-440`);
- a restriction for an unsafe answer is lifted by any later attestation
  (`agent_trust_service.py:141`; docs/TRUST_VERIFICATION_MODEL.md:37 has restricted
  as a state of its own);
- a file whose write was cut short is never repaired, and `express_buy` sells what is
  there (`hashfs.py:26`, `express_service.py:49`);
- a crash between a seller agent and its account leaves the creator with an agent
  that cannot be paid; a publish repeated after a crash lists again
  (`dual_layer_service.py:393-395`, `470-474`);
- a snapshot whose odd last chunk is repeated has the same root (`memory_service.py:100`);
  the trees of `zkp_service.py` hash pieces and nodes alike, so that a piece which is the
  digits of two hashes has the root of those two (lines 30-31, 43-54);
- closing a session or `user.cancel` raises `CancelledError` in the agent's call; inputs
  of a session that expired are not cancelled, and nobody calls `cleanup_expired`.

## 7. What is not modelled

Of the modelled components: `create_account` and `ensure_platform_account` (check,
then insert); listing queries; usage meters, invoices and period dates of
subscriptions; thresholds, currencies and notes of redemptions; the users, listings
and x402 proofs around a purchase; conditions and loops of a workflow, which are nodes
that complete or fail, and nested executions.  SQLite's whole-database write lock is a
restriction of the interleavings modelled here.

Of the services: who gets which event and what is redacted; templates, policies and
provenance of chains; registration and approval of tools; the MCP protocol
server and its sessions; registration, login, keys and roles, each one
transaction; the refresh tokens of `core/refresh_tokens.py`, the access check of
memory shares and the payment reconciliation, which nothing calls; pushes to an
A2UI screen; Azure's blobs; zero-knowledge proofs, which are hashes over data that
does not change; embeddings, consolidation and shares of memory.

Of the rest, `PROJECT.json` gives each component's reason.  Two kinds stay out
for good: what has no protocol (scores, search, dashboards, CRUD of one owner,
metrics) and what is outside this code (SDKs, infrastructure, cryptography).

## 8. Plan

Done, in the order of what goes most wrong if it is wrong: the money (`Ledger` with
`Bank`, `Deposits`, `Redemptions`, `Orchestration`, `Purchases`, `Subscriptions`), then the
services around it; the proofs, of the money first, then of the services that move money
or must not lose anything, last of all services.

What could follow: `Ledger` with `create_account` and `ensure_platform_account`; the audit
log's chain once it takes a lock; broadcasts that reach the webhooks whoever comes or
goes, once they walk a copy of the viewers; refresh tokens and reconciliation once they
have callers.  Theorems: that a fixed ledger - rows refreshed once they are locked -
needs no condition for `BalancesMatchLedger`; what a second tree says of a snapshot's
length, if the number of chunks were hashed too.
