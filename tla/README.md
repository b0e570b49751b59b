# TLA+ verification of neuralclear

neuralclear clears payments between software agents: a buyer's credits go into
escrow when a task is submitted, to the provider and the fee pool when its proof
verifies, and back to the buyer when it does not. Agents that trade often open a netting
channel instead: one deposit in escrow, many metered tasks off the ledger, one net settlement. A second, older
path settles on a plain ledger without escrow: the reference server, the SDK and
the buyer agent. The project in this directory models both paths and what hosts
them in TLA+, model-checks the models with TLC and proves safety properties of each with
TLAPS.

## The system

| Component | Code | State | Operations |
|---|---|---|---|
| Transaction lifecycle | `neuralclear/core.py` 159-185, 279-301 | `Transaction.state` | `transition()` |
| Escrow ledger | `core.py` 336-350, `clearing.py` 97-220 | `balances`, `escrow`, `fee_pool`, `transactions` | `open_account`, `hold`, `release`, `refund_escrow`, `slash_escrow`, `split_escrow`, `verify_zero_sum` |
| Fee engine | `clearing.py` 49-89 | none | `fee_for`, `policy_for` |
| Clearing service | `clearing.py` 242-405, 460-483 | `_transactions`, `receipts`, `EventBus.history` | `clear` |
| Disputes | `clearing.py` 228-239, 408-457 | `disputes` | `open_dispute`, `resolve_dispute` |
| Netting channels | `neuralclear/netting.py` | channels, their usage records and state | `open_channel`, `meter`, `settle`, `dispute` |
| Plain ledger | `core.py` 118-144, 336-407 | `balances`, `fee_pool`, `transactions` | `settle`, `get_daily_spend`, the mandate's checks |
| Clearing store, gateway | `neuralclear/store.py`, `gateway.py` | one SQLite file; the services above | `save`, `load`; a thread per HTTP request |
| Reference server | `server/ledger_store.py`, `storage.py`, `db.py` | ledger, tasks, receipts, idempotency records, SQLite tables | `request_quote`, `submit_task`, `open_dispute`, load at start |
| Reputation, tenancy | `neuralclear/reputation.py`, `tenancy.py` | counters by provider; keys and usage by tenant | event handlers, `rotate_key`, `invoice` |
| SDK, buyer, provider, HTTP wire | `sdk.py`, `buyer.py`, `provider.py`, `httpwire.py` | the plain ledger; issued quotes | `purchase`, `handle_task`, remote calls with a 10 s timeout |
| Proofs, registry, server app, client, site | `proofs.py`, `server/*`, `client/*` | dictionaries | verification, routing, I/O |

The clearing service calls the ledger and the fee engine and emits events that
reputation and tenancy count. Netting builds a transaction of its own and calls
the same ledger. The gateway runs a thread per request over one clearing service,
one netting service and one store. The reference server does not use any of
these: it settles on the plain `Ledger`.

What is hard here:

* **Threads.** The ledger's methods hold a re-entrant lock; nothing else does.
  `transition()` checks the table and assigns in two steps, and `clear()`,
  `open_dispute()` and netting all write `Transaction.state` outside the lock.
* **Failure half-way.** `split_escrow()`, `refund_escrow()` and `slash_escrow()`
  may raise after they have moved money. A handler or a verifier may raise in
  the middle of `clear()`.
* **Order.** Disputes come before, during and after release. A budget is checked
  long before it is spent.
* **Restarts and retries.** The gateway saves a snapshot that it reads table by
  table from a live service. The reference server saves one record per commit on a
  connection that all its threads share. Idempotency keys are looked up long before
  they are written.
* **Networks.** A buyer gives up on a remote provider after ten seconds; the
  provider works on.

`PROJECT.json` lists each hazard at its line, with the properties that watch it.

What makes each component correct: the ledger never creates or destroys a
credit and never takes a balance below zero; an escrow holds price plus fee, in
full, until one payment out of it; states, receipts and dispute resolutions are
true of the money; no funds are stranded by the service's own errors; the fee is
the documented rounding; a netting channel's records form one chain, never exceed
its deposit and are paid once. An answer given to a client survives a crash; a
retried task is charged once; reputation and usage counts equal what happened; a
purchase pays for exactly the work that was done, and ends.

## Modules

| Module | Models | Notes |
|---|---|---|
| `TransactionLifecycle` | states and table of `core.py` | `CanTransition` is the check of `transition()` |
| `FeeEngine` | `FeePolicy` | `ExactFee` is the reference definition |
| `EscrowLedger` | the ledger's methods | complete specification `LedgerSpec` with arbitrary callers |
| `DisputeHandling` | `open_dispute`, `resolve_dispute` | extends the ledger; the two services extend it |
| `ClearingService` | the threads of `clear` beside those of the disputes | |
| `NettingChannel` | `open_channel`, `meter`, `settle`, `dispute` beside the disputes | |
| `AtomicPayments` | the abstract promise: every transaction decided at most once, in one transfer | `ClearingService` and `Purchasing` implement it |
| `PlainLedger` | `Ledger.settle` in steps, the mandate's checks | the next two extend it |
| `ReferenceServer` | quotes, submissions, disputes, saves and restarts of `server/` | |
| `Purchasing` | one buyer over SDK, local and remote providers | refines `AtomicPayments` |
| `Gateway` | requests, snapshots and restarts around `ClearingService` | |
| `EventSubscribers` | `TenantHub` and `ReputationEngine` on the events of `ClearingService` | |
| `Hosting` | the choice between the last two | no code combines them |
| `MCFees`, `MCClearing`, `MCNetting`, `MCServer`, `MCHosting`, `MCPurchasing` | the instances for TLC | |
| `SumTheorems` | lemmas on sums of functions over finite sets | |
| `EscrowProofs` | theorems and lemmas on the ledger and on disputes | the next two rest on it |
| `ClearingServiceProofs` | theorems on the clearing service, then on the gateway and the subscribers around it | |
| `NettingChannelProofs` | theorems on netting | |
| `FeeProofs` | theorems on the rounding of fees | |
| `PlainLedgerProofs` | lemmas on one `settle()` | the next two rest on them |
| `ReferenceServerProofs`, `PurchasingProofs` | theorems on the two users of the plain ledger | |

### Correspondence

*Ledger.* One operator per method, with the method's name. A method is one step:
it runs under the lock from its first read to its last write. `balances` is
total, because `balance_of()` reads an absent account as 0. `transactions` is the
set of settled transactions; the order of the list is never used. `split_escrow`
has a disjunct for the share out of range, which only empties the escrow and then
raises. `refund_escrow` and `slash_escrow` are the money moves; the `transition()`
that ends both methods takes the state in two steps and belongs to their callers
(`RefundFunds` and `WriteTransition` in `clear()`, `CheckOutcome` and
`WriteOutcome` in `resolve_dispute()`). A method's closing `verify_zero_sum()`
compares against a snapshot taken under the same lock, so its raise is not
reachable from those steps; the sum itself is `LedgerTotal`.

*open_dispute().* `CheckDispute`, `WriteDispute`, `RecordDispute`: the state is
read, then written outside the lock, then the dispute is stored. `opening` and
`marked` say where a call stands. A caller knows a transaction's id from the HELD
event, so in `ClearingService` disputes need `t \in published`.

*resolve_dispute().* The check that the dispute is unresolved, the ledger's method
and, for a split or a settle, the mark that it is resolved are one step: of two
callers that both pass the check, only one finds the escrow, and the other raises
without a change. A refund or a slash moves the money, then checks the table (a
raise there leaves the dispute unresolved), and `WriteOutcome` assigns the state and
the resolution; `resolving` holds the dispute in between. A dispute can be resolved
by anybody at any time, while its `clear()` still runs too, as in the code.
`payout` is a history variable: no action reads it.

*clear().* `pc[t]` is the position of the call that creates transaction `t`. Each
`transition()` after the HELD event is `CheckTransition` (the table, and the
raise) followed by `WriteTransition` (the assignment, whatever the state has
become), with `pending[t]` in between; the one inside `refund_escrow()` is at
position `to_refunded`. The first transition happens before anybody else can know
the transaction's id and is part of `Submit`. `Run` is the call of the task: a
result, or an exception (a crash, a remote error, the 10 s timeout). `EmitHeld` and
`VerifyProof` may end in an exception that `clear()` does not catch, if
`ForeignFailures`. An expired quote, a refused fee and a refused mandate are
`Reject`, which is always possible because a quote may always have expired. The
mandate's owner and agent are those of the call, all on one UTC day.

*Netting.* A channel and its transaction have one name. `open_channel()` is
`RequestChannel` then `OpenChannel`, or `RefuseChannel` where it raises. `meter()` is
`MeterCheck` (state, amount, what is left of the deposit), `MeterLink` (the hash and
number of the next record) and `MeterAppend`, because nothing in `netting.py` takes
a lock; a record's hash stands for the call that made it. `MeterThread` says which
thread makes each call: a thread finishes one before it starts the next. `settle()`
goes through `CloserCheck`, `VerifyChain`, `ReadTotal`, four `transition()` calls of
two steps each, `SplitDeposit` or `NoFundsHeld`, `CloseChannel` and `IssueReceipt`;
`dispute()` through `CloserCheck`, `MarkDisputed` and two transitions. The channel's
transaction is registered with the clearing service, so `open_dispute()` and
`resolve_dispute()` act on it too. The receipt's chain head and the cost analytics
are left out.

*Plain ledger.* `settle()` has no lock. CPython hands the interpreter to another
thread where a call begins or returns and at a loop's end, so `settle()` is cut at its calls:
each `balance_of()` is a read, what follows up to the next call is the write. The
two snapshots read the balances and then the pool. `seen` and `before` are the local
variables; they go back to 0 once nothing will read them. `total_supply` is constant,
because accounts are opened first.

*Reference server.* A submission and the transaction it creates have one name. `pc`
walks `submit_task()`: `Lookup`, `Replay` or `Conflict`, `Authorize` (the duplicate
check, the quote, the mandate, and the work, which is a string operation; these only
read, and what they read is as stale as can be when `settle()` begins), the steps
of `settle()`, the second zero-sum check, `RecordTask`, the saves, and the idempotency
record. A save is a statement on the shared connection (`working`) and a commit
(`committed' = working`), in two steps, so one thread's commit publishes another's
statements, half-done ones included. `save_balances()` is called with the fee pool's
value (`pool_arg`) and with the live dict of balances (`SaveBalances`). It has a DELETE;
the list of rows, read from the dict an account at a time (`ReadRow`); the INSERTs of
`executemany`, a row at a time in any order (`InsertRow`), because the interpreter is
handed over between rows; the pool; the supply; and the commit. A row whose account
another thread has inserted since the DELETE breaks the primary key, and everything
uncommitted is rolled back (`RefuseRow`). Python's `sqlite3` opens a transaction before a
statement that writes, and before the first row of `executemany` only: when another
thread's commit ends it in between, each later row is committed by itself, and
`in_transaction` says so. `RequestQuote` and `OpenDispute` are a statement
each, and `CommitQuote` and `CommitDispute` their commits. `Overlap` bounds the requests
in progress by `Workers`, the threads that FastAPI runs its routes on. `Restart` loses all
submissions in progress and what is not committed, and loads the rest: `load_balances()`
takes whatever rows it finds for the whole, so a file with some of the accounts loses the
others. A quote's row is written and never read, so the file's quotes are not kept.
`None` as a key is a submission without one; the instance has none of those.

*Gateway and store.* A request has the name of its transaction or of the dispute it
resolves. `ServiceStep` is a step of a thread inside the clearing service;
`BeginSave`, `SaveEscrow`, `SavePool` and `CommitSave` read one table each from the
live service. The first DELETE takes SQLite's write lock, so at most one save is
under way; `LockTimeout` is any other request that waits too long and is answered
with a 500. `draft` is what the connection has written. `Restart` installs the stored
tables in a new service. It knows no transaction and no dispute, so what existed before
is put in `gone`, and takes no more steps: its entries in the service's other variables
are history. `torn` and `tainted` are history, too.

*Subscribers.* `emit()` runs handlers in the emitting thread. A handler is named by its
event; its position is where it stands. The tenant's handler reads the usage in one
step and writes it in the next; then reputation's `record()` looks for the record,
creates it if it was absent, and counts. A record is named by the event that created
it, so that a handler that holds a replaced record counts in the replaced one. An
event's handlers start with the step that emits it. `clashed` is history: handlers of
two events have been running at once. `shares` is `Dispute.provider_amount`, which
`resolve_dispute()` stores for every resolution: what a split has paid, or any number that
came with another resolution. `on_resolved()` adds it to the volume for a settle as for a
split (`SettledAmount`), and the price where it is 0 or missing.

*Purchasing.* `pc` is where the buyer stands and `wire` what is under way to or from a
remote provider. A call to a local provider is a task request that only the provider's
own step answers. `Timeout` is the 10 s of `urlopen`; `Lose` a connection that breaks;
neither stops a handler that has begun (`working`). `Expire` can come at any time at
which somebody will still look at the quote. A mandate may refuse an expensive quote or an
exhausted budget; its capabilities and its own expiry are those of the purchases.
`MockProof` always verifies, and the wire makes one of any proof.

## Runs

| Run | Configuration | Result |
|---|---|---|
| `fees` | policies of a sample, prices one by one | two properties hold |
| `clearing` | two calls, two disputes, shares 0 and 2, foreign exceptions on | twelve properties hold |
| `clearing_freeze` | as `clearing` | `DisputeFreezesFunds` violated |
| `clearing_budget` | a buyer who can pay for both | `DailyBudgetKept` violated |
| `clearing_resolve` | resolvers fair | `SettledDisputeResolves` violated |
| `netting` | one thread meters; two settlements, a freeze, a dispute | six properties hold |
| `netting_overspend` | two threads meter | `ZeroSum` violated |
| `netting_unpaid` | as `netting` | `ReceiptCoversRecords` violated |
| `server` | a submission, its retry, a reuse of its key; two threads, one crash | eight properties hold |
| `server_retry` | as `server`, without a crash | `KeyPreventsDoubleCharge` violated |
| `hosting` | gateway: two calls, one dispute, one crash; tenant: the same calls and dispute | six properties hold |
| `purchase` | two remote purchases, a local one, one through the SDK | six properties hold |

**Why the bounds are enough.** In `clearing` the buyer owns 5 credits and the
tasks cost 4 and 3, so the two calls compete for the balance; the fees are one
proportional and one minimum; two disputes can be on one transaction or on both,
each before, between and after any step of the call. Two calls suffice for every
race the code has: calls meet only in the balance, the pool and the daily spend.
In `netting` the deposit of 4 leaves 3 credits after the fee, and the two metered
amounts 1 and 3 fit alone and not together. `MaxContenders` = 3 bounds how many of
the two `settle()`, the one `dispute()` and the one `open_dispute()` calls are made
in one behaviour: any three of the four meet. A second deposit is as small as its
fee and is refused. Channels share nothing but the buyer's balance, so one open
channel is enough.
In `server` the retry has the first submission's key, request and quote and a task id
of its own; the third submission has the same key, another request, and the first
task id. Those are the collisions the code tells apart. The buyer's 9 credits pay for
any one and for none of the pairs with the dearer task; two threads are what it takes
to overlap, two accounts make a table that can be half full, and one crash falls between
any two statements or rows (about 1.5 million states). In `hosting` two calls let
one save while the other moves money or waits for the lock, and the dispute can be
split at 0 or at 2, or resolved otherwise with 2 for a number that means nothing. In `purchase` the budget of 4 and the balance of 6 refuse some
orders of the four purchases and allow others, and the buyer makes them in any order.

**What they show.** `ZeroSum`, `EscrowUntilPaid`, `PaidForGood` and
`ImplementsAtomicPayments` say that money is safe in spite of the unlocked states:
every payment starts with `_take()`, which finds the funds once. `StateTellsPayout`
and `ResolutionTellsPayout` say that REFUNDED, SLASHED, SETTLED, receipts and
resolutions are never false of the money. They do not say that the state always
shows the outcome: a late write may cover REFUNDED. `NothingStranded` and
`HeldFundsMove` say that an escrow is left behind only under a dispute or by an
exception of foreign code, and `HeldFundsDisputable` that even then a dispute can be
opened on it, whatever state the threads have left: the event that names the transaction
is in the history before a handler runs, and no final state is written while funds are
held. `RaisedCallsResolve` is about the order of `refund_escrow()` and `slash_escrow()`,
which move the funds before `transition()` may refuse. Once `clear()` has raised, it never
refuses. While `clear()` still runs it may, because its own unlocked write covers DISPUTED.

`MeteredSoundly` (`ChainIntact` and `DepositCovers`) holds as long as one thread meters a
channel, however settlements and disputes interleave with it. `SettledPaysOnce` says that of
several settlements one gets a receipt, for a sum of records it had seen.
`DepositNotStranded` and `SettlingPays` say that settlements which spoil each other's
transitions still leave the deposit payable: one of them reaches the split, or the
channel is frozen or disputed.

In `server` most properties are conditional on `~overlapped`: requests came one at a
time. They say that a crash at any point is then harmless: the supply is kept in memory
and in the file (`SupplyKept`), what was answered is stored (`AnsweredIsStored`), the
file's records refer to each other (`StoredInOrder`), nobody has paid for less or more
than between the answered and the recorded tasks (`MoneyFollowsRecords`), and a retry of
a submission that the crash cut off is not charged again (`RequestChargedOnce`), for a
reason nobody wrote down: the restart forgets the quotes. They are not true of
overlapping requests: two `settle()` calls lose an update, a commit publishes half the
balances, a later save is overtaken by an earlier fee pool, and a primary-key error rolls
back the statements of other threads.
Two things survive any overlap. `RetryAfterAnswerIsFree`: once a client has its answer,
a retry is free, or refused because its quote is gone. `AnsweredBalancesAreStored`: when
every submission made so far has been answered, a restart loads the balances that are in
memory, every account's, although while saves overlap the file may hold some of the
accounts and rows of two threads. A crash at such a moment does lose balances.

In `hosting`, `AnsweredIsDurable` says that an answered payment survives any crash, torn
snapshots and lock timeouts included, because its receipt, its payment and its empty
escrow are read after they were final. `SnapshotIsConsistent` says that a snapshot
during which no money moved adds up and has no receipt without its payment; torn ones
that do not add up are reachable. What a crash leaves in escrow stays there: no
transaction is loaded that could name it. `NeverOvercounts` says that racing handlers
only ever lose counts, and the `Tenant...` properties that without a race the counts are
exact, and so is the volume, but for two kinds of dispute whose error `Misreported` adds
up: splits at 0, which count as the full price, and settles that carry a
`provider_amount`, which pay the price and count the number.

In `purchase`, `PaidForWork` and `FailureIsFree` say that a settled purchase was executed
exactly once and begun under a valid quote, and that a failed one costs nothing, though
the provider may have worked for it. `BudgetKept` holds because one buyer makes one purchase
at a time; `clearing_budget` and the reference server show what overlapping does.
`ImplementsAtomicPayments` maps the money between debit and credit to the buyer.

**Findings.** Each violation run shows a disagreement between the code and one of
its own statements; `PROJECT.json` quotes them. The counterexamples in words:

* *Freeze.* `clear()` has checked PROOF_VERIFIED; a dispute writes DISPUTED and is
  recorded; `clear()` writes PROOF_VERIFIED over it and releases.
* *Budget.* Two calls of 4 and 3 credits pass a budget of 6 before either settles.
* *Resolve.* A dispute after settlement: the escrow is empty, and every resolution
  raises "no funds held for transaction".
* *Overspend.* Two `meter()` calls of 1 and 3 pass the check on the same total of 0;
  the second links after the first has appended, so the chain is intact.
  `settle()` asks for a split of 4 out of 3, `split_escrow()` takes the escrow, raises
  "provider share out of range", and the deposit is nowhere.
  `resolve_dispute(d, "split", p)` with a share above the price does the same.
* *Unpaid.* `meter()` has passed its check; `settle()` reads the net total; the
  record is appended. It was accepted, the receipt counts it, nobody pays it.
* *Retry.* The second submission looks its key up while the first is settling, finds
  nothing, and settles as well: the client that retries after its own timeout pays twice.

**Reachable, and promised by no property.** The models reach some more states that nobody
would want; the hazards without a property in `PROJECT.json` are these. A slash or refund
while `clear()` runs may find DISPUTED covered by a write of `clear()`: the funds are gone
and the dispute stays unresolved. Two submissions of one task id both find it unused, as
those of one key do. Two `settle()` calls of the plain ledger read one balance before
either writes it. Two receipts' handlers read the same usage and both write it plus one;
two handlers find no record of an agent, and the second one's replaces the first one's. A
snapshot may hold the balances of before a payment and the escrow of after it. An older fee
pool may be written over a newer one.

**Fairness.** `ClearingService!FairSpec` gives every `clear()` thread and every
dispute call past its first check weak fairness: threads of a running process are
scheduled, and `run()` is assumed to return or raise. Nobody is assumed to open or
to resolve a dispute, except in `clearing_resolve`, where resolvers are fair to show
that this does not help. `NettingChannel!FairSpec` does so for `settle()` calls that
have begun, and for nothing else. `Purchasing!Spec` gives weak fairness to the buyer's
thread, which waits at most ten seconds for anything remote, and to a local provider,
whose handler runs in that thread and is assumed to return or raise. A remote provider
and the network owe nothing. The `server` and `hosting` runs need no fairness. Deadlock
is not checked in the runs with calls: the calls end.

## Proofs

TLAPS proves the following for every finite set of accounts, transactions, disputes
and calls and for every price, fee and opening balance.

**Ledger and clearing service.**

* `LedgerInvariant`: the ledger's types, `balances \in [Accounts -> Nat]` among
  them, together with `HeldInFull`. The second is what makes the first inductive:
  `release()` and `split_escrow()` pay price and fee without looking at the held
  amount, and the buyer's share of a split is non-negative only because the held
  amount is price plus fee.
* `LedgerZeroSum` (assuming `SplitsInRange`) and `LedgerCreatesNothing` (without).
  Both compare sums before and after a step with `SumUpdate` of `SumTheorems`:
  changing a function at one point changes its sum by the difference.
* `ServiceImplementsLedger`: each step of the clearing service is a ledger step
  or leaves the ledger alone; `TypeCorrect` and `ServiceZeroSum` follow from it.
  `TypeCorrect` needs that a pending state is the target of the call's position.
* `EscrowHeldUntilPaid` and `NeverPaidTwice`: every step holds one transaction's
  funds, pays one transaction's funds, or touches no escrow (`StepKinds`).
* `ResolutionsAreTrue` and `OneDecision`, from `DecisionInv`. A dispute has a
  `Decision` from the moment its refund or slash has moved the money, before the
  resolution is written. `DisputeInv` says that decisions are true of the payout and
  that no two disputes on one transaction have one; `CallsTell` says what the
  position of a `clear()` call tells of the payout, so that a receipt excludes a
  decision. An escrow that is still held has no decision (`HeldUndecided`), and
  every payout begins with one.
* `StatesAreTrue`: a state naming an outcome is written only by whoever moved the
  money: the targets of the other transitions name none.
* `HeldFundsStayDisputable` (`HeldFundsDisputable`) combines the last with
  `EscrowHeldUntilPaid` and `SubmittedInv`: no thread writes a state from before the
  submission, and past `emit` a transaction's event is published. What is left for a
  held transaction are the states that DISPUTED can follow.
* `NoFundsStranded`, from `OnCourse`: as long as a transaction is uncontested and
  unpaid, its state is one that the table `Expected` gives for the call's position, so
  that no check of `clear()` can raise. Only a
  dispute can take a call off that course, and an escrow that was contested stays
  contested until it is paid (`ContestedStays`).
* `RaisedCallsAreResolved` (`RaisedCallsResolve`), from `OnTrack`: an unpaid transaction is
  in a state of `Expected` or DISPUTED, because what a dispute writes before the payment is
  DISPUTED (`UnpaidIsDisputed`). A check of `clear()` that refuses has therefore seen
  DISPUTED, and after it nobody writes another state until the funds move.
* `ServicePaysAtomically` (assuming `SplitsInRange`): the refinement of
  `AtomicPayments`, step by step. An account's wealth is its balance and what it has in
  escrow; a hold moves nothing, a payment is one decision, every other step stutters.

**Netting.** No method of `netting.py` takes a lock, so each theorem says what it needs.

* `NettingImplementsLedger` and `NettingCreatesNothing` need nothing. The steps of
  `netting.py` are those of `EscrowLedger`, with any integer for a share, since `settle()`
  asks for the total of a chain that no check may have bounded; and without one thread per
  channel, what such a split does wrong is to destroy a deposit, never to create a credit.
* `NettingTypeCorrect` and `ChannelPaysOnce` need nothing either. The first is inductive
  with `HeldInFull`, with `CallsInPlace` (a pending transition is the one of the call's
  position) and with `MeteredPositive` (what passed the check of `meter()` is positive).
  The second rests on three facts: a paid deposit is not held (`PaidNotHeld`), of the
  `settle()` calls on a channel one gets past the split (`OneSplit`), and the total that a
  call has read is that of a prefix of the chain, which only grows (`TotalsArePrefixes`).
* `ChainsVerify`, `DepositsCover`, the two together in `MeteringIsSound`, and
  `NettingZeroSum` assume `OneThreadPerChannel`: the `meter()` calls on one channel are made by one thread. `netting_overspend` shows all
  three broken without it. The invariant is `ChainInv`: one call at a time is between
  check and append (`OneMeters`), the link it has read is still the end of the chain
  (`LinkIsEnd`), and its amount still fits (`AmountFits`). `NettingZeroSum` assumes
  `SplitsInRange` too, for the disputes' splits; that the split of `settle()` is in
  range is proved (`TotalsCovered`).
* `DepositsNotStranded` assumes the same thread, because a chain that does not
  verify makes every `settle()` raise. Its invariant `SomebodyPays` says who is in
  charge of an uncontested deposit. Settlements do spoil each other's transitions: a
  call whose check finds the state of another call's write raises. But whoever wrote
  the transaction's state last finds its own next check passing, and that call is
  the one that reaches the split.

**Purchases.** `PurchasingInv` is one inductive invariant for six results. One purchase
settles at a time (`OneAtATime`), so the reads that `settle()` keeps are never stale;
a result in hand was run for, in time (`WorkFollows`); every balance is its opening
moved by the purchases debited and credited so far (`MoneyFollows`); and the purchase
under way still fits the budget (`BudgetReserved`). `PaidOnlyForWork`, `BudgetIsKept` and
`FailuresAreFree` follow; `ZeroSumCheckPasses` adds that the closing comparison of
`settle()`, which would leave the money moved and the buyer without a receipt, never
fails; `PurchasesAreAtomic` is the refinement of `AtomicPayments`, with a debit that
waits for its credit counted as the buyer's.

**Reference server.** `ServerTypeCorrect`, `RetryIsFree` and `AnsweredBalancesSurvive`
hold for any overlap of requests and any number of crashes. The first says of a file that
may hold any part of the balances what is true of it all the same. The second needs
`RecordOrNoQuote`: an answered submission's key is on record with its request, or a crash
has lost the record and every quote of that request with it. The third
(`AnsweredBalancesAreStored`) comes from `RowsFollowBalances`. As long as no request has
failed or been lost, and all that have moved money have deleted the rows since
(`Owing = {}`), the rows are the balances and in the file or about to be committed
(`RowsAreKept`), or the last to delete them is inserting what it has read of the
balances since (`RowsAreInserted`): it completes the table alone, or there is a row in
its way and it will fail. The others are conditional on `~overlapped`, as
the properties are, and come from `Sequential`, a conjunction of thirteen facts about a
server with one request at most under way. The long ones say what is in the file at
each position of `submit_task()`: what is uncommitted and by whom (`Uncommitted`,
`UncommittedRows`), what is in memory and not yet saved (`Unsaved`), what is stored by now
(`StoredByNow`), and who has paid, in memory and in the file (`Payers`, `StoredPayers`).
`Supply` and `StoredSupply` say the same of `total_supply`, which a partial table does not
reach as long as requests come one at a time. They make `SupplyIsKept`, `AnswersAreStored`, `RecordsAreInOrder`,
`RetriesAreChargedOnce` and `MoneyIsAccountedFor` inductive through `Restart`, which
replaces the memory by the file at any of those positions.

**Gateway and subscribers.** A behaviour of `Hosting` is one or the other, and so is
its invariant `HostingInv`.

* `GatewayTypeCorrect`: the tables of a save, of the file and of the live service all
  hold every escrow in full (`FullEscrows`). That makes the shape inductive through
  `Restart`: the loaded service has the types that the ledger's methods need, even when
  the snapshot was torn and does not add up.
* `AnswersSurvive` (`AnsweredIsDurable`): an answered request was finished when it was
  saved, and a finished transaction stays so. `RecordsInv` says it of the running
  process, of the draft of a save and of the tables: receipt, payment out of escrow and
  final state go together for every transaction that was answered, or whose saving has
  read them. A restart forgets calls and disputes; what held for all of them before
  (`EscrowUntilPaid`) holds afterwards for those that are not forgotten (`LiveCalls`,
  `LiveDisputes`), and a new request never has the id of an old one (`NewIsUnknown`).
* `SnapshotsAddUp` (`SnapshotIsConsistent`, assuming `SplitsInRange`): a draft whose
  money has not moved since its first table was read equals the live ledger, so it adds
  up because the ledger does (`SupplyInv`), and its sellers have the receipts' amounts
  because the live ones have (`MoneyInv`: what service, draft and file owe each
  account). Loading an untorn snapshot starts both again.
* `CountsNeverExceed`: `HandlersFollow` says which handlers run, `RecordsMatch` that a
  handler's record, replaced or not, belongs to the agent of its event, and
  `CountsBounded` that no record, replaced or not, has more under a heading than the
  events of its agent that are counted (`DoneUnder`). The lost updates of usage are below
  `Billed` in the same way. `HeadingsCount` turns the events under a heading into the
  receipts and resolutions that the property names.
* `QuietCounts`: `ExactInv` adds what holds until two handlers meet: one runs at a time,
  so what it has read of the usage is the usage, the record it has in hand is its agent's,
  and that record has exactly the counts of `DoneUnder`.
* `VolumesAreIncome` (`TenantVolumeIsIncome`): the volume of a seller is its income plus
  `Misreported`, the sum over its disputes of what an empty split and a settle with a
  number are counted wrong by. `IncomeInv` says that a seller's balance is its opening
  plus the prices of its paid uncontested calls plus what resolved disputes gave it;
  `VolumeExact` that a record's volume is the sum of what its counted events were counted
  for (`CountedVolume`); and `NoVolumeYet` that a record without settlements has no
  volume, which is what a handler that finds no record creates one with. When no handler
  runs every event is counted, and the two sums differ by `Misreported` alone.

**Fees.** For every policy that `FeePolicy` accepts and every price, `FeesRoundDown` says
that the fee is the exact one rounded down to a credit, `FeesNeverFall` that it never
falls with the price (it follows from the first, so no run checks it), and `AcceptanceGoesUpward` that no rounding step refuses a dearer
task. All rest on two lemmas on the division by 10000; the third needs that one credit
more adds one credit of fee at most, because `bps` is 10000 at most.

**Lemmas on sums.** `SumTheorems` has what all of these need of
`SumFunctionOnSet`, for integers: its type, its value under one changed point
(`SumUpdate`), of one element (`SumSingle`), monotonicity (`SumMonotone`), a set
that grows by one element (`SumExtend`) and entries of zero that may be left out
(`SumPadded`).

**Assumptions.** `ParameterTypes`, `PartiesDiffer`, `NoneIsNoTx`, `ServiceParameters`,
`FiniteDisputes`, `RestartBound`, `NoneIsNoDispute`, `TxsAreNoDisputes` (the ids begin
with `tx_` and `dsp_`), `ChannelParameters`, `ServerParameters`, `PurchaseParameters` and `SampleParameters` are assumptions of
the modules; TLC evaluates each in a run. `SplitsInRange` and `OneThreadPerChannel` are
hypotheses of the theorems that name them, because the code does not enforce them.
The inductive invariants were checked with TLC on the instances of the runs before
they were proved.

**What the proofs changed in the model.** `DepositCovers` first spoke of every channel,
and is false of one that was refused because its fee exceeds its deposit: what such a
deposit leaves is negative, and the empty chain does not fit it. It now speaks of
channels that exist. `ReferenceServer` now assumes that "no key" is not the name of a
submission, on which a key without a record depends. `EventSubscribers` started handlers
with a CASE whose first two guards overlapped: TLC takes the first, and the definition
allowed either. An agent without a record is now marked by a value of its own, which
can be told from every event.

**Only model-checked.** Every invariant and action property that a passing run checks is
stated by a theorem. What is left are `HeldFundsMove`, `SettlingPays` and `PurchaseEnds`,
which are liveness under fairness: TLAPS does not prove those.

## Plan

The proofs reach every safety property that a passing run checks. What is left is to weaken
hypotheses where the code allows it: `MoneyIsAccountedFor` and its neighbours say nothing
once two submissions have overlapped. `AnsweredBalancesSurvive` shows that some of it
survives when the overlapping requests all succeed; which of the others do, and for
requests on different accounts, is still to be found out with TLC.

## Not modelled

Currencies (one is assumed; a mismatch raises before any change), signatures and
hashes (their presence only), HTTP and JSON, quotes' resource estimates, the
registry and its search (filled before the first request), proof verification beyond its
three ways to end, the dashboard, the command line, the site. Of the gateway, the accounts
and channels routes: a channel lives in memory only, and its deposit is one more escrow
in the snapshot. Of tenancy, key rotation and invoices; of reputation, scores and ranking,
which are arithmetic over the counters. Of the reference server, running without
storage, which is the same code without the saves, and quotes' expiry, which
`submit_task()` does not look at. Errors that SQLite itself returns on the shared
connection, when two threads begin a transaction at the same instant, are left out: the
model's statements take their turns. `open_account()`
during clearing runs without the lock; accounts are opened before the threads
start here. A freeze by `NettingService.dispute()` that overtakes a `settle()` already
past its first check is in the model, but no property promises that it stops the
settlement.
