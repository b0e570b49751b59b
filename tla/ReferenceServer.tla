--------------------------- MODULE ReferenceServer ---------------------------
(***************************************************************************)
(* server/ledger_store.py (ReferenceClearingService) over server/storage.py*)
(* and server/db.py: requests for quotes, task submissions with idempotency*)
(* keys and disputes, run by a pool of threads on one plain ledger and one *)
(* SQLite connection, and the restart that loads what was committed.       *)
(*                                                                         *)
(* Every save is one or more statements and a commit of its own; the       *)
(* balances are inserted row by row. The connection is shared, so a commit *)
(* publishes, and a rollback discards, what every thread has written since *)
(* the last commit. A submission and the transaction it creates have one   *)
(* name.                                                                   *)
(***************************************************************************)
EXTENDS PlainLedger

CONSTANTS
    Quotes,          \* quote ids; a uuid is issued once
    QuoteOf,         \* [Txs -> Quotes]
    TaskOf,          \* [Txs -> task ids]
    Keys,            \* idempotency keys
    KeyOf,           \* [Txs -> Keys \cup {None}]
    RequestOf,       \* [Txs -> request hashes], over quote, parties and payload
    PlatformFeeBps,  \* platform_fee_bps
    MaxPerTask,      \* the mandate's max_per_task
    MaxDaily,        \* the mandate's max_daily
    Workers,         \* threads of the server's pool
    MaxRestarts,     \* bound: crashes of the server
    None

platform_fee(amount) ==
    LET share == (amount * PlatformFeeBps) \div 10000
    IN  IF share > 1 THEN share ELSE 1

ASSUME ServerParameters ==
    /\ QuoteOf \in [Txs -> Quotes]
    /\ KeyOf \in [Txs -> Keys \cup {None}]
    /\ \A c, d \in Txs :
          /\ RequestOf[c] = RequestOf[d] => QuoteOf[c] = QuoteOf[d]
          /\ QuoteOf[c] = QuoteOf[d] => Amount[c] = Amount[d]
    /\ PlatformFeeBps \in Nat
    /\ Fee = [c \in Txs |-> platform_fee(Amount[c])]
    /\ MaxPerTask \in Nat /\ MaxDaily \in Nat
    /\ Workers \in Nat \ {0} /\ MaxRestarts \in Nat
    /\ None \notin Txs

VARIABLES
    pc,              \* where each submission stands
    quotes,          \* self.quotes
    tasks,           \* self.tasks, by the submission that made the task
    receipts,        \* self.receipts, by transaction
    disputes,        \* self.disputes, by transaction
    supply,          \* Ledger.total_supply
    keys,            \* self.idempotency_records: submission by key
    pool_arg,        \* the fee pool that a save_balances() was called with
    rows_arg,        \* the rows that its executemany() has yet to insert
    committed,       \* the database file
    working,         \* what the connection sees: the file and what is not committed
    in_transaction,  \* Connection.in_transaction
    quoting,         \* quotes whose save_quote() has not committed yet
    disputing,       \* transactions whose save_dispute() has not committed yet
    issued,          \* history: quotes ever issued
    answered,        \* history: submissions whose client got the task
    overlapped,      \* history: two requests have been in progress at once
    restarts         \* crashes so far

memoryVars == <<quotes, tasks, receipts, disputes, keys, supply>>
argumentVars == <<pool_arg, rows_arg>>
fileVars == <<committed, working, in_transaction>>
otherVars == <<quoting, disputing>>
databaseVars == <<argumentVars, fileVars, otherVars>>
historyVars == <<issued, answered, overlapped, restarts>>
vars == <<plainVars, pc, memoryVars, databaseVars, historyVars>>

\* What is about to happen in submit_task(), and its ends: the task returned,
\* an error returned, or the process gone.
InProgress ==
    {"authorize", "settle", "total", "total_pool", "record",
     "transactions", "commit_transactions", "receipts", "commit_receipts",
     "tasks", "commit_tasks", "save_balances", "delete_rows", "read_rows", "insert_rows",
     "save_pool", "save_supply", "commit_rows", "remember_key", "save_key", "commit_key"}
Position == InProgress \cup {"new", "answered", "failed", "lost"}

\* BUG, for a mutant: the task is saved before its receipt.
TaskBeforeReceipt ==
    [commit_transactions |-> "tasks", commit_tasks |-> "receipts",
     commit_receipts |-> "save_balances"]

\* BUG, for a mutant: the balances are not saved with the task.
BalancesNotSaved ==
    [commit_transactions |-> "receipts", commit_receipts |-> "tasks",
     commit_tasks |-> "remember_key"]

\* _persist_state() saves these, in this order, and then the balances.
NextSave ==
    [commit_transactions |-> "receipts", commit_receipts |-> "tasks",
     commit_tasks |-> "save_balances"]
Statement == {"transactions", "receipts", "tasks"}
CommitOf ==
    [transactions |-> "commit_transactions", receipts |-> "commit_receipts",
     tasks |-> "commit_tasks"]

NoRows == [a \in {} |-> 0]
EmptyDatabase ==
    [transactions |-> {}, receipts |-> {}, tasks |-> {}, disputes |-> {},
     keys |-> [k \in Keys |-> None], rows |-> NoRows, pool |-> 0, supply |-> 0]

Init ==
    /\ LedgerInit
    /\ pc = [c \in Txs |-> "new"]
    /\ quotes = {} /\ tasks = {} /\ receipts = {} /\ disputes = {}
    /\ keys = [k \in Keys |-> None] /\ supply = total_supply
    /\ pool_arg = [c \in Txs |-> 0] /\ rows_arg = [c \in Txs |-> NoRows]
    /\ committed = EmptyDatabase /\ working = EmptyDatabase
    /\ in_transaction = FALSE /\ quoting = {} /\ disputing = {}
    /\ issued = {} /\ answered = {} /\ overlapped = FALSE /\ restarts = 0

Goto(c, position) == pc' = [pc EXCEPT ![c] = position]
At(c, position) == pc[c] = position
Busy == {c \in Txs : pc[c] \in InProgress}

\* A request that starts takes a thread and meets every request in progress.
Overlap ==
    /\ Cardinality(Busy) + Cardinality(quoting) + Cardinality(disputing) < Workers
    /\ overlapped' = (overlapped \/ Busy \cup disputing # {} \/ quoting # {})

\* A statement, which opens a transaction when none is open, and the
\* connection's commit() and rollback().
Execute(database) == working' = database /\ in_transaction' = TRUE /\ UNCHANGED committed
Commit == committed' = working /\ in_transaction' = FALSE /\ UNCHANGED working
Rollback == working' = committed /\ in_transaction' = FALSE /\ UNCHANGED committed
-----------------------------------------------------------------------------
(* request_quote() *)

\* The quote is kept in memory and saved; nothing loads the saved row again, so
\* of save_quote() only the transaction is kept ...
RequestQuote(q) ==
    /\ q \notin issued
    /\ quotes' = quotes \cup {q}
    /\ issued' = issued \cup {q}
    /\ Overlap
    /\ Execute(working)
    /\ quoting' = quoting \cup {q}
    /\ UNCHANGED <<plainVars, pc, tasks, receipts, disputes, keys, supply, argumentVars,
                   disputing, answered, restarts>>

\* ... and its commit.
CommitQuote(q) ==
    /\ q \in quoting
    /\ quoting' = quoting \ {q}
    /\ Commit
    /\ UNCHANGED <<plainVars, pc, memoryVars, argumentVars, disputing, historyVars>>
-----------------------------------------------------------------------------
(* submit_task() *)

\* BUG, for a mutant: the record of another name is looked up.
NoRecord(c) == None

\* The idempotency record that answers a submission, if there is one.
Record(c) == IF KeyOf[c] = None THEN None ELSE keys[KeyOf[c]]

Start(c) ==
    /\ At(c, "new")
    /\ Overlap

Lookup(c) ==
    /\ Start(c)
    /\ Record(c) = None
    /\ Goto(c, "authorize")
    /\ UNCHANGED <<plainVars, memoryVars, databaseVars, issued, answered, restarts>>

\* The record of the same request: its task is the answer.
Replay(c) ==
    /\ Start(c)
    /\ Record(c) # None /\ RequestOf[Record(c)] = RequestOf[c]
    /\ Goto(c, "answered")
    /\ UNCHANGED <<plainVars, memoryVars, databaseVars, issued, answered, restarts>>

\* "idempotency key conflict": the record of another request.
Conflict(c) ==
    /\ Start(c)
    /\ Record(c) # None /\ RequestOf[Record(c)] # RequestOf[c]
    /\ Goto(c, "failed")
    /\ UNCHANGED <<plainVars, memoryVars, databaseVars, issued, answered, restarts>>

\* The task id is new, the quote known, and the mandate allows the price.
Admitted(c) ==
    /\ \A d \in tasks : TaskOf[d] # TaskOf[c]
    /\ QuoteOf[c] \in quotes
    /\ MandateAllows(c, Txs, MaxPerTask, MaxDaily)

Authorize(c) ==
    /\ At(c, "authorize")
    /\ Goto(c, IF Admitted(c) THEN "settle" ELSE "failed")
    /\ UNCHANGED <<plainVars, memoryVars, databaseVars, historyVars>>

\* Ledger.settle(): its call, its steps, and what comes after it.
Settle(c) ==
    /\ At(c, "settle")
    /\ CallSettle(c) \/ SettleStep(c)
    /\ UNCHANGED <<pc, memoryVars, databaseVars, historyVars>>

SettleReturns(c) ==
    /\ At(c, "settle") /\ settling[c] \in SettleDone
    /\ Goto(c, IF settling[c] = "settled" THEN "total" ELSE "failed")
    /\ UNCHANGED <<plainVars, memoryVars, databaseVars, historyVars>>

\* verify_zero_sum() against the total_supply: the balances, then the fee pool.
SumTotal(c) ==
    /\ At(c, "total")
    /\ See(c, balances_total)
    /\ Goto(c, "total_pool")
    /\ UNCHANGED <<balances, fee_pool, transactions, settling, before,
                   memoryVars, databaseVars, historyVars>>

VerifyTotal(c) ==
    /\ At(c, "total_pool")
    /\ Goto(c, IF seen[c] + fee_pool = supply THEN "record" ELSE "failed")
    /\ See(c, 0)
    /\ UNCHANGED <<balances, fee_pool, transactions, settling, before,
                   memoryVars, databaseVars, historyVars>>

\* BUG, for a mutant: the tasks of one id are all kept.
WithAnyTask(known, c) == known \cup {c}

\* Tasks are kept by their id: the later of two replaces the earlier.
WithTask(known, c) == {d \in known : TaskOf[d] # TaskOf[c]} \cup {c}

\* The signed receipt and the task enter the service's memory.
RecordTask(c) ==
    /\ At(c, "record")
    /\ receipts' = receipts \cup {c}
    /\ tasks' = WithTask(tasks, c)
    /\ Goto(c, "transactions")
    /\ UNCHANGED <<plainVars, quotes, disputes, keys, supply, databaseVars, historyVars>>
-----------------------------------------------------------------------------
(* _persist_state() *)

\* _upsert_json(): the statement, which replaces the row of a known task id ...
Save(c) ==
    /\ pc[c] \in Statement
    /\ Execute([working EXCEPT ![pc[c]] =
                   IF At(c, "tasks") THEN WithTask(@, c) ELSE @ \cup {c}])
    /\ Goto(c, CommitOf[pc[c]])
    /\ UNCHANGED <<plainVars, memoryVars, argumentVars, otherVars, historyVars>>

\* ... and the commit at the end of its `with self.connection`.
CommitSave(c) ==
    /\ pc[c] \in DOMAIN NextSave
    /\ Commit
    /\ Goto(c, NextSave[pc[c]])
    /\ UNCHANGED <<plainVars, memoryVars, argumentVars, otherVars, historyVars>>

\* save_balances() is called with the live dict and the value of the pool.
SaveBalances(c) ==
    /\ At(c, "save_balances")
    /\ pool_arg' = [pool_arg EXCEPT ![c] = fee_pool]
    /\ Goto(c, "delete_rows")
    /\ UNCHANGED <<plainVars, memoryVars, rows_arg, fileVars, otherVars, historyVars>>

DeleteRows(c) ==
    /\ At(c, "delete_rows")
    /\ Execute([working EXCEPT !.rows = NoRows])
    /\ Goto(c, "read_rows")
    /\ UNCHANGED <<plainVars, memoryVars, argumentVars, otherVars, historyVars>>

WithRow(rows, a, n) == [x \in DOMAIN rows \cup {a} |-> IF x = a THEN n ELSE rows[x]]
WithoutRow(rows, a) == Restrict(rows, DOMAIN rows \ {a})

\* The list of rows is read from the live dict, an account at a time. Its order
\* is the dict's, of which nothing is assumed. (An account that a partial table
\* has lost has a row of 0 from then on, which loads as no row does.)
ReadRow(c, a) ==
    /\ At(c, "read_rows") /\ a \notin DOMAIN rows_arg[c]
    /\ rows_arg' = [rows_arg EXCEPT ![c] = WithRow(@, a, balances[a])]
    /\ Goto(c, IF DOMAIN rows_arg[c] \cup {a} = Accounts THEN "insert_rows" ELSE "read_rows")
    /\ UNCHANGED <<plainVars, memoryVars, pool_arg, fileVars, otherVars, historyVars>>

\* BUG, for a mutant: each row is committed by itself.
PutRowAlone(c, a) ==
    /\ working' = [working EXCEPT !.rows = WithRow(@, a, rows_arg[c][a])]
    /\ committed' = working' /\ in_transaction' = FALSE
    /\ rows_arg' = [rows_arg EXCEPT ![c] = WithoutRow(@, a)]
    /\ Goto(c, IF DOMAIN rows_arg[c] = {a} THEN "save_pool" ELSE "insert_rows")
    /\ UNCHANGED pool_arg

\* executemany() opens a transaction once, before the first row. When another
\* thread ends it between two rows, the rest are committed one by one.
PutRow(c, a) ==
    /\ working' = [working EXCEPT !.rows = WithRow(@, a, rows_arg[c][a])]
    /\ in_transaction' = (in_transaction \/ DOMAIN rows_arg[c] = Accounts)
    /\ committed' = IF in_transaction' THEN committed ELSE working'
    /\ rows_arg' = [rows_arg EXCEPT ![c] = WithoutRow(@, a)]
    /\ Goto(c, IF DOMAIN rows_arg[c] = {a} THEN "save_pool" ELSE "insert_rows")
    /\ UNCHANGED pool_arg

\* A row that another thread has inserted since the DELETE breaks the primary
\* key: everything uncommitted is rolled back and the request fails.
RefuseRow(c) ==
    /\ Rollback
    /\ Goto(c, "failed")
    /\ pool_arg' = [pool_arg EXCEPT ![c] = 0]
    /\ rows_arg' = [rows_arg EXCEPT ![c] = NoRows]

\* BUG, for a mutant: a row replaces the one that is there.
ReplaceRow(c, a) ==
    /\ At(c, "insert_rows") /\ a \in DOMAIN rows_arg[c]
    /\ PutRow(c, a)
    /\ UNCHANGED <<plainVars, memoryVars, otherVars, historyVars>>

InsertRow(c, a) ==
    /\ At(c, "insert_rows") /\ a \in DOMAIN rows_arg[c]
    /\ \/ a \notin DOMAIN working.rows /\ PutRow(c, a)
       \/ a \in DOMAIN working.rows /\ RefuseRow(c)
    /\ UNCHANGED <<plainVars, memoryVars, otherVars, historyVars>>

SavePool(c) ==
    /\ At(c, "save_pool")
    /\ Execute([working EXCEPT !.pool = pool_arg[c]])
    /\ pool_arg' = [pool_arg EXCEPT ![c] = 0]
    /\ Goto(c, "save_supply")
    /\ UNCHANGED <<plainVars, memoryVars, rows_arg, otherVars, historyVars>>

SaveSupply(c) ==
    /\ At(c, "save_supply")
    /\ Execute([working EXCEPT !.supply = supply])
    /\ Goto(c, "commit_rows")
    /\ UNCHANGED <<plainVars, memoryVars, argumentVars, otherVars, historyVars>>

Answer(c) ==
    /\ Goto(c, "answered")
    /\ answered' = answered \cup {c}
    /\ UNCHANGED <<issued, overlapped, restarts>>

CommitRows(c) ==
    /\ At(c, "commit_rows")
    /\ Commit
    /\ IF KeyOf[c] = None THEN Answer(c)
                          ELSE Goto(c, "remember_key") /\ UNCHANGED historyVars
    /\ UNCHANGED <<plainVars, memoryVars, argumentVars, otherVars>>
-----------------------------------------------------------------------------
(* _save_idempotency_record() *)

\* BUG, for a mutant: the record is kept in memory only.
RememberAndAnswer(c) ==
    /\ At(c, "remember_key")
    /\ keys' = [keys EXCEPT ![KeyOf[c]] = c]
    /\ Answer(c)
    /\ UNCHANGED <<plainVars, quotes, tasks, receipts, disputes, supply, databaseVars>>

RememberKey(c) ==
    /\ At(c, "remember_key")
    /\ keys' = [keys EXCEPT ![KeyOf[c]] = c]
    /\ Goto(c, "save_key")
    /\ UNCHANGED <<plainVars, quotes, tasks, receipts, disputes, supply, databaseVars,
                   historyVars>>

SaveKey(c) ==
    /\ At(c, "save_key")
    /\ Execute([working EXCEPT !.keys[KeyOf[c]] = c])
    /\ Goto(c, "commit_key")
    /\ UNCHANGED <<plainVars, memoryVars, argumentVars, otherVars, historyVars>>

CommitKey(c) ==
    /\ At(c, "commit_key")
    /\ Commit
    /\ Answer(c)
    /\ UNCHANGED <<plainVars, memoryVars, argumentVars, otherVars>>
-----------------------------------------------------------------------------
(* open_dispute() and the restart *)

\* The transaction is looked up in the ledger; the dispute is kept in memory and
\* saved ...
OpenDispute(t) ==
    /\ t \in transactions \ disputes
    /\ disputes' = disputes \cup {t}
    /\ Overlap
    /\ Execute([working EXCEPT !.disputes = @ \cup {t}])
    /\ disputing' = disputing \cup {t}
    /\ UNCHANGED <<plainVars, pc, quotes, tasks, receipts, keys, supply, argumentVars,
                   quoting, issued, answered, restarts>>

\* ... and committed.
CommitDispute(t) ==
    /\ t \in disputing
    /\ disputing' = disputing \ {t}
    /\ Commit
    /\ UNCHANGED <<plainVars, pc, memoryVars, argumentVars, quoting, historyVars>>

\* load_balances() takes what it finds for the whole, unless it finds no rows.
NothingStored == committed.rows = NoRows
LoadedBalances ==
    IF NothingStored THEN Opening
    ELSE [a \in Accounts |-> IF a \in DOMAIN committed.rows THEN committed.rows[a] ELSE 0]
LoadedPool == IF NothingStored THEN 0 ELSE committed.pool
LoadedSupply == IF NothingStored THEN total_supply ELSE committed.supply

\* BUG, for a mutant: the saved quotes are loaded too.
LoadedQuotes == issued

QuotesAfterRestart == {}

\* The process dies at any point and starts again: __init__() opens the two
\* accounts and _load_from_storage() overwrites what it finds stored.
Restart ==
    /\ restarts < MaxRestarts
    /\ restarts' = restarts + 1
    /\ pc' = [c \in Txs |-> IF c \in Busy THEN "lost" ELSE pc[c]]
    /\ balances' = LoadedBalances
    /\ fee_pool' = LoadedPool
    /\ supply' = LoadedSupply
    /\ transactions' = committed.transactions
    /\ keys' = committed.keys
    /\ tasks' = committed.tasks /\ receipts' = committed.receipts
    /\ disputes' = committed.disputes
    /\ quotes' = QuotesAfterRestart
    /\ Rollback
    /\ settling' = [c \in Txs |-> IF c \in Busy THEN "idle" ELSE settling[c]]
    /\ seen' = [c \in Txs |-> 0] /\ before' = [c \in Txs |-> 0]
    /\ pool_arg' = [c \in Txs |-> 0] /\ rows_arg' = [c \in Txs |-> NoRows]
    /\ quoting' = {} /\ disputing' = {}
    /\ UNCHANGED <<issued, answered, overlapped>>
-----------------------------------------------------------------------------
SubmitStep(c) ==
    \/ Lookup(c) \/ Replay(c) \/ Conflict(c) \/ Authorize(c)
    \/ Settle(c) \/ SettleReturns(c) \/ SumTotal(c) \/ VerifyTotal(c)
    \/ RecordTask(c) \/ Save(c) \/ CommitSave(c)
    \/ SaveBalances(c) \/ DeleteRows(c)
    \/ \E a \in Accounts : ReadRow(c, a) \/ InsertRow(c, a)
    \/ SavePool(c) \/ SaveSupply(c) \/ CommitRows(c)
    \/ RememberKey(c) \/ SaveKey(c) \/ CommitKey(c)

Next ==
    \/ \E q \in Quotes : RequestQuote(q) \/ CommitQuote(q)
    \/ \E c \in Txs : SubmitStep(c) \/ OpenDispute(c) \/ CommitDispute(c)
    \/ Restart

Spec == Init /\ [][Next]_vars
-----------------------------------------------------------------------------
(* Properties *)

StoreTypeOK(store) ==
    /\ store.transactions \subseteq Txs /\ store.receipts \subseteq Txs
    /\ store.tasks \subseteq Txs /\ store.disputes \subseteq Txs
    /\ store.keys \in [Keys -> Txs \cup {None}]
    /\ DOMAIN store.rows \subseteq Accounts /\ store.rows \in [DOMAIN store.rows -> Int]
    /\ store.pool \in Nat /\ store.supply \in {0, total_supply}

\* The shape of the state, stored balances that may lack an account included; a
\* task id names one task, whatever two submissions of it do.
ServerTypeOK ==
    /\ LedgerTypeOK
    /\ pc \in [Txs -> Position]
    /\ quotes \subseteq issued /\ issued \subseteq Quotes
    /\ tasks \subseteq Txs /\ receipts \subseteq Txs /\ disputes \subseteq Txs
    /\ \A c, d \in tasks : TaskOf[c] = TaskOf[d] => c = d
    /\ keys \in [Keys -> Txs \cup {None}]
    /\ supply \in {0, total_supply}
    /\ pool_arg \in [Txs -> Nat]
    /\ \A c \in Txs : /\ DOMAIN rows_arg[c] \subseteq Accounts
                      /\ rows_arg[c] \in [DOMAIN rows_arg[c] -> Int]
    /\ StoreTypeOK(committed) /\ StoreTypeOK(working)
    /\ in_transaction \in BOOLEAN /\ (~in_transaction => working = committed)
    /\ quoting \subseteq issued /\ disputing \subseteq disputes
    /\ answered \subseteq Txs /\ overlapped \in BOOLEAN
    /\ restarts \in 0..MaxRestarts

Settling(c) == At(c, "settle") /\ settling[c] \notin SettleDone

\* While requests come one at a time, a crash at any point keeps the supply:
\* the balances in memory outside settle(), and those that a restart would load
\* at every moment, add up with their fee pool to what the accounts opened with,
\* and that is the total_supply they are checked against.
SupplyKept ==
    ~overlapped =>
        /\ (\A c \in Txs : ~Settling(c)) => balances_total + fee_pool = total_supply
        /\ SumFunctionOnSet(LoadedBalances, Accounts) + LoadedPool = total_supply
        /\ supply = total_supply /\ LoadedSupply = total_supply
        /\ \A a \in Accounts : balances[a] >= 0

\* While requests come one at a time, what the client was given is in the
\* file: the transaction, its receipt, the task, the idempotency record.
AnsweredIsStored ==
    ~overlapped =>
        \A c \in answered :
            /\ c \in committed.transactions /\ c \in committed.receipts
            /\ c \in committed.tasks
            /\ KeyOf[c] # None => committed.keys[KeyOf[c]] = c

Spent(calls, a) ==
    SumFunctionOnSet([c \in Txs |-> IF c \in calls /\ Sender[c] = a THEN Total(c) ELSE 0],
                     Txs)
Earned(calls, a) ==
    SumFunctionOnSet([c \in Txs |-> IF c \in calls /\ Receiver[c] = a THEN Amount[c] ELSE 0],
                     Txs)

\* While requests come one at a time, the money follows the records across
\* crashes: an account has paid for every task that was answered and for
\* nothing that has no transaction. (Between the two there is slack: a crash
\* between two commits leaves a transaction whose money has not moved.)
MoneyFollowsRecords ==
    ~overlapped /\ Busy = {} =>
        \A a \in Accounts :
            /\ balances[a] >= Opening[a] - Spent(transactions, a) + Earned(answered, a)
            /\ balances[a] <= Opening[a] - Spent(answered, a) + Earned(transactions, a)

\* While requests come one at a time, the file never holds a record without
\* the one it refers to: key, task, receipt, transaction, and dispute.
StoredInOrder ==
    ~overlapped =>
        /\ \A k \in Keys : committed.keys[k] \in committed.tasks \cup {None}
        /\ committed.tasks \subseteq committed.receipts
        /\ committed.receipts \subseteq committed.transactions
        /\ committed.disputes \subseteq committed.transactions

SameRequest(c, d) == KeyOf[c] # None /\ KeyOf[c] = KeyOf[d] /\ RequestOf[c] = RequestOf[d]

\* While requests come one at a time, a retry with the key of an unanswered
\* submission is not charged again, whatever point the crash cut it off at:
\* the record is not stored yet, but the quote is gone with the memory.
RequestChargedOnce ==
    ~overlapped =>
        \A c, d \in transactions : SameRequest(c, d) => c = d

\* A retry of an answered submission is never charged, even if other requests
\* overlap either of them: it gets past the lookup only after a restart, when
\* a rollback has lost the record that was answered, and then its quote, whose
\* id is never issued again, is gone.
RetryAfterAnswerIsFree ==
    [][\A c, d \in Txs :
          d \in answered /\ SameRequest(c, d) /\ Lookup(c)
              => restarts > 0 /\ QuoteOf[c] \in issued \ quotes]_vars

\* Any number of requests may save balances at once. If all of them have been
\* answered, the rows in the file are the balances, every account's: whoever
\* deletes the rows of another, and inserts before it has inserted its own
\* again, is stopped by the primary key, or stops it.
AnsweredBalancesAreStored ==
    (\A c \in Txs : pc[c] \in {"new", "answered"}) => LoadedBalances = balances

\* tests/test_idempotency.py:30 has it that an idempotency key prevents a
\* double charge.
KeyPreventsDoubleCharge ==
    \A c, d \in transactions : SameRequest(c, d) => c = d
=============================================================================
