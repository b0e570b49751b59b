------------------------ MODULE ReferenceServerProofs ------------------------
(***************************************************************************)
(* The reference server for any number of requests, keys, threads and      *)
(* crashes: a retry of what was answered is free, and balances whose saves *)
(* were all answered are in the file, even if requests overlap; and while  *)
(* they come one at a time, what is on the disk is in order, adds up, and  *)
(* holds what was answered, wherever a crash falls.                        *)
(***************************************************************************)
EXTENDS ReferenceServer, PlainLedgerProofs

\* Rows of some of the accounts.
Rows == UNION {[known -> Int] : known \in SUBSET Accounts}

Store ==
    [transactions : SUBSET Txs, receipts : SUBSET Txs, tasks : SUBSET Txs,
     disputes : SUBSET Txs, keys : [Keys -> Txs \cup {None}],
     rows : Rows, pool : Nat, supply : {0, total_supply}]

OneTaskPerId(known) == \A c, d \in known : TaskOf[c] = TaskOf[d] => c = d

\* The types, with those of the file as records, and one task per id in it too.
ServerShape ==
    /\ ServerTypeOK
    /\ committed \in Store /\ working \in Store /\ rows_arg \in [Txs -> Rows]
    /\ OneTaskPerId(committed.tasks) /\ OneTaskPerId(working.tasks)

\* The submissions that stand at one of some positions.
Standing(positions) == {c \in Txs : pc[c] \in positions}

AfterAdmission == InProgress \ {"authorize"}
KeyKept == {"save_key", "commit_key"}

\* An answered key has a record, or the quote of its request is gone for good.
RecordOrNoQuote ==
    /\ \A c \in Standing(AfterAdmission) \cup answered : QuoteOf[c] \in issued
    /\ \A c \in Standing({"remember_key"} \cup KeyKept) : KeyOf[c] # None
    /\ \A c \in Standing(KeyKept) : KeyOf[c] \in Keys => keys[KeyOf[c]] # None
    /\ \A c \in answered :
          KeyOf[c] # None => \/ keys[KeyOf[c]] # None
                             \/ restarts > 0 /\ QuoteOf[c] \notin quotes
-----------------------------------------------------------------------------
(* The requests come one at a time *)

Alone ==
    /\ \A c, d \in Busy : c = d
    /\ Busy # {} => quoting = {} /\ disputing = {}

\* A submission is charged by its own settle(), which nobody disturbs.
Charging ==
    /\ \A c \in Txs : pc[c] \in {"new", "authorize"} => settling[c] = "idle"
    /\ \A c \in Standing({"new", "authorize", "settle"}) : AppendedWhenPaid(c)
    /\ \A c \in Busy : /\ SettleSound(c)
                       /\ pc[c] \notin {"authorize", "settle"} => settling[c] = "settled"
    /\ \A c \in Standing({"total_pool"}) : seen[c] = balances_total
    /\ NoDebt

\* The supply is there, but for what a settle() has taken and not yet given.
Supply ==
    /\ supply = total_supply
    /\ \A c \in Busy : Debited(c) => balances_total + fee_pool + Total(c) = total_supply
    /\ (\A c \in Busy : ~Debited(c)) => balances_total + fee_pool = total_supply

StoredSupply ==
    committed.rows # NoRows =>
        /\ DOMAIN committed.rows = Accounts /\ committed.supply = total_supply
        /\ SumFunctionOnSet(committed.rows, Accounts) + committed.pool = total_supply
        /\ \A a \in Accounts : committed.rows[a] >= 0

\* What the connection sees is the file and the one statement not committed.
Uncommitted ==
    /\ working.transactions = committed.transactions \cup Standing({"commit_transactions"})
    /\ working.receipts = committed.receipts \cup Standing({"commit_receipts"})
    /\ working.tasks = committed.tasks \cup Standing({"commit_tasks"})
    /\ working.disputes = committed.disputes \cup disputing
    /\ \A k \in Keys : \/ working.keys[k] = committed.keys[k]
                       \/ /\ working.keys[k] \in Standing({"commit_key"})
                          /\ KeyOf[working.keys[k]] = k
    /\ \A c \in Standing({"commit_key"}) : working.keys[KeyOf[c]] = c

\* The rows are deleted, read and inserted in a transaction that nobody ends:
\* what is inserted, and what is yet to be, are the live balances.
AreBalances(rows) == \A a \in DOMAIN rows : rows[a] = balances[a]
ReadOrInserted == {"read_rows", "insert_rows"}
Inserted == {"save_pool", "save_supply", "commit_rows"}
PoolWritten == {"save_supply", "commit_rows"}
UncommittedRows ==
    /\ Standing(ReadOrInserted \cup Inserted) = {} => working.rows = committed.rows
    /\ \A c \in Standing(ReadOrInserted \cup Inserted) :
          in_transaction /\ AreBalances(working.rows)
    /\ \A c \in Standing({"read_rows"}) : DOMAIN working.rows = {}
    /\ \A c \in Standing({"insert_rows"}) :
          DOMAIN working.rows = Accounts \ DOMAIN rows_arg[c]
    /\ \A c \in Standing(Inserted) : DOMAIN working.rows = Accounts
    /\ \A c \in Standing(ReadOrInserted) : AreBalances(rows_arg[c])
    /\ \A c \in Txs : pc[c] \notin ReadOrInserted => DOMAIN rows_arg[c] = {}
    /\ \A c \in Standing({"delete_rows", "save_pool"} \cup ReadOrInserted) :
          pool_arg[c] = fee_pool
    /\ working.pool = IF Standing(PoolWritten) = {} THEN committed.pool ELSE fee_pool
    /\ working.supply = IF Standing({"commit_rows"}) = {} THEN committed.supply ELSE supply

\* What is known in memory is the file and what the request has yet to save.
Charged(c) == pc[c] = "settle" /\ settling[c] \in {"sum", "sum_pool", "settled"}
SavingTransaction == {"total", "total_pool", "record", "transactions", "commit_transactions"}
SavingReceipt == {"transactions", "commit_transactions", "receipts", "commit_receipts"}
SavingTask == SavingReceipt \cup {"tasks", "commit_tasks"}
Unsaved ==
    /\ transactions = committed.transactions \cup Standing(SavingTransaction)
                                             \cup {c \in Txs : Charged(c)}
    /\ receipts = committed.receipts \cup Standing(SavingReceipt)
    /\ tasks = committed.tasks \cup Standing(SavingTask)
    /\ disputes = committed.disputes \cup disputing
    /\ \A k \in Keys : \/ keys[k] = committed.keys[k]
                       \/ keys[k] \in Standing(KeyKept) /\ KeyOf[keys[k]] = k
    /\ \A c \in Standing(KeyKept) : keys[KeyOf[c]] = c

\* A request that is past its checks has no record and no task yet.
BeforeRecord == InProgress \ KeyKept
BeforeTask == {"settle", "total", "total_pool", "record"} \cup SavingTask
FreshRequest ==
    /\ \A c \in Standing(BeforeRecord) : Record(c) = None
    /\ \A c \in Standing(KeyKept) : committed.keys[KeyOf[c]] = None
    /\ \A c \in Standing(BeforeTask) : \A d \in committed.tasks : TaskOf[d] # TaskOf[c]

\* Each record is stored after the one it refers to.
InTransactions == InProgress \ ({"authorize", "settle"} \cup SavingTransaction)
InReceipts == InTransactions \ {"receipts", "commit_receipts"}
InTasks == InReceipts \ {"tasks", "commit_tasks"}
StoredByNow ==
    /\ StoredInOrder /\ disputing \subseteq committed.transactions
    /\ Standing(InTransactions) \subseteq committed.transactions
    /\ Standing(InReceipts) \subseteq committed.receipts
    /\ Standing(InTasks) \subseteq committed.tasks

\* A charged request is in progress, or has a record, or no quote any more.
ChargedOnce ==
    /\ \A c \in transactions : QuoteOf[c] \in issued
    /\ \A c \in transactions :
          KeyOf[c] # None => \/ c \in Busy
                             \/ keys[KeyOf[c]] # None
                             \/ QuoteOf[c] \notin quotes
    /\ \A c, d \in transactions : SameRequest(c, d) => c = d
    /\ \A c \in transactions, d \in Standing({"settle"}) \ transactions : ~SameRequest(c, d)

\* The balances are those that a set of submissions has paid for: all that were
\* answered, and none without a transaction. So are the stored ones.
Accounted(calls, a) == Opening[a] - Spent(calls, a) + Earned(calls, a)
Taken(a) == {c \in Txs : pc[c] = "settle" /\ Debited(c) /\ Sender[c] = a}

Payers ==
    \E paid \in SUBSET Txs :
        /\ answered \subseteq paid
        /\ paid \subseteq transactions \cup {c \in Txs : pc[c] = "settle" /\ Credited(c)}
        /\ \A c \in Busy : c \in paid <=> Credited(c)
        /\ \A a \in Accounts :
              /\ Taken(a) = {} => balances[a] = Accounted(paid, a)
              /\ \A c \in Taken(a) : balances[a] = Accounted(paid, a) - Total(c)

StoredPayers ==
    \E paid \in SUBSET Txs :
        /\ answered \cup Standing({"remember_key"} \cup KeyKept) \subseteq paid
        /\ paid \subseteq committed.transactions
        /\ \A a \in Accounts : LoadedBalances[a] = Accounted(paid, a)

Sequential ==
    /\ Alone /\ Charging /\ Supply /\ StoredSupply /\ Uncommitted /\ UncommittedRows
    /\ Unsaved /\ FreshRequest /\ StoredByNow /\ AnsweredIsStored /\ ChargedOnce
    /\ Payers /\ StoredPayers

ServerInv == ServerShape /\ RecordOrNoQuote /\ (~overlapped => Sequential)
-----------------------------------------------------------------------------
(* The types *)

LEMMA RowsType ==
    ASSUME NEW rows
    PROVE  rows \in Rows <=> DOMAIN rows \subseteq Accounts /\ rows \in [DOMAIN rows -> Int]
BY DEF Rows

LEMMA NoRowsType == NoRows \in Rows /\ DOMAIN NoRows = {}
BY DEF NoRows, Rows

\* One row more, and one less.
LEMMA RowMoves ==
    ASSUME NEW rows \in Rows, NEW a \in Accounts, NEW n \in Int
    PROVE  WithRow(rows, a, n) \in Rows /\ WithoutRow(rows, a) \in Rows
<1>1. DOMAIN rows \subseteq Accounts /\ \A x \in DOMAIN rows : rows[x] \in Int
  BY RowsType
<1>2. WithRow(rows, a, n) \in [DOMAIN rows \cup {a} -> Int]
  BY <1>1 DEF WithRow
<1>3. WithoutRow(rows, a) \in [DOMAIN rows \ {a} -> Int]
  BY <1>1 DEF WithoutRow, Restrict
<1>4. DOMAIN rows \cup {a} \in SUBSET Accounts /\ DOMAIN rows \ {a} \in SUBSET Accounts
  BY <1>1
<1> QED BY <1>2, <1>3, <1>4 DEF Rows

LEMMA StoreFields ==
    ASSUME NEW store \in Store
    PROVE  StoreTypeOK(store)
BY RowsType DEF Store, StoreTypeOK

LEMMA EmptyIsStore == EmptyDatabase \in Store
BY NoRowsType DEF EmptyDatabase, Store

LEMMA WithTaskIsDistinct ==
    ASSUME NEW known \in SUBSET Txs, OneTaskPerId(known), NEW c \in Txs
    PROVE  /\ WithTask(known, c) \in SUBSET Txs /\ OneTaskPerId(WithTask(known, c))
           /\ c \in WithTask(known, c)
BY DEF WithTask, OneTaskPerId

\* The parts of the type that do not concern the database.
MemoryShape ==
    /\ LedgerTypeOK
    /\ pc \in [Txs -> Position]
    /\ quotes \subseteq issued /\ issued \subseteq Quotes
    /\ tasks \subseteq Txs /\ receipts \subseteq Txs /\ disputes \subseteq Txs
    /\ OneTaskPerId(tasks)
    /\ keys \in [Keys -> Txs \cup {None}]
    /\ supply \in {0, total_supply}
    /\ pool_arg \in [Txs -> Nat] /\ rows_arg \in [Txs -> Rows]
    /\ quoting \subseteq issued /\ disputing \subseteq disputes
    /\ answered \subseteq Txs /\ overlapped \in BOOLEAN
    /\ restarts \in 0..MaxRestarts

DiskShape ==
    /\ committed \in Store /\ working \in Store
    /\ in_transaction \in BOOLEAN /\ (~in_transaction => working = committed)
    /\ OneTaskPerId(committed.tasks) /\ OneTaskPerId(working.tasks)

LEMMA ShapeParts ==
    /\ ServerShape <=> MemoryShape /\ DiskShape
    /\ ServerShape' <=> MemoryShape' /\ DiskShape'
<1>1. ASSUME NEW args \in [Txs -> Rows], NEW c \in Txs
      PROVE  DOMAIN args[c] \subseteq Accounts /\ args[c] \in [DOMAIN args[c] -> Int]
  BY <1>1, RowsType
<1>2. ServerShape <=> MemoryShape /\ DiskShape
  BY <1>1, StoreFields DEF ServerShape, ServerTypeOK, MemoryShape, DiskShape, OneTaskPerId
<1>3. ServerShape' <=> MemoryShape' /\ DiskShape'
  BY <1>1, StoreFields DEF ServerShape, ServerTypeOK, MemoryShape, DiskShape, OneTaskPerId
<1> QED BY <1>2, <1>3

LEMMA SubmitMemoryShape ==
    ASSUME MemoryShape, DiskShape, NEW c \in Txs, SubmitStep(c)
    PROVE  MemoryShape'
<1> USE DEF MemoryShape, LedgerTypeOK, At, Goto, Start, Overlap, See, plainVars, memoryVars,
            databaseVars, argumentVars, fileVars, otherVars, historyVars, Position, InProgress
<1>1. CASE Lookup(c)
  BY <1>1 DEF Lookup
<1>2. CASE Replay(c)
  BY <1>2 DEF Replay
<1>3. CASE Conflict(c)
  BY <1>3 DEF Conflict
<1>4. CASE Authorize(c)
  BY <1>4 DEF Authorize
<1>5. CASE Settle(c)
  BY <1>5, SettleFrame, BalancesTotalType DEF Settle
<1>6. CASE SettleReturns(c)
  BY <1>6 DEF SettleReturns
<1>7. CASE SumTotal(c)
  BY <1>7, BalancesTotalType DEF SumTotal, LedgerTypeOK
<1>8. CASE VerifyTotal(c)
  BY <1>8 DEF VerifyTotal, LedgerTypeOK
<1>9. CASE RecordTask(c)
  BY <1>9, WithTaskIsDistinct DEF RecordTask
<1>10. CASE Save(c)
  BY <1>10 DEF Save, CommitOf, Statement
<1>11. CASE CommitSave(c)
  BY <1>11 DEF CommitSave, NextSave
<1>12. CASE SaveBalances(c)
  BY <1>12 DEF SaveBalances
<1>13. CASE DeleteRows(c)
  BY <1>13 DEF DeleteRows
<1>14. CASE \E a \in Accounts : ReadRow(c, a)
  <2>1. PICK a \in Accounts : ReadRow(c, a)
    BY <1>14
  <2>2. WithRow(rows_arg[c], a, balances[a]) \in Rows
    BY RowMoves
  <2> QED BY <2>1, <2>2 DEF ReadRow
<1>15. CASE \E a \in Accounts : InsertRow(c, a)
  <2>1. PICK a \in Accounts : InsertRow(c, a)
    BY <1>15
  <2>2. WithoutRow(rows_arg[c], a) \in Rows /\ NoRows \in Rows
    BY RowMoves, NoRowsType
  <2>3. CASE PutRow(c, a)
    BY <2>1, <2>2, <2>3 DEF InsertRow, PutRow
  <2>4. CASE RefuseRow(c)
    BY <2>1, <2>2, <2>4 DEF InsertRow, RefuseRow
  <2> QED BY <2>1, <2>3, <2>4 DEF InsertRow
<1>16. CASE SavePool(c)
  BY <1>16 DEF SavePool
<1>17. CASE SaveSupply(c)
  BY <1>17 DEF SaveSupply
<1>18. CASE CommitRows(c)
  BY <1>18 DEF CommitRows, Answer
<1>19. CASE RememberKey(c)
  BY <1>19 DEF RememberKey
<1>20. CASE SaveKey(c)
  BY <1>20 DEF SaveKey
<1>21. CASE CommitKey(c)
  BY <1>21 DEF CommitKey, Answer
<1> QED BY <1>1, <1>2, <1>3, <1>4, <1>5, <1>6, <1>7, <1>8, <1>9, <1>10, <1>11, <1>12, <1>13,
         <1>14, <1>15, <1>16, <1>17, <1>18, <1>19, <1>20, <1>21 DEF SubmitStep

LEMMA SubmitDiskShape ==
    ASSUME MemoryShape, DiskShape, NEW c \in Txs, SubmitStep(c)
    PROVE  DiskShape'
<1> USE DEF MemoryShape, DiskShape, At, databaseVars, argumentVars, fileVars, otherVars,
            Execute, Commit, Rollback, Start
<1>1. CASE Lookup(c)
  BY <1>1 DEF Lookup
<1>2. CASE Replay(c)
  BY <1>2 DEF Replay
<1>3. CASE Conflict(c)
  BY <1>3 DEF Conflict
<1>4. CASE Authorize(c)
  BY <1>4 DEF Authorize
<1>5. CASE Settle(c)
  BY <1>5 DEF Settle
<1>6. CASE SettleReturns(c)
  BY <1>6 DEF SettleReturns
<1>7. CASE SumTotal(c)
  BY <1>7 DEF SumTotal
<1>8. CASE VerifyTotal(c)
  BY <1>8 DEF VerifyTotal
<1>9. CASE RecordTask(c)
  BY <1>9 DEF RecordTask
<1>10. CASE Save(c)
  BY <1>10, WithTaskIsDistinct DEF Save, CommitOf, Statement, Store
<1>11. CASE CommitSave(c)
  BY <1>11 DEF CommitSave, NextSave
<1>12. CASE SaveBalances(c)
  BY <1>12 DEF SaveBalances
<1>13. CASE DeleteRows(c)
  BY <1>13, NoRowsType DEF DeleteRows, Store
<1>14. CASE \E a \in Accounts : ReadRow(c, a)
  BY <1>14 DEF ReadRow
<1>15. CASE \E a \in Accounts : InsertRow(c, a)
  <2>1. PICK a \in Accounts : InsertRow(c, a)
    BY <1>15
  <2> DEFINE rows == WithRow(working.rows, a, rows_arg[c][a])
  <2>2. CASE PutRow(c, a)
    <3>1. a \in DOMAIN rows_arg[c] /\ rows_arg[c] \in Rows /\ working.rows \in Rows
      BY <2>1 DEF InsertRow, Store
    <3>2. rows_arg[c][a] \in Int
      BY <3>1, RowsType
    <3>3. rows \in Rows
      BY <3>1, <3>2, RowMoves
    <3>4. /\ working' = [working EXCEPT !.rows = rows]
          /\ in_transaction' \in BOOLEAN
          /\ committed' = IF in_transaction' THEN committed ELSE working'
      BY <2>2 DEF PutRow
    <3> HIDE DEF rows
    <3>5. working' \in Store /\ working'.tasks = working.tasks
      BY <3>3, <3>4 DEF Store
    <3> QED BY <3>4, <3>5
  <2>3. CASE RefuseRow(c)
    BY <2>1, <2>3 DEF RefuseRow
  <2> QED BY <2>1, <2>2, <2>3 DEF InsertRow
<1>16. CASE SavePool(c)
  BY <1>16 DEF SavePool, Store
<1>17. CASE SaveSupply(c)
  BY <1>17 DEF SaveSupply, Store
<1>18. CASE CommitRows(c)
  BY <1>18 DEF CommitRows, Answer
<1>19. CASE RememberKey(c)
  BY <1>19 DEF RememberKey
<1>20. CASE SaveKey(c)
  BY <1>20 DEF SaveKey, Store
<1>21. CASE CommitKey(c)
  BY <1>21 DEF CommitKey, Answer
<1> QED BY <1>1, <1>2, <1>3, <1>4, <1>5, <1>6, <1>7, <1>8, <1>9, <1>10, <1>11, <1>12, <1>13,
         <1>14, <1>15, <1>16, <1>17, <1>18, <1>19, <1>20, <1>21 DEF SubmitStep

LEMMA LoadedType ==
    ASSUME committed \in Store
    PROVE  /\ LoadedBalances \in [Accounts -> Int] /\ LoadedPool \in Nat
           /\ LoadedSupply \in {0, total_supply}
<1>1. \A a \in DOMAIN committed.rows : committed.rows[a] \in Int
  BY RowsType DEF Store
<1> QED BY <1>1, LedgerParameters
        DEF Store, LoadedBalances, LoadedPool, LoadedSupply, NothingStored

\* The steps of a request for a quote and of a dispute.
QuoteOrDispute ==
    \/ \E q \in Quotes : RequestQuote(q) \/ CommitQuote(q)
    \/ \E t \in Txs : OpenDispute(t) \/ CommitDispute(t)

LEMMA OtherShape ==
    ASSUME MemoryShape, DiskShape, QuoteOrDispute \/ Restart \/ UNCHANGED vars
    PROVE  MemoryShape' /\ DiskShape'
<1> USE DEF MemoryShape, DiskShape
<1>1. CASE QuoteOrDispute
  <2> USE DEF Overlap, Execute, Commit, plainVars, memoryVars, argumentVars, historyVars,
              LedgerTypeOK
  <2>1. ASSUME NEW q \in Quotes, RequestQuote(q) PROVE MemoryShape' /\ DiskShape'
    BY <2>1 DEF RequestQuote
  <2>2. ASSUME NEW q \in Quotes, CommitQuote(q) PROVE MemoryShape' /\ DiskShape'
    BY <2>2 DEF CommitQuote
  <2>3. ASSUME NEW t \in Txs, OpenDispute(t) PROVE MemoryShape' /\ DiskShape'
    BY <2>3 DEF OpenDispute, Store
  <2>4. ASSUME NEW t \in Txs, CommitDispute(t) PROVE MemoryShape' /\ DiskShape'
    BY <2>4 DEF CommitDispute
  <2> QED BY <1>1, <2>1, <2>2, <2>3, <2>4 DEF QuoteOrDispute
<1>2. CASE Restart
  <2>1. LedgerTypeOK' /\ (rows_arg \in [Txs -> Rows])'
    BY <1>2, LoadedType, NoRowsType DEF Restart, LedgerTypeOK, Store, SettlePosition
  <2>2. MemoryShape'
    BY <1>2, <2>1, LoadedType, ServerParameters
       DEF Restart, Rollback, Store, QuotesAfterRestart, Position
  <2>3. DiskShape'
    BY <1>2 DEF Restart, Rollback
  <2> QED BY <2>2, <2>3
<1>3. CASE UNCHANGED vars
  BY <1>3 DEF vars, plainVars, memoryVars, databaseVars, argumentVars, fileVars, otherVars,
     historyVars, LedgerTypeOK
<1> QED BY <1>1, <1>2, <1>3

LEMMA ServerInitShape == Init => ServerShape
<1> SUFFICES ASSUME Init PROVE ServerShape
  OBVIOUS
<1>1. LedgerTypeOK
  BY LedgerParameters DEF Init, LedgerInit, LedgerTypeOK, SettlePosition
<1>2. MemoryShape
  <2>0. rows_arg \in [Txs -> Rows]
    BY NoRowsType DEF Init
  <2>1. OneTaskPerId(tasks) /\ restarts \in 0..MaxRestarts
    BY ServerParameters DEF Init, OneTaskPerId
  <2> QED BY <1>1, <2>0, <2>1 DEF Init, MemoryShape, Position
<1>3. DiskShape
  BY EmptyIsStore DEF Init, DiskShape, EmptyDatabase, OneTaskPerId
<1> QED BY <1>2, <1>3, ShapeParts

LEMMA ServerStepShape == ServerShape /\ [Next]_vars => ServerShape'
<1> SUFFICES ASSUME MemoryShape, DiskShape, [Next]_vars PROVE MemoryShape' /\ DiskShape'
  BY ShapeParts, OtherShape
<1> QED BY SubmitMemoryShape, SubmitDiskShape, OtherShape DEF Next, QuoteOrDispute

LEMMA AlwaysServerShape == Spec => []ServerShape
BY ServerInitShape, ServerStepShape, PTL DEF Spec

\* Whatever part of the balances is stored, the stored rows are rows of accounts,
\* and a task id names one task in memory and in the file, however many requests,
\* crashes and retries there are.
THEOREM ServerTypeCorrect == Spec => []ServerTypeOK
BY AlwaysServerShape, PTL DEF ServerShape
-----------------------------------------------------------------------------
(* A retry of an answered submission, with overlapping requests *)

LEMMA SubmitKeepsRecordOrNoQuote ==
    ASSUME ServerShape, RecordOrNoQuote, NEW c \in Txs, SubmitStep(c)
    PROVE  RecordOrNoQuote'
<1>0. MemoryShape
  BY ShapeParts
<1> USE <1>0, ServerParameters
    DEF MemoryShape, RecordOrNoQuote, Standing, At, Goto, Start, memoryVars, historyVars,
        AfterAdmission, KeyKept, InProgress
<1>1. CASE Lookup(c)
  BY <1>1 DEF Lookup
<1>2. CASE Replay(c)
  BY <1>2 DEF Replay
<1>3. CASE Conflict(c)
  BY <1>3 DEF Conflict
<1>4. CASE Authorize(c)
  BY <1>4 DEF Authorize, Admitted
<1>5. CASE Settle(c)
  BY <1>5 DEF Settle
<1>6. CASE SettleReturns(c)
  BY <1>6 DEF SettleReturns
<1>7. CASE SumTotal(c)
  BY <1>7 DEF SumTotal
<1>8. CASE VerifyTotal(c)
  BY <1>8 DEF VerifyTotal
<1>9. CASE RecordTask(c)
  BY <1>9 DEF RecordTask
<1>10. CASE Save(c)
  BY <1>10 DEF Save, CommitOf, Statement
<1>11. CASE CommitSave(c)
  BY <1>11 DEF CommitSave, NextSave
<1>12. CASE SaveBalances(c)
  BY <1>12 DEF SaveBalances
<1>13. CASE DeleteRows(c)
  BY <1>13 DEF DeleteRows
<1>14. CASE \E a \in Accounts : ReadRow(c, a)
  BY <1>14 DEF ReadRow
<1>15. CASE \E a \in Accounts : InsertRow(c, a)
  BY <1>15 DEF InsertRow, PutRow, RefuseRow
<1>16. CASE SavePool(c)
  BY <1>16 DEF SavePool
<1>17. CASE SaveSupply(c)
  BY <1>17 DEF SaveSupply
<1>18. CASE CommitRows(c)
  BY <1>18 DEF CommitRows, Answer
<1>19. CASE RememberKey(c)
  BY <1>19 DEF RememberKey
<1>20. CASE SaveKey(c)
  BY <1>20 DEF SaveKey
<1>21. CASE CommitKey(c)
  BY <1>21 DEF CommitKey, Answer
<1> QED BY <1>1, <1>2, <1>3, <1>4, <1>5, <1>6, <1>7, <1>8, <1>9, <1>10, <1>11, <1>12, <1>13,
         <1>14, <1>15, <1>16, <1>17, <1>18, <1>19, <1>20, <1>21 DEF SubmitStep

LEMMA StepKeepsRecordOrNoQuote ==
    ServerShape /\ RecordOrNoQuote /\ [Next]_vars => RecordOrNoQuote'
<1> SUFFICES ASSUME ServerShape, RecordOrNoQuote, [Next]_vars PROVE RecordOrNoQuote'
  OBVIOUS
<1>0. MemoryShape
  BY ShapeParts
<1>1. ASSUME NEW q \in Quotes, RequestQuote(q) \/ CommitQuote(q) PROVE RecordOrNoQuote'
  BY <1>0, <1>1 DEF MemoryShape, RequestQuote, CommitQuote, RecordOrNoQuote, Standing,
     memoryVars, historyVars
<1>2. ASSUME NEW t \in Txs, OpenDispute(t) \/ CommitDispute(t) PROVE RecordOrNoQuote'
  BY <1>0, <1>2 DEF MemoryShape, OpenDispute, CommitDispute, RecordOrNoQuote, Standing,
     memoryVars, historyVars
<1>3. ASSUME Restart PROVE RecordOrNoQuote'
  <2>1. \A c \in Txs : pc'[c] \notin InProgress
    BY <1>3 DEF Restart, Busy, InProgress
  <2>2. restarts \in Nat /\ restarts' > 0 /\ quotes' = {}
    BY <1>0, <1>3, ServerParameters DEF MemoryShape, Restart, QuotesAfterRestart
  <2> QED BY <1>3, <2>1, <2>2
          DEF Restart, RecordOrNoQuote, Standing, AfterAdmission, KeyKept, InProgress
<1>4. ASSUME UNCHANGED vars PROVE RecordOrNoQuote'
  BY <1>4 DEF vars, memoryVars, historyVars, RecordOrNoQuote, Standing
<1> QED BY <1>1, <1>2, <1>3, <1>4, SubmitKeepsRecordOrNoQuote DEF Next

LEMMA AlwaysRecordOrNoQuote == Spec => []RecordOrNoQuote
<1>1. Init => RecordOrNoQuote
  BY DEF Init, RecordOrNoQuote, Standing, AfterAdmission, KeyKept, InProgress
<1> QED BY <1>1, StepKeepsRecordOrNoQuote, AlwaysServerShape, PTL DEF Spec

\* A retry of an answered submission gets past the lookup only after a restart
\* that lost the record, and then its quote is gone, so it is never charged.
THEOREM RetryIsFree == Spec => RetryAfterAnswerIsFree
<1>1. ASSUME ServerShape, RecordOrNoQuote, NEW c \in Txs, NEW d \in Txs,
             d \in answered, SameRequest(c, d), Lookup(c)
      PROVE  restarts > 0 /\ QuoteOf[c] \in issued \ quotes
  <2>1. keys[KeyOf[d]] = None /\ KeyOf[d] # None
    BY <1>1 DEF SameRequest, Lookup, Record
  <2>2. QuoteOf[c] = QuoteOf[d]
    BY <1>1, ServerParameters DEF SameRequest
  <2> QED BY <1>1, <2>1, <2>2 DEF RecordOrNoQuote
<1>2. ServerShape /\ RecordOrNoQuote =>
         \A c, d \in Txs : d \in answered /\ SameRequest(c, d) /\ Lookup(c)
                             => restarts > 0 /\ QuoteOf[c] \in issued \ quotes
  BY <1>1
<1> QED BY <1>2, AlwaysServerShape, AlwaysRecordOrNoQuote, PTL DEF RetryAfterAnswerIsFree

-----------------------------------------------------------------------------
(* Requests that come one at a time *)

\* Nobody but c is in progress.
Only(c) == \A d \in Txs \ {c} : pc[d] \notin InProgress

\* A step of a submission moves its own position, and takes it nowhere unless it
\* is in progress or starts.
LEMMA SubmitFrame ==
    ASSUME MemoryShape, NEW c \in Txs, SubmitStep(c)
    PROVE  /\ \A d \in Txs \ {c} : pc'[d] = pc[d]
           /\ UNCHANGED <<supply, disputes, quoting, disputing>>
           /\ \/ pc[c] \in InProgress /\ overlapped' = overlapped
              \/ pc[c] = "new" /\ Overlap
<1> USE DEF MemoryShape, At, Goto, Answer, Start, InProgress, memoryVars, databaseVars,
            otherVars, historyVars
<1>1. CASE Lookup(c)
  BY <1>1 DEF Lookup
<1>2. CASE Replay(c)
  BY <1>2 DEF Replay
<1>3. CASE Conflict(c)
  BY <1>3 DEF Conflict
<1>4. CASE Authorize(c)
  BY <1>4 DEF Authorize
<1>5. CASE Settle(c)
  BY <1>5 DEF Settle
<1>6. CASE SettleReturns(c)
  BY <1>6 DEF SettleReturns
<1>7. CASE SumTotal(c)
  BY <1>7 DEF SumTotal
<1>8. CASE VerifyTotal(c)
  BY <1>8 DEF VerifyTotal
<1>9. CASE RecordTask(c)
  BY <1>9 DEF RecordTask
<1>10. CASE Save(c)
  BY <1>10 DEF Save, Statement
<1>11. CASE CommitSave(c)
  BY <1>11 DEF CommitSave, NextSave
<1>12. CASE SaveBalances(c)
  BY <1>12 DEF SaveBalances
<1>13. CASE DeleteRows(c)
  BY <1>13 DEF DeleteRows
<1>14. CASE \E a \in Accounts : ReadRow(c, a)
  BY <1>14 DEF ReadRow
<1>15. CASE \E a \in Accounts : InsertRow(c, a)
  BY <1>15 DEF InsertRow, PutRow, RefuseRow
<1>16. CASE SavePool(c)
  BY <1>16 DEF SavePool
<1>17. CASE SaveSupply(c)
  BY <1>17 DEF SaveSupply
<1>18. CASE CommitRows(c)
  BY <1>18 DEF CommitRows
<1>19. CASE RememberKey(c)
  BY <1>19 DEF RememberKey
<1>20. CASE SaveKey(c)
  BY <1>20 DEF SaveKey
<1>21. CASE CommitKey(c)
  BY <1>21 DEF CommitKey
<1> QED BY <1>1, <1>2, <1>3, <1>4, <1>5, <1>6, <1>7, <1>8, <1>9, <1>10, <1>11, <1>12,
         <1>13, <1>14, <1>15, <1>16, <1>17, <1>18, <1>19, <1>20, <1>21 DEF SubmitStep

\* A request that starts, or goes on, is the only one.
LEMMA SubmitIsAlone ==
    ASSUME ServerShape, ~overlapped => Sequential, NEW c \in Txs, SubmitStep(c), ~overlapped'
    PROVE  ~overlapped /\ Sequential /\ Only(c) /\ Only(c)' /\ Alone'
<1>0. MemoryShape
  BY ShapeParts
<1>1. /\ \A d \in Txs \ {c} : pc'[d] = pc[d]
      /\ UNCHANGED <<quoting, disputing>>
      /\ \/ pc[c] \in InProgress /\ overlapped' = overlapped
         \/ pc[c] = "new" /\ Overlap
  BY <1>0, SubmitFrame
<1>2. ~overlapped /\ Sequential /\ Alone
  BY <1>0, <1>1 DEF Overlap, MemoryShape, Sequential
<1>3. Only(c) /\ quoting = {} /\ disputing = {}
  <2>1. CASE pc[c] \in InProgress
    BY <1>2, <2>1 DEF Alone, Only, Busy
  <2>2. CASE pc[c] = "new" /\ Overlap
    BY <1>0, <2>2 DEF Overlap, MemoryShape, Only, Busy
  <2> QED BY <1>1, <2>1, <2>2
<1>4. Only(c)'
  BY <1>1, <1>3 DEF Only
<1>5. Alone'
  BY <1>1, <1>3, <1>4 DEF Only, Alone, Busy
<1> QED BY <1>2, <1>3, <1>4, <1>5

\* The row that an undisturbed submission inserts is not there yet, and goes into
\* the transaction that its DELETE has opened.
LEMMA RowGoesIn ==
    ASSUME MemoryShape, DiskShape, UncommittedRows, NEW c \in Txs, NEW a \in Accounts,
           InsertRow(c, a)
    PROVE  /\ pc[c] = "insert_rows" /\ a \in DOMAIN rows_arg[c] /\ PutRow(c, a)
           /\ rows_arg[c][a] = balances[a]
           /\ in_transaction' = TRUE /\ committed' = committed
           /\ UNCHANGED <<plainVars, memoryVars, otherVars, historyVars>>
<1>1. /\ pc[c] = "insert_rows" /\ a \in DOMAIN rows_arg[c]
      /\ (a \notin DOMAIN working.rows /\ PutRow(c, a)) \/ a \in DOMAIN working.rows
      /\ UNCHANGED <<plainVars, memoryVars, otherVars, historyVars>>
  BY DEF InsertRow, At
<1>2. c \in Standing({"insert_rows"}) /\ c \in Standing(ReadOrInserted)
  BY <1>1 DEF Standing, ReadOrInserted
<1>3. /\ a \notin DOMAIN working.rows /\ in_transaction = TRUE
      /\ rows_arg[c][a] = balances[a]
  BY <1>1, <1>2 DEF UncommittedRows, AreBalances, Standing, DiskShape
<1>4. PutRow(c, a)
  BY <1>1, <1>3
<1>5. in_transaction' = TRUE /\ committed' = committed
  BY <1>3, <1>4 DEF PutRow
<1> QED BY <1>1, <1>3, <1>4, <1>5

\* The steps of a submission outside settle() move no money.
Elsewhere(c) ==
    \/ Lookup(c) \/ Replay(c) \/ Conflict(c) \/ Authorize(c) \/ SettleReturns(c)
    \/ SumTotal(c) \/ VerifyTotal(c) \/ RecordTask(c) \/ Save(c) \/ CommitSave(c)
    \/ SaveBalances(c) \/ DeleteRows(c)
    \/ \E a \in Accounts : ReadRow(c, a) \/ InsertRow(c, a)
    \/ SavePool(c) \/ SaveSupply(c) \/ CommitRows(c)
    \/ RememberKey(c) \/ SaveKey(c) \/ CommitKey(c)

LEMMA SubmitKinds ==
    ASSUME NEW c \in Txs, SubmitStep(c) PROVE Elsewhere(c) \/ Settle(c)
BY DEF SubmitStep, Elsewhere

LEMMA ElsewhereMovesNothing ==
    ASSUME NEW c \in Txs, Elsewhere(c)
    PROVE  UNCHANGED <<balances, fee_pool, transactions, settling, before, supply>>
BY DEF Elsewhere, Lookup, Replay, Conflict, Authorize, SettleReturns, SumTotal, VerifyTotal,
    RecordTask, Save, CommitSave, SaveBalances, DeleteRows, ReadRow, InsertRow, PutRow,
    RefuseRow, SavePool, SaveSupply, CommitRows, RememberKey, SaveKey, CommitKey,
    plainVars, memoryVars
-----------------------------------------------------------------------------
(* The money in memory *)

LEMMA ElsewhereCharging ==
    ASSUME MemoryShape, Sequential, NEW c \in Txs, Elsewhere(c), Only(c), Only(c)'
    PROVE  Charging' /\ Supply'
<1>1. /\ UNCHANGED <<balances, fee_pool, transactions, settling, before, supply>>
      /\ balances_total' = balances_total /\ balances_total \in Int
  BY ElsewhereMovesNothing, BalancesTotalType DEF balances_total, MemoryShape
<1>2. Charging /\ Supply
  BY DEF Sequential
<1>3. NoDebt'
  BY <1>1, <1>2 DEF Charging, NoDebt
<1> USE DEF Only, Busy, Standing, At, Goto, Start, InProgress, MemoryShape, LedgerTypeOK, See
<1>4. (\A d \in Txs : pc[d] \in {"new", "authorize"} => settling[d] = "idle")'
  BY <1>1, <1>2 DEF Charging, Elsewhere, Lookup, Replay, Conflict, Authorize, SettleReturns,
      SumTotal, VerifyTotal, RecordTask, Save, CommitSave, SaveBalances, DeleteRows, ReadRow,
      InsertRow, PutRow, RefuseRow, SavePool, SaveSupply, CommitRows, RememberKey, SaveKey,
      CommitKey, Answer, CommitOf, NextSave, Statement
<1>5. (\A d \in Standing({"new", "authorize", "settle"}) : AppendedWhenPaid(d))'
  BY <1>1, <1>2 DEF Charging, AppendedWhenPaid, Elsewhere, Lookup, Replay, Conflict, Authorize,
      SettleReturns, SumTotal, VerifyTotal, RecordTask, Save, CommitSave, SaveBalances,
      DeleteRows, ReadRow, InsertRow, PutRow, RefuseRow, SavePool, SaveSupply, CommitRows,
      RememberKey, SaveKey, CommitKey, Answer, CommitOf, NextSave, Statement
<1>6. pc'[c] \in InProgress =>
         /\ SettleSound(c)'
         /\ pc'[c] \notin {"authorize", "settle"} => settling'[c] = "settled"
         /\ pc'[c] = "total_pool" => seen'[c] = balances_total'
  <2>1. CASE Lookup(c)
    BY <2>1, <1>1, <1>2 DEF Lookup, Charging, SettleSound, Debited
  <2>2. CASE Replay(c)
    BY <2>2, <1>1, <1>2 DEF Replay, Charging, SettleSound, Debited
  <2>3. CASE Conflict(c)
    BY <2>3, <1>1, <1>2 DEF Conflict, Charging, SettleSound, Debited
  <2>4. CASE Authorize(c)
    BY <2>4, <1>1, <1>2 DEF Authorize, Charging, SettleSound, Debited
  <2>5. CASE SettleReturns(c)
    BY <2>5, <1>1, <1>2 DEF SettleReturns, Charging, SettleSound, Debited
  <2>6. CASE SumTotal(c)
    BY <2>6, <1>1, <1>2 DEF SumTotal, Charging, SettleSound, Debited
  <2>7. CASE VerifyTotal(c)
    BY <2>7, <1>1, <1>2 DEF VerifyTotal, Charging, SettleSound, Debited
  <2>8. CASE RecordTask(c)
    BY <2>8, <1>1, <1>2 DEF RecordTask, Charging, SettleSound, Debited
  <2>9. CASE Save(c)
    BY <2>9, <1>1, <1>2 DEF Save, CommitOf, Statement, Charging, SettleSound, Debited
  <2>10. CASE CommitSave(c)
    BY <2>10, <1>1, <1>2 DEF CommitSave, NextSave, Charging, SettleSound, Debited
  <2>11. CASE SaveBalances(c)
    BY <2>11, <1>1, <1>2 DEF SaveBalances, Charging, SettleSound, Debited
  <2>12. CASE DeleteRows(c)
    BY <2>12, <1>1, <1>2 DEF DeleteRows, Charging, SettleSound, Debited
  <2>13. CASE \E a \in Accounts : ReadRow(c, a)
    BY <2>13, <1>1, <1>2 DEF ReadRow, Charging, SettleSound, Debited
  <2>14. CASE \E a \in Accounts : InsertRow(c, a)
    BY <2>14, <1>1, <1>2 DEF InsertRow, PutRow, RefuseRow, Charging, SettleSound, Debited
  <2>15. CASE SavePool(c)
    BY <2>15, <1>1, <1>2 DEF SavePool, Charging, SettleSound, Debited
  <2>16. CASE SaveSupply(c)
    BY <2>16, <1>1, <1>2 DEF SaveSupply, Charging, SettleSound, Debited
  <2>17. CASE CommitRows(c)
    BY <2>17, <1>1, <1>2 DEF CommitRows, Answer, Charging, SettleSound, Debited
  <2>18. CASE RememberKey(c)
    BY <2>18, <1>1, <1>2 DEF RememberKey, Charging, SettleSound, Debited
  <2>19. CASE SaveKey(c)
    BY <2>19, <1>1, <1>2 DEF SaveKey, Charging, SettleSound, Debited
  <2>20. CASE CommitKey(c)
    BY <2>20, <1>1, <1>2 DEF CommitKey, Answer, Charging, SettleSound, Debited
  <2> QED BY <2>1, <2>2, <2>3, <2>4, <2>5, <2>6, <2>7, <2>8, <2>9, <2>10, <2>11, <2>12, <2>13,
           <2>14, <2>15, <2>16, <2>17, <2>18, <2>19, <2>20 DEF Elsewhere
<1>7. Charging'
  BY <1>1, <1>3, <1>4, <1>5, <1>6 DEF Charging
<1>8. ~Debited(c)
  <2>1. CASE Lookup(c)
    BY <2>1, <1>2 DEF Lookup, Charging, Debited, SettleDone
  <2>2. CASE Replay(c)
    BY <2>2, <1>2 DEF Replay, Charging, Debited, SettleDone
  <2>3. CASE Conflict(c)
    BY <2>3, <1>2 DEF Conflict, Charging, Debited, SettleDone
  <2>4. CASE Authorize(c)
    BY <2>4, <1>2 DEF Authorize, Charging, Debited, SettleDone
  <2>5. CASE SettleReturns(c)
    BY <2>5, <1>2 DEF SettleReturns, Charging, Debited, SettleDone
  <2>6. CASE SumTotal(c)
    BY <2>6, <1>2 DEF SumTotal, Charging, Debited, SettleDone
  <2>7. CASE VerifyTotal(c)
    BY <2>7, <1>2 DEF VerifyTotal, Charging, Debited, SettleDone
  <2>8. CASE RecordTask(c)
    BY <2>8, <1>2 DEF RecordTask, Charging, Debited, SettleDone
  <2>9. CASE Save(c)
    BY <2>9, <1>2 DEF Save, CommitOf, Statement, Charging, Debited, SettleDone
  <2>10. CASE CommitSave(c)
    BY <2>10, <1>2 DEF CommitSave, NextSave, Charging, Debited, SettleDone
  <2>11. CASE SaveBalances(c)
    BY <2>11, <1>2 DEF SaveBalances, Charging, Debited, SettleDone
  <2>12. CASE DeleteRows(c)
    BY <2>12, <1>2 DEF DeleteRows, Charging, Debited, SettleDone
  <2>13. CASE \E a \in Accounts : ReadRow(c, a)
    BY <2>13, <1>2 DEF ReadRow, Charging, Debited, SettleDone
  <2>14. CASE \E a \in Accounts : InsertRow(c, a)
    BY <2>14, <1>2 DEF InsertRow, PutRow, RefuseRow, Charging, Debited, SettleDone
  <2>15. CASE SavePool(c)
    BY <2>15, <1>2 DEF SavePool, Charging, Debited, SettleDone
  <2>16. CASE SaveSupply(c)
    BY <2>16, <1>2 DEF SaveSupply, Charging, Debited, SettleDone
  <2>17. CASE CommitRows(c)
    BY <2>17, <1>2 DEF CommitRows, Answer, Charging, Debited, SettleDone
  <2>18. CASE RememberKey(c)
    BY <2>18, <1>2 DEF RememberKey, Charging, Debited, SettleDone
  <2>19. CASE SaveKey(c)
    BY <2>19, <1>2 DEF SaveKey, Charging, Debited, SettleDone
  <2>20. CASE CommitKey(c)
    BY <2>20, <1>2 DEF CommitKey, Answer, Charging, Debited, SettleDone
  <2> QED BY <2>1, <2>2, <2>3, <2>4, <2>5, <2>6, <2>7, <2>8, <2>9, <2>10, <2>11, <2>12, <2>13,
           <2>14, <2>15, <2>16, <2>17, <2>18, <2>19, <2>20 DEF Elsewhere
<1>9. Supply'
  <2>1. \A d \in Busy : d = c
    OBVIOUS
  <2>2. \A d \in Busy' : d = c
    OBVIOUS
  <2>3. ~Debited(c)'
    BY <1>1, <1>8 DEF Debited
  <2>4. (\A d \in Busy : ~Debited(d)) /\ (\A d \in Busy' : ~Debited(d)')
    BY <1>8, <2>1, <2>2, <2>3
  <2> QED BY <1>1, <1>2, <2>4 DEF Supply
<1> QED BY <1>7, <1>9

LEMMA SettleCharging ==
    ASSUME MemoryShape, Sequential, NEW c \in Txs, Settle(c), Only(c)
    PROVE  Charging' /\ Supply'
<1>1. /\ pc[c] = "settle" /\ UNCHANGED <<pc, supply>> /\ (CallSettle(c) \/ SettleStep(c))
      /\ \A d \in Busy : d = c
      /\ c \in Busy /\ LedgerTypeOK /\ Busy' = Busy
  BY DEF Settle, At, Only, Busy, InProgress, MemoryShape, memoryVars
<1>2. Charging /\ Supply /\ SettleSound(c) /\ NoDebt /\ AppendedWhenPaid(c)
  BY <1>1 DEF Sequential, Charging, Standing
<1>3. SettleSound(c)' /\ NoDebt'
  BY <1>1, <1>2, SettleKeepsSound
<1>4. /\ LedgerTypeOK'
      /\ \A d \in Txs \ {c} : settling'[d] = settling[d]
      /\ \A d \in Txs \ {c} : AppendedWhenPaid(d)' <=> AppendedWhenPaid(d)
      /\ AppendedWhenPaid(c)'
  BY <1>1, <1>2, SettleFrame, SettleKeepsAppended
<1>5. Charging'
  <2>1. (\A d \in Txs : pc[d] \in {"new", "authorize"} => settling[d] = "idle")'
    BY <1>1, <1>2, <1>4 DEF Charging
  <2>2. (\A d \in Standing({"new", "authorize", "settle"}) : AppendedWhenPaid(d))'
    BY <1>1, <1>2, <1>4 DEF Charging, Standing
  <2>3. Standing({"total_pool"})' = {}
    BY <1>1 DEF Standing, Busy, InProgress
  <2>4. (\A d \in Busy : /\ SettleSound(d)
                         /\ pc[d] \notin {"authorize", "settle"} => settling[d] = "settled")'
    BY <1>1, <1>3
  <2> QED BY <1>3, <2>1, <2>2, <2>3, <2>4 DEF Charging
<1>6. /\ Debited(c) => balances_total + fee_pool + Total(c) = total_supply
      /\ ~Debited(c) => balances_total + fee_pool = total_supply
  BY <1>1, <1>2 DEF Supply
<1>7. SettleMoves(c) /\ balances_total \in Int /\ balances_total' \in Int
  <2>1. balances_total' \in Int
    BY <1>4, LedgerParameters, SumType DEF balances_total, LedgerTypeOK
  <2> QED BY <1>1, <1>2, <2>1, SettleStepMoves, BalancesTotalType
<1>8. /\ Debited(c)' => balances_total' + fee_pool' + Total(c) = total_supply
      /\ ~Debited(c)' => balances_total' + fee_pool' = total_supply
  <2> USE PlainTotalType DEF LedgerTypeOK
  <2>1. CASE UNCHANGED <<balances, fee_pool>> /\ (Debited(c)' <=> Debited(c))
    BY <1>6, <2>1 DEF balances_total
  <2>2. CASE /\ settling[c] = "debit" /\ settling'[c] = "read_receiver"
             /\ balances' = [balances EXCEPT ![Sender[c]] = balances[Sender[c]] - Total(c)]
             /\ UNCHANGED fee_pool
    <3>1. /\ balances'[Sender[c]] = balances[Sender[c]] - Total(c)
          /\ \A a \in Accounts \ {Sender[c]} : balances'[a] = balances[a]
      BY <1>1, <2>2
    <3>2. balances_total' = balances_total - balances[Sender[c]] + balances'[Sender[c]]
      BY ONLY <1>1, <1>4, <3>1, BalanceMovesTotal, PlainTotalType DEF LedgerTypeOK
    <3> QED BY <1>1, <1>6, <1>7, <2>2, <3>1, <3>2 DEF Debited
  <2>3. CASE /\ settling[c] = "credit" /\ settling'[c] = "append"
             /\ balances' = [balances EXCEPT ![Receiver[c]] = balances[Receiver[c]] + Amount[c]]
             /\ fee_pool' = fee_pool + Fee[c]
    <3>1. /\ balances'[Receiver[c]] = balances[Receiver[c]] + Amount[c]
          /\ \A a \in Accounts \ {Receiver[c]} : balances'[a] = balances[a]
      BY <1>1, <2>3
    <3>2. balances_total' = balances_total - balances[Receiver[c]] + balances'[Receiver[c]]
      BY ONLY <1>1, <1>4, <3>1, BalanceMovesTotal, PlainTotalType DEF LedgerTypeOK
    <3> QED BY <1>1, <1>6, <1>7, <2>3, <3>1, <3>2 DEF Debited
  <2> QED BY <1>7, <2>1, <2>2, <2>3 DEF SettleMoves
<1>9. Supply'
  BY <1>1, <1>2, <1>8 DEF Supply, Total
<1> QED BY <1>5, <1>9

-----------------------------------------------------------------------------
(* The file *)

\* Only the commit of save_balances() changes the stored balances, to the live
\* ones.
LEMMA SubmitStoredRows ==
    ASSUME MemoryShape, DiskShape, Sequential, NEW c \in Txs, SubmitStep(c), Only(c)
    PROVE  \/ /\ committed'.rows = committed.rows /\ committed'.pool = committed.pool
              /\ committed'.supply = committed.supply
              /\ ~CommitRows(c)
           \/ /\ CommitRows(c) /\ Busy = {c} /\ pc[c] = "commit_rows"
              /\ settling[c] = "settled"
              /\ committed' = working
              /\ committed'.rows = balances /\ committed'.pool = fee_pool
              /\ committed'.supply = total_supply
<1> DEFINE Same == /\ committed'.rows = committed.rows /\ committed'.pool = committed.pool
                   /\ committed'.supply = committed.supply
<1> USE DEF At
<1>1. CASE CommitRows(c)
  <2>1. /\ committed' = working /\ pc[c] = "commit_rows" /\ c \in Busy /\ Busy = {c}
        /\ UncommittedRows /\ Charging /\ Supply
    BY <1>1 DEF CommitRows, Commit, Only, Busy, InProgress, Sequential
  <2>2. /\ c \in Standing(Inserted) /\ c \in Standing(ReadOrInserted \cup Inserted)
        /\ c \in Standing(PoolWritten) /\ c \in Standing({"commit_rows"})
    BY <2>1 DEF Standing, Inserted, PoolWritten
  <2>3. /\ working.pool = fee_pool /\ working.supply = total_supply
        /\ DOMAIN working.rows = Accounts /\ AreBalances(working.rows)
    BY <2>1, <2>2 DEF UncommittedRows, Supply
  <2>4. working.rows = balances
    <3>1. working.rows \in [Accounts -> Int] /\ balances \in [Accounts -> Int]
      BY <2>3, RowsType DEF DiskShape, Store, MemoryShape, LedgerTypeOK
    <3> QED BY <2>3, <3>1 DEF AreBalances
  <2> QED BY <1>1, <2>1, <2>3, <2>4 DEF Charging
<1>2. CASE CommitSave(c) \/ CommitKey(c)
  <2>1. committed' = working /\ UncommittedRows
    BY <1>2 DEF CommitSave, CommitKey, Commit, Sequential
  <2>2. /\ Standing(ReadOrInserted \cup Inserted) = {} /\ Standing(PoolWritten) = {}
        /\ Standing({"commit_rows"}) = {}
    BY <1>2 DEF CommitSave, CommitKey, NextSave, Standing, Only, InProgress, ReadOrInserted,
                Inserted, PoolWritten
  <2>3. Same
    BY <2>1, <2>2 DEF UncommittedRows
  <2>4. ~CommitRows(c)
    BY <1>2 DEF CommitRows, CommitSave, CommitKey, NextSave
  <2> QED BY <2>3, <2>4
<1>3. CASE ~(CommitRows(c) \/ CommitSave(c) \/ CommitKey(c))
  <2>1. ASSUME NEW a \in Accounts, InsertRow(c, a) PROVE committed' = committed
    BY <2>1, RowGoesIn DEF Sequential
  <2>2. ASSUME ~\E a \in Accounts : InsertRow(c, a) PROVE committed' = committed
    BY <1>3, <2>2 DEF SubmitStep, Lookup, Replay, Conflict, Authorize, Settle, SettleReturns,
        SumTotal, VerifyTotal, RecordTask, Save, SaveBalances, DeleteRows, ReadRow, Execute,
        SavePool, SaveSupply, RememberKey, SaveKey, databaseVars, fileVars
  <2>3. committed' = committed
    BY <2>1, <2>2
  <2> QED BY <1>3, <2>3
<1> QED BY <1>1, <1>2, <1>3

LEMMA SubmitStoredSupply ==
    ASSUME MemoryShape, DiskShape, Sequential, NEW c \in Txs, SubmitStep(c), Only(c)
    PROVE  StoredSupply'
<1>1. CASE /\ committed'.rows = committed.rows /\ committed'.pool = committed.pool
           /\ committed'.supply = committed.supply
  BY <1>1 DEF Sequential, StoredSupply
<1>2. CASE /\ Busy = {c} /\ settling[c] = "settled"
           /\ committed'.rows = balances /\ committed'.pool = fee_pool
           /\ committed'.supply = total_supply
  <2>1. NoDebt /\ balances_total + fee_pool = total_supply /\ DOMAIN balances = Accounts
    BY <1>2 DEF Sequential, Charging, Supply, Debited, MemoryShape, LedgerTypeOK
  <2> QED BY <1>2, <2>1 DEF StoredSupply, NoDebt, balances_total
<1> QED BY <1>1, <1>2, SubmitStoredRows

\* What the connection has written and not committed is the statement of the
\* one request in progress; its task replaces none of another name.
LEMMA SubmitUncommitted ==
    ASSUME MemoryShape, DiskShape, RecordOrNoQuote, Sequential, NEW c \in Txs,
           SubmitStep(c), Only(c)
    PROVE  Uncommitted'
<1>0. /\ KeyOf[c] \in Keys \cup {None} /\ Uncommitted /\ FreshRequest
      /\ pc[c] \in {"remember_key"} \cup KeyKept => KeyOf[c] # None
  BY ServerParameters DEF Sequential, RecordOrNoQuote, Standing
<1> USE DEF Uncommitted, Only, Standing, At, Goto, Start, InProgress, MemoryShape, DiskShape,
            Store, databaseVars, argumentVars, fileVars, otherVars, Execute, Commit, Rollback,
            KeyKept
<1>1. CASE Lookup(c)
  BY <1>1, <1>0 DEF Lookup
<1>2. CASE Replay(c)
  BY <1>2, <1>0 DEF Replay
<1>3. CASE Conflict(c)
  BY <1>3, <1>0 DEF Conflict
<1>4. CASE Authorize(c)
  BY <1>4, <1>0 DEF Authorize
<1>5. CASE Settle(c)
  BY <1>5, <1>0 DEF Settle
<1>6. CASE SettleReturns(c)
  BY <1>6, <1>0 DEF SettleReturns
<1>7. CASE SumTotal(c)
  BY <1>7, <1>0 DEF SumTotal
<1>8. CASE VerifyTotal(c)
  BY <1>8, <1>0 DEF VerifyTotal
<1>9. CASE RecordTask(c)
  BY <1>9, <1>0 DEF RecordTask
<1>10. CASE Save(c)
  BY <1>10, <1>0 DEF Save, CommitOf, Statement, WithTask, FreshRequest, BeforeTask,
     SavingTask, SavingReceipt
<1>11. CASE CommitSave(c)
  BY <1>11, <1>0 DEF CommitSave, NextSave
<1>12. CASE SaveBalances(c)
  BY <1>12, <1>0 DEF SaveBalances
<1>13. CASE DeleteRows(c)
  BY <1>13, <1>0 DEF DeleteRows
<1>14. CASE \E a \in Accounts : ReadRow(c, a)
  BY <1>14, <1>0 DEF ReadRow
<1>15. CASE \E a \in Accounts : InsertRow(c, a)
  <2>1. PICK a \in Accounts : InsertRow(c, a)
    BY <1>15
  <2>2. /\ pc[c] = "insert_rows" /\ PutRow(c, a) /\ committed' = committed
        /\ UNCHANGED <<plainVars, memoryVars, otherVars, historyVars>>
    BY <2>1, RowGoesIn DEF Sequential
  <2> QED BY <1>0, <2>2 DEF PutRow
<1>16. CASE SavePool(c)
  BY <1>16, <1>0 DEF SavePool
<1>17. CASE SaveSupply(c)
  BY <1>17, <1>0 DEF SaveSupply
<1>18. CASE CommitRows(c)
  BY <1>18, <1>0 DEF CommitRows, Answer
<1>19. CASE RememberKey(c)
  BY <1>19, <1>0 DEF RememberKey
<1>20. CASE SaveKey(c)
  BY <1>20, <1>0 DEF SaveKey
<1>21. CASE CommitKey(c)
  BY <1>21, <1>0 DEF CommitKey, Answer
<1> QED BY <1>1, <1>2, <1>3, <1>4, <1>5, <1>6, <1>7, <1>8, <1>9, <1>10, <1>11, <1>12, <1>13,
         <1>14, <1>15, <1>16, <1>17, <1>18, <1>19, <1>20, <1>21 DEF SubmitStep

\* UncommittedRows, when nobody but c is in progress.
RowsOf(c) ==
    /\ pc[c] \notin ReadOrInserted \cup Inserted => working.rows = committed.rows
    /\ pc[c] \in ReadOrInserted \cup Inserted => in_transaction /\ AreBalances(working.rows)
    /\ pc[c] = "read_rows" => DOMAIN working.rows = {}
    /\ pc[c] = "insert_rows" => DOMAIN working.rows = Accounts \ DOMAIN rows_arg[c]
    /\ pc[c] \in Inserted => DOMAIN working.rows = Accounts
    /\ pc[c] \in ReadOrInserted => AreBalances(rows_arg[c])
    /\ pc[c] \notin ReadOrInserted => DOMAIN rows_arg[c] = {}
    /\ \A d \in Txs \ {c} : DOMAIN rows_arg[d] = {}
    /\ pc[c] \in {"delete_rows", "save_pool"} \cup ReadOrInserted => pool_arg[c] = fee_pool
    /\ working.pool = IF pc[c] \notin PoolWritten THEN committed.pool ELSE fee_pool
    /\ working.supply = IF pc[c] # "commit_rows" THEN committed.supply ELSE supply

LEMMA RowsOfOne ==
    ASSUME NEW c \in Txs
    PROVE  /\ Only(c) => (UncommittedRows <=> RowsOf(c))
           /\ Only(c)' => (UncommittedRows' <=> RowsOf(c)')
<1> USE DEF Only, Standing, InProgress, ReadOrInserted, Inserted, PoolWritten
<1>1. ASSUME Only(c), UncommittedRows PROVE RowsOf(c)
  BY <1>1 DEF UncommittedRows, RowsOf
<1>2. ASSUME Only(c), RowsOf(c) PROVE UncommittedRows
  BY <1>2 DEF UncommittedRows, RowsOf
<1>3. ASSUME Only(c)', UncommittedRows' PROVE RowsOf(c)'
  BY <1>3 DEF UncommittedRows, RowsOf
<1>4. ASSUME Only(c)', RowsOf(c)' PROVE UncommittedRows'
  BY <1>4 DEF UncommittedRows, RowsOf
<1> QED BY <1>1, <1>2, <1>3, <1>4

LEMMA SubmitUncommittedRows ==
    ASSUME MemoryShape, DiskShape, Sequential, NEW c \in Txs, SubmitStep(c), Only(c), Only(c)'
    PROVE  UncommittedRows'
<1>0. RowsOf(c) /\ UncommittedRows /\ balances \in [Accounts -> Int]
  BY RowsOfOne DEF Sequential, MemoryShape, LedgerTypeOK
<1> SUFFICES RowsOf(c)'
  BY RowsOfOne
<1> USE DEF RowsOf, AreBalances, ReadOrInserted, Inserted, PoolWritten, At, Goto, Start,
            MemoryShape, DiskShape, Store, plainVars, memoryVars, databaseVars, argumentVars,
            fileVars, otherVars, Execute, Commit
<1>1. CASE Lookup(c)
  BY <1>1, <1>0 DEF Lookup
<1>2. CASE Replay(c)
  BY <1>2, <1>0 DEF Replay
<1>3. CASE Conflict(c)
  BY <1>3, <1>0 DEF Conflict
<1>4. CASE Authorize(c)
  BY <1>4, <1>0 DEF Authorize
<1>5. CASE Settle(c)
  BY <1>5, <1>0 DEF Settle
<1>6. CASE SettleReturns(c)
  BY <1>6, <1>0 DEF SettleReturns
<1>7. CASE SumTotal(c)
  BY <1>7, <1>0 DEF SumTotal
<1>8. CASE VerifyTotal(c)
  BY <1>8, <1>0 DEF VerifyTotal
<1>9. CASE RecordTask(c)
  BY <1>9, <1>0 DEF RecordTask
<1>10. CASE Save(c)
  BY <1>10, <1>0 DEF Save, CommitOf, Statement
<1>11. CASE CommitSave(c)
  BY <1>11, <1>0 DEF CommitSave, NextSave
<1>12. CASE SaveBalances(c)
  BY <1>12, <1>0 DEF SaveBalances
<1>13. CASE DeleteRows(c)
  BY <1>13, <1>0, NoRowsType DEF DeleteRows
<1>14. CASE \E a \in Accounts : ReadRow(c, a)
  <2>1. PICK a \in Accounts : ReadRow(c, a)
    BY <1>14
  <2> DEFINE rows == WithRow(rows_arg[c], a, balances[a])
  <2>2. /\ DOMAIN rows = DOMAIN rows_arg[c] \cup {a}
        /\ rows[a] = balances[a]
        /\ \A x \in DOMAIN rows_arg[c] \ {a} : rows[x] = rows_arg[c][x]
    BY DEF WithRow
  <2>3. /\ pc[c] = "read_rows" /\ rows_arg' = [rows_arg EXCEPT ![c] = rows]
        /\ pc' = [pc EXCEPT ![c] = IF DOMAIN rows_arg[c] \cup {a} = Accounts
                                   THEN "insert_rows" ELSE "read_rows"]
        /\ UNCHANGED <<plainVars, memoryVars, pool_arg, fileVars, otherVars>>
    BY <2>1 DEF ReadRow
  <2> HIDE DEF rows
  <2>4. AreBalances(rows)
    BY <1>0, <2>2, <2>3
  <2>5. /\ rows_arg'[c] = rows /\ \A d \in Txs \ {c} : rows_arg'[d] = rows_arg[d]
        /\ pc'[c] \in {"read_rows", "insert_rows"}
        /\ pc'[c] = "insert_rows" => DOMAIN rows = Accounts
    BY <2>2, <2>3
  <2>6. DOMAIN working.rows = {}
    BY <1>0, <2>3
  <2> QED BY <1>0, <2>3, <2>4, <2>5, <2>6
<1>15. CASE \E a \in Accounts : InsertRow(c, a)
  <2>1. PICK a \in Accounts : InsertRow(c, a)
    BY <1>15
  <2>2. /\ pc[c] = "insert_rows" /\ a \in DOMAIN rows_arg[c] /\ PutRow(c, a)
        /\ rows_arg[c][a] = balances[a]
        /\ in_transaction' = TRUE /\ committed' = committed
        /\ UNCHANGED <<plainVars, memoryVars, otherVars>>
    BY <1>0, <2>1, RowGoesIn
  <2> DEFINE rows == WithRow(working.rows, a, balances[a])
             left == WithoutRow(rows_arg[c], a)
  <2>3. /\ DOMAIN rows = DOMAIN working.rows \cup {a}
        /\ rows[a] = balances[a]
        /\ \A x \in DOMAIN working.rows \ {a} : rows[x] = working.rows[x]
    BY DEF WithRow
  <2>4. /\ DOMAIN left = DOMAIN rows_arg[c] \ {a}
        /\ \A x \in DOMAIN rows_arg[c] \ {a} : left[x] = rows_arg[c][x]
    BY DEF WithoutRow, Restrict
  <2>5. /\ working' = [working EXCEPT !.rows = rows]
        /\ rows_arg' = [rows_arg EXCEPT ![c] = left]
        /\ pc' = [pc EXCEPT ![c] = IF DOMAIN rows_arg[c] = {a} THEN "save_pool"
                                                              ELSE "insert_rows"]
        /\ UNCHANGED pool_arg
    BY <2>2 DEF PutRow
  <2> HIDE DEF rows, left
  <2>6. AreBalances(rows) /\ AreBalances(left)
    BY <1>0, <2>2, <2>3, <2>4
  <2>7. /\ working'.rows = rows /\ working'.pool = working.pool
        /\ working'.supply = working.supply
        /\ rows_arg'[c] = left /\ \A d \in Txs \ {c} : rows_arg'[d] = rows_arg[d]
        /\ pc'[c] \in {"insert_rows", "save_pool"}
        /\ pc'[c] = "save_pool" => DOMAIN rows_arg[c] = {a}
    BY <2>5
  <2>8. /\ DOMAIN rows_arg[c] \subseteq Accounts
        /\ DOMAIN working.rows = Accounts \ DOMAIN rows_arg[c]
    BY <1>0, <2>2, RowsType
  <2>9. DOMAIN rows = Accounts \ DOMAIN left
    BY <2>2, <2>3, <2>4, <2>8
  <2>10. pc'[c] = "save_pool" => DOMAIN left = {} /\ DOMAIN rows = Accounts
    BY <2>4, <2>7, <2>9
  <2> QED BY <1>0, <2>2, <2>5, <2>6, <2>7, <2>9, <2>10
<1>16. CASE SavePool(c)
  BY <1>16, <1>0 DEF SavePool
<1>17. CASE SaveSupply(c)
  BY <1>17, <1>0 DEF SaveSupply
<1>18. CASE CommitRows(c)
  BY <1>18, <1>0 DEF CommitRows, Answer
<1>19. CASE RememberKey(c)
  BY <1>19, <1>0 DEF RememberKey
<1>20. CASE SaveKey(c)
  BY <1>20, <1>0 DEF SaveKey
<1>21. CASE CommitKey(c)
  BY <1>21, <1>0 DEF CommitKey, Answer
<1> QED BY <1>1, <1>2, <1>3, <1>4, <1>5, <1>6, <1>7, <1>8, <1>9, <1>10, <1>11, <1>12,
         <1>13, <1>14, <1>15, <1>16, <1>17, <1>18, <1>19, <1>20, <1>21 DEF SubmitStep

-----------------------------------------------------------------------------
(* What is in memory and what is in the file *)

LEMMA SubmitUnsaved ==
    ASSUME MemoryShape, DiskShape, RecordOrNoQuote, Sequential, NEW c \in Txs,
           SubmitStep(c), Only(c)
    PROVE  Unsaved'
<1>0. /\ KeyOf[c] \in Keys \cup {None}
      /\ Uncommitted /\ FreshRequest /\ Unsaved /\ Charging
      /\ pc[c] \in {"remember_key"} \cup KeyKept => KeyOf[c] # None
  BY ServerParameters DEF Sequential, RecordOrNoQuote, Standing
<1> USE DEF Unsaved, Only, Standing, At, Goto, Start, InProgress, MemoryShape, DiskShape,
            Store, plainVars, memoryVars, databaseVars, argumentVars, fileVars, otherVars,
            Execute, Commit, KeyKept, SavingTransaction, SavingReceipt, SavingTask, Charged
<1>1. CASE Lookup(c)
  BY <1>1, <1>0 DEF Lookup, Charging
<1>2. CASE Replay(c)
  BY <1>2, <1>0 DEF Replay
<1>3. CASE Conflict(c)
  BY <1>3, <1>0 DEF Conflict
<1>4. CASE Authorize(c)
  BY <1>4, <1>0 DEF Authorize, Charging
<1>5. CASE Settle(c)
  <2>1. /\ pc[c] = "settle" /\ UNCHANGED <<pc, memoryVars, committed, disputing>>
        /\ CallSettle(c) \/ SettleStep(c)
        /\ LedgerTypeOK /\ NoDebt /\ SettleSound(c) /\ AppendedWhenPaid(c)
    BY <1>5, <1>0 DEF Settle, Charging, Busy
  <2>2. /\ AppendedWhenPaid(c)' /\ SettleSound(c)'
        /\ \A d \in Txs \ {c} : settling'[d] = settling[d]
        /\ transactions' = transactions \cup {c} \/ transactions' = transactions
    BY <2>1, SettleFrame, SettleKeepsAppended, SettleKeepsSound
  <2>3. transactions' = committed'.transactions \cup Standing(SavingTransaction)'
                                               \cup {d \in Txs : Charged(d)}'
    BY <1>0, <2>1, <2>2 DEF AppendedWhenPaid, SettleSound
  <2> QED BY <1>0, <2>1, <2>3
<1>6. CASE SettleReturns(c)
  BY <1>6, <1>0 DEF SettleReturns, Charging, SettleSound, Busy, SettleDone
<1>7. CASE SumTotal(c)
  BY <1>7, <1>0 DEF SumTotal
<1>8. CASE VerifyTotal(c)
  <2>1. c \in Busy /\ Busy = {c} /\ pc[c] = "total_pool" /\ Supply
    BY <1>8 DEF VerifyTotal, Busy, Sequential
  <2>2. ~Debited(c) /\ seen[c] = balances_total
    BY <1>0, <2>1 DEF Charging, Debited
  <2>3. seen[c] + fee_pool = supply
    BY <2>1, <2>2 DEF Supply
  <2> QED BY <1>0, <1>8, <2>3 DEF VerifyTotal
<1>9. CASE RecordTask(c)
  BY <1>9, <1>0 DEF RecordTask, WithTask, FreshRequest, BeforeTask
<1>10. CASE Save(c)
  BY <1>10, <1>0 DEF Save, CommitOf, Statement
<1>11. CASE CommitSave(c)
  BY <1>11, <1>0 DEF CommitSave, NextSave, Uncommitted
<1>12. CASE SaveBalances(c)
  BY <1>12, <1>0 DEF SaveBalances
<1>13. CASE DeleteRows(c)
  BY <1>13, <1>0 DEF DeleteRows
<1>14. CASE \E a \in Accounts : ReadRow(c, a)
  BY <1>14, <1>0 DEF ReadRow
<1>15. CASE \E a \in Accounts : InsertRow(c, a)
  <2>1. PICK a \in Accounts : InsertRow(c, a)
    BY <1>15
  <2>2. /\ pc[c] = "insert_rows" /\ PutRow(c, a) /\ committed' = committed
        /\ UNCHANGED <<plainVars, memoryVars, otherVars, historyVars>>
    BY <2>1, RowGoesIn DEF Sequential
  <2> QED BY <1>0, <2>2 DEF PutRow
<1>16. CASE SavePool(c)
  BY <1>16, <1>0 DEF SavePool
<1>17. CASE SaveSupply(c)
  BY <1>17, <1>0 DEF SaveSupply
<1>18. CASE CommitRows(c)
  BY <1>18, <1>0 DEF CommitRows, Answer, Uncommitted
<1>19. CASE RememberKey(c)
  BY <1>19, <1>0 DEF RememberKey
<1>20. CASE SaveKey(c)
  BY <1>20, <1>0 DEF SaveKey
<1>21. CASE CommitKey(c)
  BY <1>21, <1>0 DEF CommitKey, Answer, Uncommitted
<1> QED BY <1>1, <1>2, <1>3, <1>4, <1>5, <1>6, <1>7, <1>8, <1>9, <1>10, <1>11, <1>12, <1>13,
         <1>14, <1>15, <1>16, <1>17, <1>18, <1>19, <1>20, <1>21 DEF SubmitStep

LEMMA SubmitFreshRequest ==
    ASSUME MemoryShape, DiskShape, RecordOrNoQuote, Sequential, NEW c \in Txs,
           SubmitStep(c), Only(c)
    PROVE  FreshRequest'
<1>0. /\ KeyOf[c] \in Keys \cup {None}
      /\ Uncommitted /\ FreshRequest /\ Unsaved
      /\ pc[c] \in {"remember_key"} \cup KeyKept => KeyOf[c] # None
  BY ServerParameters DEF Sequential, RecordOrNoQuote, Standing
<1> USE DEF FreshRequest, Only, Standing, At, Goto, Start, InProgress, MemoryShape, DiskShape,
            Store, memoryVars, databaseVars, argumentVars, fileVars, otherVars, Execute,
            Commit, KeyKept, SavingTransaction, SavingReceipt, SavingTask, BeforeRecord,
            BeforeTask, Record
<1>1. CASE Lookup(c)
  BY <1>1, <1>0 DEF Lookup
<1>2. CASE Replay(c)
  BY <1>2, <1>0 DEF Replay
<1>3. CASE Conflict(c)
  BY <1>3, <1>0 DEF Conflict
<1>4. CASE Authorize(c)
  BY <1>4, <1>0 DEF Authorize, Admitted, Unsaved
<1>5. CASE Settle(c)
  BY <1>5, <1>0 DEF Settle
<1>6. CASE SettleReturns(c)
  BY <1>6, <1>0 DEF SettleReturns
<1>7. CASE SumTotal(c)
  BY <1>7, <1>0 DEF SumTotal
<1>8. CASE VerifyTotal(c)
  BY <1>8, <1>0 DEF VerifyTotal
<1>9. CASE RecordTask(c)
  BY <1>9, <1>0 DEF RecordTask
<1>10. CASE Save(c)
  BY <1>10, <1>0 DEF Save, CommitOf, Statement
<1>11. CASE CommitSave(c)
  BY <1>11, <1>0 DEF CommitSave, NextSave, Uncommitted
<1>12. CASE SaveBalances(c)
  BY <1>12, <1>0 DEF SaveBalances
<1>13. CASE DeleteRows(c)
  BY <1>13, <1>0 DEF DeleteRows
<1>14. CASE \E a \in Accounts : ReadRow(c, a)
  BY <1>14, <1>0 DEF ReadRow
<1>15. CASE \E a \in Accounts : InsertRow(c, a)
  <2>1. PICK a \in Accounts : InsertRow(c, a)
    BY <1>15
  <2>2. /\ pc[c] = "insert_rows" /\ PutRow(c, a) /\ committed' = committed
        /\ UNCHANGED <<plainVars, memoryVars, otherVars, historyVars>>
    BY <2>1, RowGoesIn DEF Sequential
  <2> QED BY <1>0, <2>2 DEF PutRow
<1>16. CASE SavePool(c)
  BY <1>16, <1>0 DEF SavePool
<1>17. CASE SaveSupply(c)
  BY <1>17, <1>0 DEF SaveSupply
<1>18. CASE CommitRows(c)
  BY <1>18, <1>0 DEF CommitRows, Answer, Uncommitted
<1>19. CASE RememberKey(c)
  BY <1>19, <1>0 DEF RememberKey, Unsaved
<1>20. CASE SaveKey(c)
  BY <1>20, <1>0 DEF SaveKey
<1>21. CASE CommitKey(c)
  BY <1>21, <1>0 DEF CommitKey, Answer, Uncommitted
<1> QED BY <1>1, <1>2, <1>3, <1>4, <1>5, <1>6, <1>7, <1>8, <1>9, <1>10, <1>11, <1>12, <1>13,
         <1>14, <1>15, <1>16, <1>17, <1>18, <1>19, <1>20, <1>21 DEF SubmitStep

LEMMA SubmitStoredByNow ==
    ASSUME MemoryShape, DiskShape, RecordOrNoQuote, Sequential, ~overlapped, NEW c \in Txs,
           SubmitStep(c), Only(c)
    PROVE  StoredByNow'
<1>0. /\ KeyOf[c] \in Keys \cup {None}
      /\ Uncommitted /\ StoredByNow
      /\ pc[c] \in {"remember_key"} \cup KeyKept => KeyOf[c] # None
  BY ServerParameters DEF Sequential, RecordOrNoQuote, Standing
<1> USE DEF StoredByNow, StoredInOrder, Only, Standing, At, Goto, Start, InProgress,
            MemoryShape, DiskShape, Store, databaseVars, argumentVars, fileVars, otherVars,
            Execute, Commit, Rollback, KeyKept, SavingTransaction, InTransactions, InReceipts,
            InTasks, Uncommitted
<1>1. CASE Lookup(c)
  BY <1>1, <1>0 DEF Lookup
<1>2. CASE Replay(c)
  BY <1>2, <1>0 DEF Replay
<1>3. CASE Conflict(c)
  BY <1>3, <1>0 DEF Conflict
<1>4. CASE Authorize(c)
  BY <1>4, <1>0 DEF Authorize
<1>5. CASE Settle(c)
  BY <1>5, <1>0 DEF Settle
<1>6. CASE SettleReturns(c)
  BY <1>6, <1>0 DEF SettleReturns
<1>7. CASE SumTotal(c)
  BY <1>7, <1>0 DEF SumTotal
<1>8. CASE VerifyTotal(c)
  BY <1>8, <1>0 DEF VerifyTotal
<1>9. CASE RecordTask(c)
  BY <1>9, <1>0 DEF RecordTask
<1>10. CASE Save(c)
  BY <1>10, <1>0 DEF Save, CommitOf, Statement
<1>11. CASE CommitSave(c)
  BY <1>11, <1>0 DEF CommitSave, NextSave
<1>12. CASE SaveBalances(c)
  BY <1>12, <1>0 DEF SaveBalances
<1>13. CASE DeleteRows(c)
  BY <1>13, <1>0 DEF DeleteRows
<1>14. CASE \E a \in Accounts : ReadRow(c, a)
  BY <1>14, <1>0 DEF ReadRow
<1>15. CASE \E a \in Accounts : InsertRow(c, a)
  <2>1. PICK a \in Accounts : InsertRow(c, a)
    BY <1>15
  <2>2. /\ pc[c] = "insert_rows" /\ PutRow(c, a) /\ committed' = committed
        /\ UNCHANGED <<plainVars, memoryVars, otherVars, historyVars>>
    BY <2>1, RowGoesIn DEF Sequential
  <2> QED BY <1>0, <2>2 DEF PutRow
<1>16. CASE SavePool(c)
  BY <1>16, <1>0 DEF SavePool
<1>17. CASE SaveSupply(c)
  BY <1>17, <1>0 DEF SaveSupply
<1>18. CASE CommitRows(c)
  BY <1>18, <1>0 DEF CommitRows, Answer
<1>19. CASE RememberKey(c)
  BY <1>19, <1>0 DEF RememberKey
<1>20. CASE SaveKey(c)
  BY <1>20, <1>0 DEF SaveKey
<1>21. CASE CommitKey(c)
  BY <1>21, <1>0 DEF CommitKey, Answer
<1> QED BY <1>1, <1>2, <1>3, <1>4, <1>5, <1>6, <1>7, <1>8, <1>9, <1>10, <1>11, <1>12, <1>13,
         <1>14, <1>15, <1>16, <1>17, <1>18, <1>19, <1>20, <1>21 DEF SubmitStep

\* Only c's own record is saved under a key that has none, so no answer is lost.
LEMMA SubmitAnsweredIsStored ==
    ASSUME MemoryShape, DiskShape, RecordOrNoQuote, Sequential, ~overlapped, NEW c \in Txs,
           SubmitStep(c), Only(c)
    PROVE  AnsweredIsStored'
<1>0. /\ KeyOf \in [Txs -> Keys \cup {None}] /\ None \notin Txs
      /\ Uncommitted /\ StoredByNow /\ AnsweredIsStored /\ FreshRequest
      /\ pc[c] \in {"remember_key"} \cup KeyKept => KeyOf[c] # None
  BY ServerParameters DEF Sequential, RecordOrNoQuote, Standing
<1> USE DEF AnsweredIsStored, StoredByNow, FreshRequest, Only, Standing, At, Goto, Start,
            InProgress, MemoryShape, DiskShape, Store, databaseVars, argumentVars, fileVars,
            otherVars, historyVars, Execute, Commit, Rollback, KeyKept, SavingTransaction,
            InTransactions, InReceipts, InTasks, Uncommitted
<1>1. CASE Lookup(c)
  BY <1>1, <1>0 DEF Lookup
<1>2. CASE Replay(c)
  BY <1>2, <1>0 DEF Replay
<1>3. CASE Conflict(c)
  BY <1>3, <1>0 DEF Conflict
<1>4. CASE Authorize(c)
  BY <1>4, <1>0 DEF Authorize
<1>5. CASE Settle(c)
  BY <1>5, <1>0 DEF Settle
<1>6. CASE SettleReturns(c)
  BY <1>6, <1>0 DEF SettleReturns
<1>7. CASE SumTotal(c)
  BY <1>7, <1>0 DEF SumTotal
<1>8. CASE VerifyTotal(c)
  BY <1>8, <1>0 DEF VerifyTotal
<1>9. CASE RecordTask(c)
  BY <1>9, <1>0 DEF RecordTask
<1>10. CASE Save(c)
  BY <1>10, <1>0 DEF Save, CommitOf, Statement
<1>11. CASE CommitSave(c)
  BY <1>11, <1>0 DEF CommitSave, NextSave
<1>12. CASE SaveBalances(c)
  BY <1>12, <1>0 DEF SaveBalances
<1>13. CASE DeleteRows(c)
  BY <1>13, <1>0 DEF DeleteRows
<1>14. CASE \E a \in Accounts : ReadRow(c, a)
  BY <1>14, <1>0 DEF ReadRow
<1>15. CASE \E a \in Accounts : InsertRow(c, a)
  <2>1. PICK a \in Accounts : InsertRow(c, a)
    BY <1>15
  <2>2. /\ pc[c] = "insert_rows" /\ PutRow(c, a) /\ committed' = committed
        /\ UNCHANGED <<plainVars, memoryVars, otherVars, historyVars>>
    BY <2>1, RowGoesIn DEF Sequential
  <2> QED BY <1>0, <2>2 DEF PutRow
<1>16. CASE SavePool(c)
  BY <1>16, <1>0 DEF SavePool
<1>17. CASE SaveSupply(c)
  BY <1>17, <1>0 DEF SaveSupply
<1>18. CASE CommitRows(c)
  BY <1>18, <1>0 DEF CommitRows, Answer
<1>19. CASE RememberKey(c)
  BY <1>19, <1>0 DEF RememberKey
<1>20. CASE SaveKey(c)
  BY <1>20, <1>0 DEF SaveKey
<1>21. CASE CommitKey(c)
  <2>1. /\ pc[c] = "commit_key" /\ committed' = working /\ overlapped' = overlapped
        /\ answered' = answered \cup {c} /\ KeyOf[c] \in Keys
    BY <1>0, <1>21 DEF CommitKey, Answer
  <2>2. /\ working.keys[KeyOf[c]] = c /\ committed.keys[KeyOf[c]] = None
        /\ \A k \in Keys \ {KeyOf[c]} : working.keys[k] = committed.keys[k]
        /\ working.transactions = committed.transactions
        /\ working.receipts = committed.receipts /\ working.tasks = committed.tasks
        /\ c \in committed.tasks \cap committed.receipts \cap committed.transactions
    BY <1>0, <2>1
  <2>3. \A d \in answered : KeyOf[d] # KeyOf[c] \/ d = c
    BY <1>0, <2>1, <2>2
  <2> QED BY <1>0, <2>1, <2>2, <2>3
<1> QED BY <1>1, <1>2, <1>3, <1>4, <1>5, <1>6, <1>7, <1>8, <1>9, <1>10, <1>11, <1>12, <1>13,
         <1>14, <1>15, <1>16, <1>17, <1>18, <1>19, <1>20, <1>21 DEF SubmitStep

\* The second of two submissions of one request is admitted only with a quote
\* that the first one's record, or the crash that took it, has left it without.
LEMMA SubmitChargedOnce ==
    ASSUME MemoryShape, DiskShape, RecordOrNoQuote, Sequential, NEW c \in Txs,
           SubmitStep(c), Only(c)
    PROVE  ChargedOnce'
<1>0. /\ KeyOf \in [Txs -> Keys \cup {None}] /\ None \notin Txs
      /\ ChargedOnce /\ Charging
      /\ pc[c] \in {"remember_key"} \cup KeyKept => KeyOf[c] # None
      /\ pc[c] \in KeyKept => keys[KeyOf[c]] # None
      /\ pc[c] \in AfterAdmission => QuoteOf[c] \in issued
  BY ServerParameters DEF Sequential, RecordOrNoQuote, Standing
<1> USE DEF ChargedOnce, Only, Standing, At, Goto, Start, InProgress, MemoryShape, DiskShape,
            plainVars, memoryVars, historyVars, KeyKept, AfterAdmission, Busy, LedgerTypeOK
<1>1. CASE Lookup(c)
  BY <1>1, <1>0 DEF Lookup, Charging, AppendedWhenPaid
<1>2. CASE Replay(c)
  BY <1>2, <1>0 DEF Replay, Charging, AppendedWhenPaid
<1>3. CASE Conflict(c)
  BY <1>3, <1>0 DEF Conflict, Charging, AppendedWhenPaid
<1>4. CASE Authorize(c)
  <2>1. c \notin transactions
    BY <1>0, <1>4 DEF Authorize, Charging, AppendedWhenPaid
  <2>2. Record(c) = None
    BY <1>4 DEF Authorize, Sequential, FreshRequest, BeforeRecord
  <2>3. ASSUME NEW d \in transactions, SameRequest(d, c), QuoteOf[c] \in quotes
        PROVE  FALSE
    <3>1. QuoteOf[d] = QuoteOf[c] /\ KeyOf[d] = KeyOf[c] /\ KeyOf[c] # None
      BY <2>3, ServerParameters DEF SameRequest
    <3> QED BY <1>0, <2>1, <2>2, <2>3, <3>1 DEF Record
  <2> QED BY <1>0, <1>4, <2>1, <2>3 DEF Authorize, Admitted
<1>5. CASE Settle(c)
  <2>1. transactions' = transactions \cup {c} \/ transactions' = transactions
    BY <1>5, SettleFrame DEF Settle
  <2> QED BY <1>0, <1>5, <2>1 DEF Settle, SameRequest
<1>6. CASE SettleReturns(c)
  BY <1>6, <1>0 DEF SettleReturns, Charging, SettleSound, AppendedWhenPaid, SettleDone
<1>7. CASE SumTotal(c)
  BY <1>7, <1>0 DEF SumTotal
<1>8. CASE VerifyTotal(c)
  <2>1. c \in Busy /\ Busy = {c} /\ pc[c] = "total_pool" /\ Supply
    BY <1>8 DEF VerifyTotal, Busy, Sequential
  <2>2. ~Debited(c) /\ seen[c] = balances_total
    BY <1>0, <2>1 DEF Charging, Debited
  <2>3. seen[c] + fee_pool = supply
    BY <2>1, <2>2 DEF Supply
  <2> QED BY <1>0, <1>8, <2>3 DEF VerifyTotal
<1>9. CASE RecordTask(c)
  BY <1>9, <1>0 DEF RecordTask
<1>10. CASE Save(c)
  BY <1>10, <1>0 DEF Save, CommitOf, Statement
<1>11. CASE CommitSave(c)
  BY <1>11, <1>0 DEF CommitSave, NextSave
<1>12. CASE SaveBalances(c)
  BY <1>12, <1>0 DEF SaveBalances
<1>13. CASE DeleteRows(c)
  BY <1>13, <1>0 DEF DeleteRows
<1>14. CASE \E a \in Accounts : ReadRow(c, a)
  BY <1>14, <1>0 DEF ReadRow
<1>15. CASE \E a \in Accounts : InsertRow(c, a)
  <2>1. PICK a \in Accounts : InsertRow(c, a)
    BY <1>15
  <2>2. /\ pc[c] = "insert_rows" /\ PutRow(c, a)
        /\ UNCHANGED <<plainVars, memoryVars, historyVars>>
    BY <2>1, RowGoesIn DEF Sequential
  <2> QED BY <1>0, <2>2 DEF PutRow
<1>16. CASE SavePool(c)
  BY <1>16, <1>0 DEF SavePool
<1>17. CASE SaveSupply(c)
  BY <1>17, <1>0 DEF SaveSupply
<1>18. CASE CommitRows(c)
  BY <1>18, <1>0 DEF CommitRows, Answer
<1>19. CASE RememberKey(c)
  BY <1>19, <1>0 DEF RememberKey
<1>20. CASE SaveKey(c)
  BY <1>20, <1>0 DEF SaveKey
<1>21. CASE CommitKey(c)
  BY <1>21, <1>0 DEF CommitKey, Answer
<1> QED BY <1>1, <1>2, <1>3, <1>4, <1>5, <1>6, <1>7, <1>8, <1>9, <1>10, <1>11, <1>12, <1>13,
         <1>14, <1>15, <1>16, <1>17, <1>18, <1>19, <1>20, <1>21 DEF SubmitStep

-----------------------------------------------------------------------------
(* Who has paid *)

\* One more submission that has paid moves the accounts of its two parties.
LEMMA PayingMoves ==
    ASSUME NEW calls \in SUBSET Txs, NEW c \in Txs \ calls, NEW a \in Accounts
    PROVE  /\ Accounted(calls, a) \in Int
           /\ Accounted(calls \cup {c}, a) =
                 Accounted(calls, a) - (IF Sender[c] = a THEN Total(c) ELSE 0)
                                     + (IF Receiver[c] = a THEN Amount[c] ELSE 0)
<1> DEFINE spent(s) == [d \in Txs |-> IF d \in s /\ Sender[d] = a THEN Total(d) ELSE 0]
           earned(s) == [d \in Txs |-> IF d \in s /\ Receiver[d] = a THEN Amount[d] ELSE 0]
           spentNow == spent(calls)
           spentThen == spent(calls \cup {c})
           earnedNow == earned(calls)
           earnedThen == earned(calls \cup {c})
<1>1. /\ spentNow \in [Txs -> Int] /\ spentThen \in [Txs -> Int]
      /\ earnedNow \in [Txs -> Int] /\ earnedThen \in [Txs -> Int]
  BY PlainTotalType
<1>2. /\ \A d \in Txs \ {c} : spentThen[d] = spentNow[d]
      /\ \A d \in Txs \ {c} : earnedThen[d] = earnedNow[d]
      /\ spentNow[c] = 0 /\ spentThen[c] = (IF Sender[c] = a THEN Total(c) ELSE 0)
      /\ earnedNow[c] = 0 /\ earnedThen[c] = (IF Receiver[c] = a THEN Amount[c] ELSE 0)
  OBVIOUS
<1>3. /\ Spent(calls, a) = SumFunctionOnSet(spentNow, Txs)
      /\ Spent(calls \cup {c}, a) = SumFunctionOnSet(spentThen, Txs)
      /\ Earned(calls, a) = SumFunctionOnSet(earnedNow, Txs)
      /\ Earned(calls \cup {c}, a) = SumFunctionOnSet(earnedThen, Txs)
  BY DEF Spent, Earned
<1> HIDE DEF spentNow, spentThen, earnedNow, earnedThen
<1>4. SumFunctionOnSet(spentThen, Txs)
         = SumFunctionOnSet(spentNow, Txs) - spentNow[c] + spentThen[c]
  BY <1>1, <1>2, SumUpdate, LedgerParameters
<1>5. SumFunctionOnSet(earnedThen, Txs)
         = SumFunctionOnSet(earnedNow, Txs) - earnedNow[c] + earnedThen[c]
  BY <1>1, <1>2, SumUpdate, LedgerParameters
<1>6. /\ SumFunctionOnSet(spentNow, Txs) \in Int /\ SumFunctionOnSet(earnedNow, Txs) \in Int
      /\ Opening[a] \in Int
  BY <1>1, SumType, LedgerParameters
<1> QED BY <1>2, <1>3, <1>4, <1>5, <1>6, PlainTotalType DEF Accounted

\* The set of those that have paid, as Payers says of it.
HavePaid(paid) ==
    /\ answered \subseteq paid
    /\ paid \subseteq transactions \cup {c \in Txs : pc[c] = "settle" /\ Credited(c)}
    /\ \A c \in Busy : c \in paid <=> Credited(c)
    /\ \A a \in Accounts :
          /\ Taken(a) = {} => balances[a] = Accounted(paid, a)
          /\ \A c \in Taken(a) : balances[a] = Accounted(paid, a) - Total(c)

LEMMA ElsewherePayers ==
    ASSUME MemoryShape, Sequential, NEW c \in Txs, Elsewhere(c), Only(c), Only(c)'
    PROVE  Payers'
<1>1. PICK paid \in SUBSET Txs : HavePaid(paid)
  BY DEF Sequential, Payers, HavePaid
<1>2. UNCHANGED <<balances, fee_pool, transactions, settling, before>>
  BY ElsewhereMovesNothing
<1>3. /\ \A d \in Txs \ {c} : pc'[d] \notin InProgress /\ pc[d] \notin InProgress
      /\ Charging /\ Charging'
  BY ElsewhereCharging DEF Only, Sequential
<1> USE DEF Charging, At, Goto, Start, InProgress, MemoryShape, Busy, Standing, Debited,
            Credited, SettleSound, AppendedWhenPaid, SettleDone, historyVars
<1>4. /\ answered' \subseteq answered
                              \cup (IF Credited(c) /\ pc[c] \in InProgress THEN {c} ELSE {})
      /\ pc[c] = "settle" => settling[c] \in SettleDone \cup {"idle"}
      /\ pc'[c] = "settle" => settling[c] = "idle"
      /\ pc'[c] \in InProgress => pc[c] \in InProgress \/ pc[c] = "new"
      /\ pc[c] = "settle" /\ Credited(c) => c \in transactions
  <2>1. CASE Lookup(c)
    BY <2>1, <1>2, <1>3 DEF Lookup
  <2>2. CASE Replay(c)
    BY <2>2, <1>2, <1>3 DEF Replay
  <2>3. CASE Conflict(c)
    BY <2>3, <1>2, <1>3 DEF Conflict
  <2>4. CASE Authorize(c)
    BY <2>4, <1>2, <1>3 DEF Authorize
  <2>5. CASE SettleReturns(c)
    BY <2>5, <1>2, <1>3 DEF SettleReturns
  <2>6. CASE SumTotal(c)
    BY <2>6, <1>2, <1>3 DEF SumTotal
  <2>7. CASE VerifyTotal(c)
    BY <2>7, <1>2, <1>3 DEF VerifyTotal
  <2>8. CASE RecordTask(c)
    BY <2>8, <1>2, <1>3 DEF RecordTask
  <2>9. CASE Save(c)
    BY <2>9, <1>2, <1>3 DEF Save, CommitOf, Statement
  <2>10. CASE CommitSave(c)
    BY <2>10, <1>2, <1>3 DEF CommitSave, NextSave
  <2>11. CASE SaveBalances(c)
    BY <2>11, <1>2, <1>3 DEF SaveBalances
  <2>12. CASE DeleteRows(c)
    BY <2>12, <1>2, <1>3 DEF DeleteRows
  <2>13. CASE \E a \in Accounts : ReadRow(c, a)
    BY <2>13, <1>2, <1>3 DEF ReadRow
  <2>14. CASE \E a \in Accounts : InsertRow(c, a)
    BY <2>14, <1>2, <1>3 DEF InsertRow, PutRow, RefuseRow
  <2>15. CASE SavePool(c)
    BY <2>15, <1>2, <1>3 DEF SavePool
  <2>16. CASE SaveSupply(c)
    BY <2>16, <1>2, <1>3 DEF SaveSupply
  <2>17. CASE CommitRows(c)
    BY <2>17, <1>2, <1>3 DEF CommitRows, Answer
  <2>18. CASE RememberKey(c)
    BY <2>18, <1>2, <1>3 DEF RememberKey
  <2>19. CASE SaveKey(c)
    BY <2>19, <1>2, <1>3 DEF SaveKey
  <2>20. CASE CommitKey(c)
    BY <2>20, <1>2, <1>3 DEF CommitKey, Answer
  <2> QED BY <2>1, <2>2, <2>3, <2>4, <2>5, <2>6, <2>7, <2>8, <2>9, <2>10, <2>11, <2>12, <2>13,
           <2>14, <2>15, <2>16, <2>17, <2>18, <2>19, <2>20 DEF Elsewhere

<1>5. /\ answered' \subseteq paid
      /\ paid \subseteq transactions' \cup {d \in Txs : pc'[d] = "settle" /\ Credited(d)'}
  BY <1>1, <1>2, <1>3, <1>4 DEF HavePaid
<1>6. \A d \in Busy' : d \in paid <=> Credited(d)'
  BY <1>1, <1>2, <1>3, <1>4 DEF HavePaid
<1>7. \A a \in Accounts : Taken(a) = {} /\ Taken(a)' = {}
  BY <1>2, <1>3, <1>4 DEF Taken
<1>8. HavePaid(paid)'
  BY <1>1, <1>2, <1>5, <1>6, <1>7 DEF HavePaid, Accounted
<1> QED BY <1>8 DEF Payers, HavePaid

LEMMA SettlePayers ==
    ASSUME MemoryShape, Sequential, NEW c \in Txs, Settle(c), Only(c)
    PROVE  Payers'
<1>1. PICK paid \in SUBSET Txs : HavePaid(paid)
  BY DEF Sequential, Payers, HavePaid
<1>2. /\ pc[c] = "settle" /\ UNCHANGED <<pc, answered>> /\ (CallSettle(c) \/ SettleStep(c))
      /\ Busy = {c} /\ Busy' = {c} /\ LedgerTypeOK
      /\ \A d \in Txs \ {c} : pc[d] # "settle"
      /\ SettleSound(c) /\ balances \in [Accounts -> Int]
  BY DEF Settle, At, Only, Busy, InProgress, MemoryShape, historyVars, Sequential, Charging,
         LedgerTypeOK
<1>3. /\ SettleMoves(c)
      /\ \A d \in Txs \ {c} : settling'[d] = settling[d]
      /\ transactions \subseteq transactions'
  BY <1>2, SettleFrame, SettleStepMoves
<1>4. \A a \in Accounts :
         /\ Taken(a) = (IF Debited(c) /\ Sender[c] = a THEN {c} ELSE {})
         /\ Taken(a)' = (IF Debited(c)' /\ Sender[c] = a THEN {c} ELSE {})
  BY <1>2 DEF Taken
<1>5. CASE UNCHANGED <<balances, fee_pool>> /\ (Debited(c)' <=> Debited(c))
                                            /\ (Credited(c)' <=> Credited(c))
  <2>1. HavePaid(paid)'
    BY <1>1, <1>2, <1>3, <1>4, <1>5 DEF HavePaid, Accounted, Credited
  <2> QED BY <2>1 DEF Payers, HavePaid
<1>6. CASE /\ settling[c] = "debit" /\ settling'[c] = "read_receiver"
           /\ balances' = [balances EXCEPT ![Sender[c]] = balances[Sender[c]] - Total(c)]
  <2>1. ~Debited(c) /\ Debited(c)' /\ ~Credited(c) /\ ~Credited(c)'
    BY <1>6 DEF Debited, Credited
  <2>2. \A a \in Accounts : /\ balances[a] = Accounted(paid, a)
                            /\ Sender[c] # a => balances'[a] = balances[a]
                            /\ Sender[c] = a => balances'[a] = balances[a] - Total(c)
    BY <1>1, <1>2, <1>4, <1>6, <2>1 DEF HavePaid
  <2>3. HavePaid(paid)'
    BY <1>1, <1>2, <1>3, <1>4, <2>1, <2>2 DEF HavePaid, Accounted, Credited, Total
  <2> QED BY <2>3 DEF Payers, HavePaid
<1>7. CASE /\ settling[c] = "credit" /\ settling'[c] = "append"
           /\ balances' = [balances EXCEPT ![Receiver[c]] = balances[Receiver[c]] + Amount[c]]
  <2>1. Debited(c) /\ ~Debited(c)' /\ ~Credited(c) /\ Credited(c)' /\ c \notin paid
    BY <1>1, <1>2, <1>7 DEF Debited, Credited, HavePaid
  <2> DEFINE more == paid \cup {c}
  <2>2. ASSUME NEW a \in Accounts
        PROVE  balances'[a] = Accounted(more, a)
    <3>1. /\ Accounted(paid, a) \in Int
          /\ Accounted(more, a) = Accounted(paid, a)
                                    - (IF Sender[c] = a THEN Total(c) ELSE 0)
                                    + (IF Receiver[c] = a THEN Amount[c] ELSE 0)
      BY <2>1, PayingMoves
    <3>2. balances[a] = Accounted(paid, a) - (IF Sender[c] = a THEN Total(c) ELSE 0)
      BY <1>1, <1>2, <1>4, <2>1, <3>1 DEF HavePaid
    <3>3. balances'[a] = balances[a] + (IF Receiver[c] = a THEN Amount[c] ELSE 0)
      BY <1>2, <1>7
    <3> QED BY <3>1, <3>2, <3>3, PlainTotalType
  <2>3. /\ answered' \subseteq more
        /\ more \subseteq transactions' \cup {d \in Txs : pc'[d] = "settle" /\ Credited(d)'}
        /\ \A d \in Busy' : d \in more <=> Credited(d)'
    BY <1>1, <1>2, <1>3, <2>1 DEF HavePaid, Credited
  <2>4. HavePaid(more)'
    BY <1>4, <2>1, <2>2, <2>3 DEF HavePaid, Accounted
  <2> QED BY <2>4 DEF Payers, HavePaid
<1> QED BY <1>3, <1>5, <1>6, <1>7 DEF SettleMoves

\* The set of those that the file has paid, as StoredPayers says of it.
HavePaidInFile(paid) ==
    /\ answered \cup Standing({"remember_key"} \cup KeyKept) \subseteq paid
    /\ paid \subseteq committed.transactions
    /\ \A a \in Accounts : LoadedBalances[a] = Accounted(paid, a)

LEMMA SubmitStoredPayers ==
    ASSUME MemoryShape, DiskShape, Sequential, NEW c \in Txs, SubmitStep(c), Only(c)
    PROVE  StoredPayers'
<1> USE DEF KeyKept, Standing
<1>1. Uncommitted /\ Unsaved /\ LedgerTypeOK
  BY DEF Sequential, MemoryShape
<1>2. CASE CommitRows(c)
  <2>1. /\ Busy = {c} /\ pc[c] = "commit_rows" /\ settling[c] = "settled"
        /\ committed' = working /\ committed'.rows = balances
    BY <1>2, SubmitStoredRows
  <2>2. PICK paid \in SUBSET Txs : HavePaid(paid)
    BY DEF Sequential, Payers, HavePaid
  <2>3. \A d \in Txs \ {c} : pc[d] # "settle" /\ pc[d] \notin {"remember_key"} \cup KeyKept
    BY DEF Only, InProgress
  <2>4. \A a \in Accounts : balances[a] = Accounted(paid, a)
    BY <2>1, <2>2, <2>3 DEF HavePaid, Taken
  <2>5. paid \subseteq committed'.transactions
    <3>1. paid \subseteq transactions
      BY <2>1, <2>2, <2>3 DEF HavePaid
    <3>2. transactions = committed.transactions
      BY <1>1, <2>1, <2>3 DEF Unsaved, Charged, SavingTransaction, Only, InProgress
    <3>3. working.transactions = committed.transactions
      BY <1>1, <2>1 DEF Uncommitted, Only, InProgress
    <3> QED BY <2>1, <3>1, <3>2, <3>3
  <2>6. c \in paid /\ answered \subseteq paid
    BY <2>1, <2>2 DEF HavePaid, Credited
  <2>7. answered' \subseteq paid /\ Standing({"remember_key"} \cup KeyKept)' \subseteq paid
    BY <1>2, <2>3, <2>6 DEF CommitRows, Answer, Goto, historyVars, MemoryShape, Only, InProgress
  <2>8. \A a \in Accounts : LoadedBalances'[a] = balances[a]
    <3>1. DOMAIN committed'.rows = Accounts /\ c \in Txs /\ Sender[c] \in Accounts
      BY <1>1, <2>1, LedgerParameters DEF LedgerTypeOK
    <3>2. ~NothingStored'
      BY <3>1 DEF NothingStored, NoRows
    <3> QED BY <2>1, <3>1, <3>2 DEF LoadedBalances
  <2>9. HavePaidInFile(paid)'
    BY <2>4, <2>5, <2>7, <2>8 DEF HavePaidInFile, Accounted
  <2> QED BY <2>9 DEF StoredPayers, HavePaidInFile
<1>3. CASE committed'.rows = committed.rows /\ ~CommitRows(c)
  <2>1. PICK paid \in SUBSET Txs : HavePaidInFile(paid)
    BY DEF Sequential, StoredPayers, HavePaidInFile
  <2>2. LoadedBalances' = LoadedBalances
    BY <1>3 DEF LoadedBalances, NothingStored
  <2> USE DEF At, Goto, Start, MemoryShape, DiskShape, Store, historyVars, databaseVars,
              argumentVars, fileVars, otherVars, Execute, Commit, Rollback
  <2>3. /\ committed.transactions \subseteq committed'.transactions
        /\ answered' \cup Standing({"remember_key"} \cup KeyKept)'
              \subseteq answered \cup Standing({"remember_key"} \cup KeyKept)
    <3>1. CASE Lookup(c)
      BY <3>1, <1>1, <1>3 DEF Lookup
    <3>2. CASE Replay(c)
      BY <3>2, <1>1, <1>3 DEF Replay
    <3>3. CASE Conflict(c)
      BY <3>3, <1>1, <1>3 DEF Conflict
    <3>4. CASE Authorize(c)
      BY <3>4, <1>1, <1>3 DEF Authorize
    <3>5. CASE Settle(c)
      BY <3>5, <1>1, <1>3 DEF Settle
    <3>6. CASE SettleReturns(c)
      BY <3>6, <1>1, <1>3 DEF SettleReturns
    <3>7. CASE SumTotal(c)
      BY <3>7, <1>1, <1>3 DEF SumTotal
    <3>8. CASE VerifyTotal(c)
      BY <3>8, <1>1, <1>3 DEF VerifyTotal
    <3>9. CASE RecordTask(c)
      BY <3>9, <1>1, <1>3 DEF RecordTask
    <3>10. CASE Save(c)
      BY <3>10, <1>1, <1>3 DEF Save, CommitOf, Statement
    <3>11. CASE CommitSave(c)
      BY <3>11, <1>1, <1>3 DEF CommitSave, NextSave, Uncommitted
    <3>12. CASE SaveBalances(c)
      BY <3>12, <1>1, <1>3 DEF SaveBalances
    <3>13. CASE DeleteRows(c)
      BY <3>13, <1>1, <1>3 DEF DeleteRows
    <3>14. CASE \E a \in Accounts : ReadRow(c, a)
      BY <3>14, <1>1, <1>3 DEF ReadRow
    <3>15. CASE \E a \in Accounts : InsertRow(c, a)
      <4>1. PICK a \in Accounts : InsertRow(c, a)
        BY <3>15
      <4>2. /\ pc[c] = "insert_rows" /\ PutRow(c, a) /\ committed' = committed
            /\ UNCHANGED historyVars
        BY <4>1, RowGoesIn DEF Sequential
      <4> QED BY <4>2 DEF PutRow
    <3>16. CASE SavePool(c)
      BY <3>16, <1>1, <1>3 DEF SavePool
    <3>17. CASE SaveSupply(c)
      BY <3>17, <1>1, <1>3 DEF SaveSupply
    <3>18. CASE RememberKey(c)
      BY <3>18, <1>1, <1>3 DEF RememberKey
    <3>19. CASE SaveKey(c)
      BY <3>19, <1>1, <1>3 DEF SaveKey
    <3>20. CASE CommitKey(c)
      BY <3>20, <1>1, <1>3 DEF CommitKey, Answer, Uncommitted
    <3> QED BY <3>1, <3>2, <3>3, <3>4, <3>5, <3>6, <3>7, <3>8, <3>9, <3>10, <3>11, <3>12,
             <3>13, <3>14, <3>15, <3>16, <3>17, <3>18, <3>19, <3>20, <1>3 DEF SubmitStep

  <2>4. HavePaidInFile(paid)'
    BY <2>1, <2>2, <2>3 DEF HavePaidInFile, Accounted
  <2> QED BY <2>4 DEF StoredPayers, HavePaidInFile
<1> QED BY <1>2, <1>3, SubmitStoredRows

-----------------------------------------------------------------------------
(* A request for a quote, a dispute, a crash *)

\* Between two submissions nothing but a dispute is uncommitted or unsaved.
LEMMA NothingPending ==
    ASSUME MemoryShape, DiskShape, Sequential, Busy = {}
    PROVE  /\ working = [committed EXCEPT !.disputes = committed.disputes \cup disputing]
           /\ transactions = committed.transactions /\ receipts = committed.receipts
           /\ tasks = committed.tasks /\ disputes = committed.disputes \cup disputing
           /\ keys = committed.keys
<1>1. \A c \in Txs : pc[c] \notin InProgress
  BY DEF Busy
<1>2. /\ Standing(SavingTransaction) = {} /\ Standing(SavingReceipt) = {}
      /\ Standing(SavingTask) = {} /\ Standing(KeyKept) = {}
      /\ {c \in Txs : Charged(c)} = {}
      /\ Standing({"commit_transactions"}) = {} /\ Standing({"commit_receipts"}) = {}
      /\ Standing({"commit_tasks"}) = {} /\ Standing({"commit_key"}) = {}
      /\ Standing(ReadOrInserted \cup Inserted) = {} /\ Standing(PoolWritten) = {}
      /\ Standing({"commit_rows"}) = {}
  BY <1>1 DEF Standing, Charged, SavingTransaction, SavingReceipt, SavingTask, KeyKept,
              InProgress, ReadOrInserted, Inserted, PoolWritten
<1>3. /\ working.transactions = committed.transactions
      /\ working.receipts = committed.receipts /\ working.tasks = committed.tasks
      /\ working.disputes = committed.disputes \cup disputing
      /\ working.keys = committed.keys /\ working.rows = committed.rows
      /\ working.pool = committed.pool /\ working.supply = committed.supply
  <2>1. Uncommitted /\ UncommittedRows
    BY DEF Sequential
  <2>2. working.keys = committed.keys
    BY <1>2, <2>1 DEF Uncommitted, DiskShape, Store
  <2>3. working.transactions = committed.transactions /\ working.receipts = committed.receipts
    BY <1>2, <2>1 DEF Uncommitted
  <2>4. /\ working.tasks = committed.tasks
        /\ working.disputes = committed.disputes \cup disputing
    BY <1>2, <2>1 DEF Uncommitted
  <2>5. /\ working.rows = committed.rows /\ working.pool = committed.pool
        /\ working.supply = committed.supply
    BY <1>2, <2>1 DEF UncommittedRows
  <2> QED BY <2>2, <2>3, <2>4, <2>5
<1>4. working = [committed EXCEPT !.disputes = committed.disputes \cup disputing]
  BY <1>3 DEF DiskShape, Store
<1>5. keys = committed.keys
  BY <1>2 DEF Sequential, Unsaved, MemoryShape, DiskShape, Store
<1> QED BY <1>2, <1>4, <1>5 DEF Sequential, Unsaved

\* The statement and the commit of a quote or a dispute touch the disputes, in
\* memory and in the file, the quotes, and nothing else.
LEMMA QuoteOrDisputeMoves ==
    ASSUME MemoryShape, DiskShape, Sequential, QuoteOrDispute, ~overlapped, ~overlapped'
    PROVE  /\ Busy = {}
           /\ UNCHANGED <<plainVars, pc, tasks, receipts, keys, supply, argumentVars, answered,
                          restarts>>
           /\ \/ quotes' = quotes /\ issued' = issued
              \/ \E q \in Quotes \ issued :
                    quotes' = quotes \cup {q} /\ issued' = issued \cup {q}
           /\ disputes' = committed'.disputes \cup disputing'
           /\ committed'.disputes \cup disputing' \subseteq committed.transactions
           /\ committed' = [committed EXCEPT !.disputes = committed'.disputes]
           /\ working' = [committed EXCEPT !.disputes = committed'.disputes \cup disputing']
<1> USE DEF MemoryShape, DiskShape, Store, Execute, Commit, Overlap, plainVars, memoryVars,
            argumentVars, otherVars, historyVars
<1>0. /\ committed.disputes \cup disputing \subseteq committed.transactions
      /\ Busy # {} => quoting = {} /\ disputing = {}
  BY DEF Sequential, StoredByNow, StoredInOrder, Alone
<1>1. ASSUME NEW q \in Quotes, RequestQuote(q) PROVE Busy = {}
  BY <1>1 DEF RequestQuote
<1>2. ASSUME NEW q \in Quotes, CommitQuote(q) PROVE Busy = {}
  BY <1>0, <1>2 DEF CommitQuote
<1>3. ASSUME NEW t \in Txs, OpenDispute(t) PROVE Busy = {}
  BY <1>3 DEF OpenDispute
<1>4. ASSUME NEW t \in Txs, CommitDispute(t) PROVE Busy = {}
  BY <1>0, <1>4 DEF CommitDispute
<1>5. Busy = {}
  BY <1>1, <1>2, <1>3, <1>4 DEF QuoteOrDispute
<1>6. /\ working = [committed EXCEPT !.disputes = committed.disputes \cup disputing]
      /\ transactions = committed.transactions
      /\ disputes = committed.disputes \cup disputing
  BY <1>5, NothingPending
<1> DEFINE Goal ==
      /\ UNCHANGED <<plainVars, pc, tasks, receipts, keys, supply, argumentVars, answered,
                     restarts>>
      /\ \/ quotes' = quotes /\ issued' = issued
         \/ \E q \in Quotes \ issued :
               quotes' = quotes \cup {q} /\ issued' = issued \cup {q}
      /\ disputes' = committed'.disputes \cup disputing'
      /\ committed'.disputes \cup disputing' \subseteq committed.transactions
      /\ committed' = [committed EXCEPT !.disputes = committed'.disputes]
      /\ working' = [committed EXCEPT !.disputes = committed'.disputes \cup disputing']
<1>7. ASSUME NEW q \in Quotes, RequestQuote(q) PROVE Goal
  BY <1>0, <1>6, <1>7 DEF RequestQuote
<1>8. ASSUME NEW q \in Quotes, CommitQuote(q) PROVE Goal
  BY <1>0, <1>6, <1>8 DEF CommitQuote
<1>9. ASSUME NEW t \in Txs, OpenDispute(t) PROVE Goal
  BY <1>0, <1>6, <1>9 DEF OpenDispute
<1>10. ASSUME NEW t \in Txs, CommitDispute(t) PROVE Goal
  BY <1>0, <1>6, <1>10 DEF CommitDispute
<1>11. Goal
  BY <1>7, <1>8, <1>9, <1>10 DEF QuoteOrDispute
<1> QED BY <1>5, <1>11

LEMMA QuoteOrDisputeKeepsSequential ==
    ASSUME MemoryShape, DiskShape, Sequential, QuoteOrDispute, ~overlapped, ~overlapped'
    PROVE  Sequential'
<1>1. /\ Busy = {}
      /\ UNCHANGED <<plainVars, pc, tasks, receipts, keys, supply, argumentVars, answered,
                     restarts>>
      /\ \/ quotes' = quotes /\ issued' = issued
         \/ \E q \in Quotes \ issued :
               quotes' = quotes \cup {q} /\ issued' = issued \cup {q}
      /\ disputes' = committed'.disputes \cup disputing'
      /\ committed'.disputes \cup disputing' \subseteq committed.transactions
      /\ committed' = [committed EXCEPT !.disputes = committed'.disputes]
      /\ working' = [committed EXCEPT !.disputes = committed'.disputes \cup disputing']
  BY QuoteOrDisputeMoves
<1>2. /\ transactions = committed.transactions /\ receipts = committed.receipts
      /\ tasks = committed.tasks /\ keys = committed.keys
      /\ working = [committed EXCEPT !.disputes = committed.disputes \cup disputing]
  BY <1>1, NothingPending
<1>3. \A c \in Txs : pc[c] \notin InProgress
  BY <1>1 DEF Busy
<1>4. /\ committed'.transactions = committed.transactions
      /\ committed'.receipts = committed.receipts /\ committed'.tasks = committed.tasks
      /\ committed'.keys = committed.keys /\ committed'.rows = committed.rows
      /\ committed'.pool = committed.pool /\ committed'.supply = committed.supply
      /\ working'.transactions = committed.transactions
      /\ working'.receipts = committed.receipts /\ working'.tasks = committed.tasks
      /\ working'.keys = committed.keys /\ working'.rows = committed.rows
      /\ working'.pool = committed.pool /\ working'.supply = committed.supply
      /\ working'.disputes = committed'.disputes \cup disputing'
  BY <1>1 DEF DiskShape, Store
<1> USE <1>3, <1>4 DEF Sequential, Standing, Busy, plainVars, argumentVars
<1>5. Alone' /\ Charging' /\ Supply' /\ StoredSupply'
  BY <1>1 DEF Alone, Charging, Supply, StoredSupply, SettleSound, AppendedWhenPaid, Debited,
         NoDebt, balances_total
<1>6. Uncommitted'
  BY <1>1, <1>2 DEF Uncommitted, InProgress
<1>7. UncommittedRows'
  BY <1>1 DEF UncommittedRows, ReadOrInserted, Inserted, PoolWritten, InProgress
<1>8. Unsaved'
  BY <1>1, <1>2 DEF Unsaved, Charged
<1>9. FreshRequest' /\ StoredByNow' /\ AnsweredIsStored'
  BY <1>1 DEF FreshRequest, StoredByNow, StoredInOrder, AnsweredIsStored, Record
<1>10. ChargedOnce'
  BY <1>1 DEF ChargedOnce
<1>11. Payers' /\ StoredPayers'
  BY <1>1 DEF Payers, StoredPayers, Taken, Debited, Credited, Accounted, LoadedBalances,
         NothingStored
<1> QED BY <1>5, <1>6, <1>7, <1>8, <1>9, <1>10, <1>11

\* What a restart would load adds up.
LEMMA StoredIsLoaded ==
    ASSUME DiskShape, StoredSupply
    PROVE  /\ LoadedBalances \in [Accounts -> Int] /\ LoadedPool \in Nat
           /\ LoadedSupply = total_supply
           /\ \A a \in Accounts : LoadedBalances[a] >= 0
           /\ SumFunctionOnSet(LoadedBalances, Accounts) + LoadedPool = total_supply
<1>1. LoadedBalances \in [Accounts -> Int] /\ LoadedPool \in Nat
  BY LoadedType DEF DiskShape
<1>2. CASE NothingStored
  <2>1. total_supply \in Int
    BY SumType, LedgerParameters DEF total_supply
  <2> QED BY <1>1, <1>2, <2>1, LedgerParameters
          DEF LoadedBalances, LoadedPool, LoadedSupply, total_supply
<1>3. CASE ~NothingStored
  <2>1. /\ DOMAIN committed.rows = Accounts /\ committed.supply = total_supply
        /\ SumFunctionOnSet(committed.rows, Accounts) + committed.pool = total_supply
        /\ \A a \in Accounts : committed.rows[a] >= 0
    BY <1>3 DEF StoredSupply, NothingStored
  <2>2. committed.rows \in [Accounts -> Int]
    BY <2>1, RowsType DEF DiskShape, Store
  <2>3. LoadedBalances = committed.rows
    BY <1>3, <2>1, <2>2 DEF LoadedBalances
  <2> QED BY <1>1, <1>3, <2>1, <2>3 DEF LoadedPool, LoadedSupply
<1> QED BY <1>2, <1>3

\* A crash at any point of a request leaves what the file holds, which is in
\* order whatever statement was the last one committed.
LEMMA RestartKeepsSequential ==
    ASSUME MemoryShape, DiskShape, Sequential, ~overlapped, Restart
    PROVE  Sequential'
<1>1. /\ balances' = LoadedBalances /\ fee_pool' = LoadedPool
      /\ transactions' = committed.transactions /\ keys' = committed.keys
      /\ tasks' = committed.tasks /\ receipts' = committed.receipts
      /\ disputes' = committed.disputes /\ quotes' = {} /\ supply' = LoadedSupply
      /\ quoting' = {} /\ disputing' = {}
      /\ rows_arg' = [c \in Txs |-> NoRows]
      /\ UNCHANGED <<committed, issued, answered, overlapped>> /\ working' = committed
      /\ \A c \in Txs : /\ pc'[c] = (IF c \in Busy THEN "lost" ELSE pc[c])
                        /\ settling'[c] = (IF c \in Busy THEN "idle" ELSE settling[c])
  BY DEF Restart, Rollback, QuotesAfterRestart
<1>2. \A c \in Txs : pc'[c] \notin InProgress
  BY <1>1 DEF Busy, InProgress
<1>3. Busy' = {} /\ \A P : P \subseteq InProgress => Standing(P)' = {}
  BY <1>2 DEF Busy, Standing
<1>4. committed.transactions \subseteq transactions
  BY DEF Sequential, Unsaved
<1>5. /\ LoadedBalances \in [Accounts -> Int] /\ LoadedSupply = total_supply
      /\ \A a \in Accounts : LoadedBalances[a] >= 0
      /\ SumFunctionOnSet(LoadedBalances, Accounts) + LoadedPool = total_supply
  BY StoredIsLoaded DEF Sequential
<1>6. \A c \in Txs : DOMAIN rows_arg'[c] = {}
  BY <1>1, NoRowsType
<1>7. Alone' /\ Supply' /\ StoredSupply'
  BY <1>1, <1>3, <1>5 DEF Sequential, Alone, Supply, StoredSupply, balances_total
<1>8. Charging'
  <2>1. NoDebt'
    BY <1>1, <1>5 DEF NoDebt
  <2>2. (\A c \in Txs : pc[c] \in {"new", "authorize"} => settling[c] = "idle")'
    BY <1>1, <1>2 DEF Sequential, Charging, InProgress
  <2>3. (\A c \in Standing({"new", "authorize", "settle"}) : AppendedWhenPaid(c))'
    <3>1. ASSUME NEW c \in Txs, pc'[c] \in {"new", "authorize", "settle"}
          PROVE  AppendedWhenPaid(c)'
      <4>1. pc[c] = "new" /\ c \notin Busy
        BY <1>1, <1>2, <3>1 DEF InProgress
      <4>2. settling[c] = "idle" /\ c \notin transactions
        BY <4>1 DEF Sequential, Charging, Standing, AppendedWhenPaid
      <4> QED BY <1>1, <1>4, <4>1, <4>2 DEF AppendedWhenPaid
    <3> QED BY <3>1 DEF Standing
  <2>4. Standing({"total_pool"})' = {}
    BY <1>3 DEF InProgress
  <2> QED BY <1>3, <2>1, <2>2, <2>3, <2>4 DEF Charging
<1>9. Uncommitted' /\ UncommittedRows' /\ Unsaved' /\ FreshRequest'
  <2> USE DEF Standing, InProgress
  <2>1. Uncommitted' /\ UncommittedRows'
    BY <1>1, <1>2, <1>6 DEF Uncommitted, UncommittedRows, ReadOrInserted, Inserted, PoolWritten
  <2>2. Unsaved'
    BY <1>1, <1>2 DEF Unsaved, Charged, SavingTransaction, SavingReceipt, SavingTask, KeyKept
  <2>3. FreshRequest'
    BY <1>1, <1>2 DEF FreshRequest, BeforeRecord, BeforeTask, SavingTask, SavingReceipt, KeyKept
  <2> QED BY <2>1, <2>2, <2>3
<1>10. StoredByNow' /\ AnsweredIsStored'
  <2>1. Standing(InTransactions)' = {} /\ Standing(InReceipts)' = {} /\ Standing(InTasks)' = {}
    BY <1>3 DEF InTransactions, InReceipts, InTasks
  <2> QED BY <1>1, <2>1 DEF Sequential, StoredByNow, StoredInOrder, AnsweredIsStored
<1>11. ChargedOnce'
  <2>1. Standing({"settle"})' = {}
    BY <1>3 DEF InProgress
  <2> QED BY <1>1, <1>4, <2>1 DEF Sequential, ChargedOnce
<1>12. PICK paid \in SUBSET Txs : HavePaidInFile(paid)
  BY DEF Sequential, StoredPayers, HavePaidInFile
<1>13. Payers'
  <2>1. \A a \in Accounts : Taken(a)' = {}
    BY <1>2 DEF Taken, InProgress
  <2>2. HavePaid(paid)'
    BY <1>1, <1>3, <1>12, <2>1 DEF HavePaid, HavePaidInFile, Accounted
  <2> QED BY <2>2 DEF Payers, HavePaid
<1>14. StoredPayers'
  <2>1. Standing({"remember_key"} \cup KeyKept)' = {}
    BY <1>3 DEF KeyKept, InProgress
  <2>2. HavePaidInFile(paid)'
    BY <1>1, <1>12, <2>1 DEF HavePaidInFile, Accounted, LoadedBalances, NothingStored
  <2> QED BY <2>2 DEF StoredPayers, HavePaidInFile
<1> QED BY <1>7, <1>8, <1>9, <1>10, <1>11, <1>13, <1>14 DEF Sequential

LEMMA StutterKeepsSequential ==
    ASSUME Sequential, UNCHANGED vars PROVE Sequential'
<1> USE DEF Sequential, vars, plainVars, memoryVars, databaseVars, argumentVars, fileVars,
            otherVars, historyVars, Standing, Busy
<1>1. Alone' /\ Charging' /\ Supply' /\ StoredSupply'
  BY DEF Alone, Charging, Supply, StoredSupply, SettleSound, AppendedWhenPaid, Debited,
         NoDebt, balances_total
<1>2. Uncommitted' /\ UncommittedRows' /\ Unsaved'
  BY DEF Uncommitted, UncommittedRows, AreBalances, Unsaved, Charged
<1>3. FreshRequest' /\ StoredByNow' /\ AnsweredIsStored' /\ ChargedOnce'
  BY DEF FreshRequest, StoredByNow, StoredInOrder, AnsweredIsStored, ChargedOnce, Record
<1>4. Payers' /\ StoredPayers'
  BY DEF Payers, StoredPayers, Taken, Debited, Credited, Accounted, LoadedBalances,
         NothingStored
<1> QED BY <1>1, <1>2, <1>3, <1>4

LEMMA NobodyHasPaid ==
    ASSUME NEW a \in Accounts PROVE Accounted({}, a) = Opening[a]
<1>1. Spent({}, a) = 0 /\ Earned({}, a) = 0
  BY SumZero, LedgerParameters DEF Spent, Earned
<1> QED BY <1>1, LedgerParameters DEF Accounted

LEMMA InitSequential == Init => Sequential
<1> SUFFICES ASSUME Init PROVE Sequential
  OBVIOUS
<1> USE DEF Init, LedgerInit, EmptyDatabase, Standing, Busy, InProgress
<1>1. Alone /\ StoredSupply
  BY DEF Alone, StoredSupply
<1>2. Charging /\ Supply
  <2>1. total_supply \in Int
    BY SumType, LedgerParameters DEF total_supply
  <2> QED BY <2>1, LedgerParameters
          DEF Charging, Supply, AppendedWhenPaid, NoDebt, balances_total, total_supply
<1>3. Uncommitted /\ UncommittedRows
  BY NoRowsType DEF Uncommitted, UncommittedRows, ReadOrInserted, Inserted, PoolWritten
<1>4. Unsaved
  BY DEF Unsaved, Charged, SavingTransaction, SavingReceipt, SavingTask, KeyKept
<1>5. FreshRequest
  BY DEF FreshRequest, BeforeRecord, BeforeTask, SavingTask, SavingReceipt, KeyKept
<1>6. StoredByNow /\ AnsweredIsStored
  BY DEF StoredByNow, StoredInOrder, AnsweredIsStored, InTransactions, InReceipts, InTasks
<1>7. ChargedOnce
  BY DEF ChargedOnce
<1>8. HavePaid({})
  BY NobodyHasPaid DEF HavePaid, Taken
<1>9. HavePaidInFile({})
  BY NobodyHasPaid DEF HavePaidInFile, LoadedBalances, NothingStored, KeyKept
<1>10. Payers /\ StoredPayers
  BY <1>8, <1>9 DEF Payers, StoredPayers, HavePaid, HavePaidInFile
<1> QED BY <1>1, <1>2, <1>3, <1>4, <1>5, <1>6, <1>7, <1>10 DEF Sequential

-----------------------------------------------------------------------------
(* The invariant and what follows from it *)

LEMMA StepKeepsSequential ==
    ASSUME ServerInv, [Next]_vars, ~overlapped'
    PROVE  Sequential'
<1>0. /\ MemoryShape /\ DiskShape /\ ServerShape /\ RecordOrNoQuote
      /\ (~overlapped => Sequential)
  BY ShapeParts DEF ServerInv
<1>1. ASSUME NEW c \in Txs, SubmitStep(c) PROVE Sequential'
  <2>1. ~overlapped /\ Sequential /\ Only(c) /\ Only(c)' /\ Alone'
    BY <1>0, <1>1, SubmitIsAlone
  <2>2. Charging' /\ Supply' /\ Payers'
    BY <1>0, <1>1, <2>1, SubmitKinds, SettleCharging, ElsewhereCharging, SettlePayers,
       ElsewherePayers
  <2>3. StoredSupply' /\ StoredPayers' /\ Uncommitted' /\ UncommittedRows'
    BY <1>0, <1>1, <2>1, SubmitStoredSupply, SubmitStoredPayers, SubmitUncommitted,
       SubmitUncommittedRows
  <2>4. Unsaved' /\ FreshRequest' /\ StoredByNow' /\ AnsweredIsStored' /\ ChargedOnce'
    BY <1>0, <1>1, <2>1, SubmitUnsaved, SubmitFreshRequest, SubmitStoredByNow,
       SubmitAnsweredIsStored, SubmitChargedOnce
  <2> QED BY <2>1, <2>2, <2>3, <2>4 DEF Sequential
<1>2. ~(\E c \in Txs : SubmitStep(c)) => ~overlapped
  BY <1>0 DEF Next, RequestQuote, CommitQuote, OpenDispute, CommitDispute, Restart, Overlap,
     vars, historyVars, MemoryShape
<1>3. ASSUME QuoteOrDispute, ~overlapped PROVE Sequential'
  BY <1>0, <1>3, QuoteOrDisputeKeepsSequential
<1>4. ASSUME Restart, ~overlapped PROVE Sequential'
  BY <1>0, <1>4, RestartKeepsSequential
<1>5. ASSUME UNCHANGED vars, ~overlapped PROVE Sequential'
  BY <1>0, <1>5, StutterKeepsSequential
<1> QED BY <1>1, <1>2, <1>3, <1>4, <1>5 DEF Next, QuoteOrDispute

\* The inductive invariant: the types, what an answered key leaves behind, and,
\* while requests come one at a time, how memory, file and money agree.
THEOREM AlwaysServerInv == Spec => []ServerInv
<1>1. Init => ServerInv
  BY ServerInitShape, InitSequential DEF ServerInv, Init, RecordOrNoQuote, Standing,
     AfterAdmission, KeyKept, InProgress
<1>2. ServerInv /\ [Next]_vars => ServerInv'
  BY ServerStepShape, StepKeepsRecordOrNoQuote, StepKeepsSequential DEF ServerInv
<1> QED BY <1>1, <1>2, PTL DEF Spec

\* One request at a time and any number of crashes: the live balances outside
\* settle() and the stored ones always add up, with their fee pool, to what the
\* accounts opened with, no balance is below zero, and the total_supply that
\* verify_zero_sum() is given, or would be after a restart, is that sum.
THEOREM SupplyIsKept == Spec => []SupplyKept
<1>1. ServerInv => SupplyKept
  <2> SUFFICES ASSUME ServerInv, ~overlapped PROVE SupplyKept
    BY DEF SupplyKept
  <2>1. Charging /\ Supply /\ StoredSupply /\ DiskShape
    BY ShapeParts DEF ServerInv, Sequential
  <2>2. ASSUME \A c \in Txs : ~Settling(c), NEW c \in Busy PROVE ~Debited(c)
    BY <2>1, <2>2 DEF Settling, At, Busy, Charging, Debited, SettleDone, InProgress
  <2>3. (\A c \in Txs : ~Settling(c)) => balances_total + fee_pool = total_supply
    BY <2>1, <2>2 DEF Supply
  <2> QED BY <2>1, <2>3, StoredIsLoaded DEF SupplyKept, Supply, Charging, NoDebt
<1> QED BY <1>1, AlwaysServerInv, PTL

\* One request at a time and any number of crashes: what a client was answered
\* is in the file, with its transaction, receipt and idempotency record.
THEOREM AnswersAreStored == Spec => []AnsweredIsStored
<1>1. ServerInv => AnsweredIsStored
  BY DEF ServerInv, Sequential, AnsweredIsStored
<1> QED BY <1>1, AlwaysServerInv, PTL

\* One request at a time: a crash never leaves a record in the file without the
\* one it refers to.
THEOREM RecordsAreInOrder == Spec => []StoredInOrder
<1>1. ServerInv => StoredInOrder
  BY DEF ServerInv, Sequential, StoredByNow, StoredInOrder
<1> QED BY <1>1, AlwaysServerInv, PTL

\* One request at a time: whatever point a crash cut a submission off at, its
\* retry under the same key is not charged again.
THEOREM RetriesAreChargedOnce == Spec => []RequestChargedOnce
<1>1. ServerInv => RequestChargedOnce
  BY DEF ServerInv, Sequential, ChargedOnce, RequestChargedOnce
<1> QED BY <1>1, AlwaysServerInv, PTL

\* More submissions spend no less and earn no less.
LEMMA MoreIsNotLess ==
    ASSUME NEW few \in SUBSET Txs, NEW many \in SUBSET Txs, few \subseteq many,
           NEW a \in Accounts
    PROVE  /\ Spent(few, a) \in Int /\ Spent(many, a) \in Int
           /\ Earned(few, a) \in Int /\ Earned(many, a) \in Int
           /\ Spent(few, a) <= Spent(many, a) /\ Earned(few, a) <= Earned(many, a)
<1> DEFINE spent(s) == [d \in Txs |-> IF d \in s /\ Sender[d] = a THEN Total(d) ELSE 0]
           earned(s) == [d \in Txs |-> IF d \in s /\ Receiver[d] = a THEN Amount[d] ELSE 0]
           spentFew == spent(few)
           spentMany == spent(many)
           earnedFew == earned(few)
           earnedMany == earned(many)
<1>1. /\ spentFew \in [Txs -> Int] /\ spentMany \in [Txs -> Int]
      /\ earnedFew \in [Txs -> Int] /\ earnedMany \in [Txs -> Int]
  BY PlainTotalType
<1>2. \A d \in Txs : spentFew[d] <= spentMany[d] /\ earnedFew[d] <= earnedMany[d]
  BY PlainTotalType
<1>3. /\ Spent(few, a) = SumFunctionOnSet(spentFew, Txs)
      /\ Spent(many, a) = SumFunctionOnSet(spentMany, Txs)
      /\ Earned(few, a) = SumFunctionOnSet(earnedFew, Txs)
      /\ Earned(many, a) = SumFunctionOnSet(earnedMany, Txs)
  BY DEF Spent, Earned
<1> HIDE DEF spentFew, spentMany, earnedFew, earnedMany
<1>4. /\ SumFunctionOnSet(spentFew, Txs) <= SumFunctionOnSet(spentMany, Txs)
      /\ SumFunctionOnSet(earnedFew, Txs) <= SumFunctionOnSet(earnedMany, Txs)
  BY <1>1, <1>2, SumMonotone, LedgerParameters
<1> QED BY <1>1, <1>3, <1>4, SumType, LedgerParameters

\* One request at a time and any number of crashes: between requests an account
\* has paid for all that was answered and for nothing without a transaction.
THEOREM MoneyIsAccountedFor == Spec => []MoneyFollowsRecords
<1>1. ServerInv => MoneyFollowsRecords
  <2> SUFFICES ASSUME ServerInv, ~overlapped, Busy = {}, NEW a \in Accounts
               PROVE  /\ balances[a] >= Opening[a] - Spent(transactions, a)
                                                   + Earned(answered, a)
                      /\ balances[a] <= Opening[a] - Spent(answered, a)
                                                   + Earned(transactions, a)
    BY DEF MoneyFollowsRecords
  <2>1. Sequential /\ MemoryShape
    BY ShapeParts DEF ServerInv
  <2>2. PICK paid \in SUBSET Txs : HavePaid(paid)
    BY <2>1 DEF Sequential, Payers, HavePaid
  <2>3. \A c \in Txs : pc[c] # "settle"
    BY DEF Busy, InProgress
  <2>4. answered \subseteq paid /\ paid \subseteq transactions
    BY <2>2, <2>3 DEF HavePaid
  <2>5. balances[a] = Accounted(paid, a)
    BY <2>2, <2>3 DEF HavePaid, Taken
  <2>6. answered \in SUBSET Txs /\ transactions \in SUBSET Txs /\ Opening[a] \in Int
    BY <2>1, LedgerParameters DEF MemoryShape, LedgerTypeOK
  <2>7. /\ Spent(answered, a) <= Spent(paid, a) /\ Earned(answered, a) <= Earned(paid, a)
        /\ Spent(paid, a) <= Spent(transactions, a)
        /\ Earned(paid, a) <= Earned(transactions, a)
        /\ Spent(answered, a) \in Int /\ Earned(answered, a) \in Int
        /\ Spent(paid, a) \in Int /\ Earned(paid, a) \in Int
        /\ Spent(transactions, a) \in Int /\ Earned(transactions, a) \in Int
    BY <2>4, <2>6, MoreIsNotLess
  <2> QED BY <2>5, <2>6, <2>7 DEF Accounted
<1> QED BY <1>1, AlwaysServerInv, PTL
-----------------------------------------------------------------------------
(* Requests that save balances at once *)

\* As long as no request has failed or been lost.
AllIsWell == \A c \in Txs : pc[c] \notin {"failed", "lost"}

\* Those that have moved money and not begun to save the balances.
YetToSave == {"total", "total_pool", "record", "transactions", "commit_transactions",
              "receipts", "commit_receipts", "tasks", "commit_tasks", "save_balances",
              "delete_rows"}
Owing == {c \in Txs : \/ pc[c] \in YetToSave
                      \/ pc[c] = "settle" /\ (Debited(c) \/ Credited(c))}

\* What a submission has yet to insert.
Left(c) == IF pc[c] = "read_rows" THEN Accounts ELSE DOMAIN rows_arg[c]
RowsReady ==
    \A c \in Txs : /\ pc[c] = "insert_rows" => DOMAIN rows_arg[c] # {}
                   /\ pc[c] \notin ReadOrInserted => DOMAIN rows_arg[c] = {}

\* The rows are the balances, or none yet, and in the file or about to be.
RowsAreKept ==
    /\ \/ /\ DOMAIN working.rows = {} /\ balances = Opening
          /\ Standing(ReadOrInserted) = {}
       \/ DOMAIN working.rows = Accounts /\ AreBalances(working.rows)
    /\ committed.rows = working.rows \/ Standing(Inserted) # {}

\* The last to delete the rows has read the balances. It inserts them alone, or
\* somebody has put a row in its way.
RowsAreInserted(c) ==
    /\ c \in Standing(ReadOrInserted) /\ AreBalances(rows_arg[c])
    /\ \/ DOMAIN working.rows = Accounts \ Left(c) /\ AreBalances(working.rows)
       \/ DOMAIN working.rows \cap Left(c) # {}

RowsFollowBalances ==
    /\ RowsReady
    /\ AllIsWell /\ Owing = {} => RowsAreKept \/ \E c \in Txs : RowsAreInserted(c)

\* The steps that do not concern the rows.
BesideRows(c) ==
    \/ Lookup(c) \/ Replay(c) \/ Conflict(c) \/ Authorize(c)
    \/ Settle(c) \/ SettleReturns(c) \/ SumTotal(c) \/ VerifyTotal(c)
    \/ RecordTask(c) \/ Save(c) \/ CommitSave(c) \/ SaveBalances(c)
    \/ RememberKey(c) \/ SaveKey(c) \/ CommitKey(c)

\* They touch neither the rows nor, but for settle(), which leaves the request
\* owing, the balances; and no request ceases to owe by them, but by failing.
LEMMA BesideRowsMoves ==
    ASSUME MemoryShape, DiskShape, NEW c \in Txs, BesideRows(c)
    PROVE  /\ UNCHANGED rows_arg /\ working'.rows = working.rows
           /\ committed'.rows = committed.rows \/ committed'.rows = working.rows
           /\ pc[c] \notin ReadOrInserted \cup Inserted \cup {"failed", "lost"}
           /\ pc'[c] \notin ReadOrInserted \cup Inserted
           /\ \A d \in Txs \ {c} : pc'[d] = pc[d] /\ settling'[d] = settling[d]
           /\ balances' = balances \/ c \in Owing'
           /\ c \in Owing => c \in Owing' \/ pc'[c] = "failed"
<1> USE DEF MemoryShape, DiskShape, LedgerTypeOK, Store, ReadOrInserted, Inserted, Owing,
            YetToSave, Debited, Credited, At, Goto, Start, Execute, Commit, plainVars,
            databaseVars, argumentVars, fileVars, otherVars
<1>1. CASE Lookup(c)
  BY <1>1 DEF Lookup
<1>2. CASE Replay(c)
  BY <1>2 DEF Replay
<1>3. CASE Conflict(c)
  BY <1>3 DEF Conflict
<1>4. CASE Authorize(c)
  BY <1>4 DEF Authorize
<1>5. CASE Settle(c)
  <2>1. /\ pc[c] = "settle" /\ UNCHANGED <<pc, rows_arg, working, committed>>
        /\ CallSettle(c) \/ SettleStep(c)
    BY <1>5 DEF Settle
  <2>2. /\ \A d \in Txs \ {c} : settling'[d] = settling[d]
        /\ balances' = balances \/ settling'[c] \in {"read_receiver", "append"}
        /\ Debited(c) \/ Credited(c) => Debited(c)' \/ Credited(c)'
    BY <2>1 DEF CallSettle, SettleStep, SnapshotBalances, SnapshotPool, ReadSender, Debit,
       ReadReceiver, Credit, AppendTransaction, SumBalances, VerifyZeroSum, SettleAt, SettleTo
  <2> QED BY <2>1, <2>2
<1>6. CASE SettleReturns(c)
  BY <1>6 DEF SettleReturns, SettleDone
<1>7. CASE SumTotal(c)
  BY <1>7 DEF SumTotal
<1>8. CASE VerifyTotal(c)
  BY <1>8 DEF VerifyTotal
<1>9. CASE RecordTask(c)
  BY <1>9 DEF RecordTask
<1>10. CASE Save(c)
  BY <1>10 DEF Save, CommitOf, Statement
<1>11. CASE CommitSave(c)
  BY <1>11 DEF CommitSave, NextSave
<1>12. CASE SaveBalances(c)
  BY <1>12 DEF SaveBalances
<1>13. CASE RememberKey(c)
  BY <1>13 DEF RememberKey
<1>14. CASE SaveKey(c)
  BY <1>14 DEF SaveKey
<1>15. CASE CommitKey(c)
  BY <1>15 DEF CommitKey, Answer
<1> QED BY <1>1, <1>2, <1>3, <1>4, <1>5, <1>6, <1>7, <1>8, <1>9, <1>10, <1>11, <1>12,
         <1>13, <1>14, <1>15 DEF BesideRows

LEMMA BesideRowsKeeps ==
    ASSUME MemoryShape, DiskShape, RowsFollowBalances, NEW c \in Txs, BesideRows(c)
    PROVE  RowsFollowBalances'
<1>1. /\ UNCHANGED rows_arg /\ working'.rows = working.rows
      /\ committed'.rows = committed.rows \/ committed'.rows = working.rows
      /\ pc[c] \notin ReadOrInserted \cup Inserted \cup {"failed", "lost"}
      /\ pc'[c] \notin ReadOrInserted \cup Inserted
      /\ \A d \in Txs \ {c} : pc'[d] = pc[d] /\ settling'[d] = settling[d]
      /\ balances' = balances \/ c \in Owing'
      /\ c \in Owing => c \in Owing' \/ pc'[c] = "failed"
  BY BesideRowsMoves
<1>2. RowsReady'
  BY <1>1 DEF RowsFollowBalances, RowsReady, ReadOrInserted
<1>3. ASSUME AllIsWell', Owing' = {}
      PROVE  RowsAreKept' \/ \E d \in Txs : RowsAreInserted(d)'
  <2>1. AllIsWell /\ Owing = {} /\ balances' = balances
    <3>1. AllIsWell /\ balances' = balances /\ c \notin Owing
      BY <1>1, <1>3 DEF AllIsWell
    <3>2. \A d \in Txs \ {c} : d \in Owing => d \in Owing'
      BY <1>1 DEF Owing, Debited, Credited
    <3> QED BY <1>3, <3>1, <3>2 DEF Owing
  <2>2. /\ Standing(ReadOrInserted)' = Standing(ReadOrInserted)
        /\ Standing(Inserted)' = Standing(Inserted)
    BY <1>1 DEF Standing
  <2>3. CASE RowsAreKept
    BY <1>1, <2>1, <2>2, <2>3 DEF RowsAreKept, AreBalances
  <2>4. ASSUME NEW d \in Txs, RowsAreInserted(d) PROVE RowsAreInserted(d)'
    <3>1. pc'[d] = pc[d]
      BY <1>1, <2>4 DEF RowsAreInserted, Standing
    <3> QED BY <1>1, <2>1, <2>2, <2>4, <3>1 DEF RowsAreInserted, AreBalances, Left
  <2> QED BY <2>1, <2>3, <2>4 DEF RowsFollowBalances
<1> QED BY <1>2, <1>3 DEF RowsFollowBalances

\* A request that deletes the rows takes over from whoever was inserting them.
LEMMA DeleteRowsKeeps ==
    ASSUME MemoryShape, DiskShape, RowsFollowBalances, NEW c \in Txs, DeleteRows(c)
    PROVE  RowsFollowBalances'
<1>1. /\ pc' = [pc EXCEPT ![c] = "read_rows"] /\ pc[c] = "delete_rows"
      /\ rows_arg' = rows_arg /\ working'.rows = NoRows
  BY DEF DeleteRows, At, Goto, Execute, argumentVars, DiskShape, Store
<1>2. DOMAIN working'.rows = {} /\ DOMAIN rows_arg[c] = {}
  BY <1>1, NoRowsType DEF RowsFollowBalances, RowsReady, ReadOrInserted
<1>3. RowsReady'
  BY <1>1 DEF RowsFollowBalances, RowsReady, ReadOrInserted, MemoryShape
<1>4. RowsAreInserted(c)'
  BY <1>1, <1>2 DEF RowsAreInserted, Standing, ReadOrInserted, AreBalances, Left, MemoryShape
<1> QED BY <1>3, <1>4 DEF RowsFollowBalances

\* Among the steps on the rows only that DELETE comes from a request that owes.
LEMMA OwingStays ==
    ASSUME MemoryShape, NEW c \in Txs, UNCHANGED settling,
           \A d \in Txs \ {c} : pc'[d] = pc[d],
           pc[c] \in ReadOrInserted \cup Inserted,
           AllIsWell', Owing' = {}
    PROVE  AllIsWell /\ Owing = {}
<1> USE DEF ReadOrInserted, Inserted
<1>1. AllIsWell
  BY DEF AllIsWell
<1>2. c \notin Owing
  BY DEF Owing, YetToSave
<1>3. \A d \in Txs \ {c} : d \in Owing => d \in Owing'
  BY DEF Owing, Debited, Credited
<1> QED BY <1>1, <1>2, <1>3 DEF Owing

LEMMA ReadRowKeeps ==
    ASSUME MemoryShape, DiskShape, RowsFollowBalances, NEW c \in Txs, NEW a \in Accounts,
           ReadRow(c, a)
    PROVE  RowsFollowBalances'
<1> DEFINE rows == WithRow(rows_arg[c], a, balances[a])
<1>1. /\ pc[c] = "read_rows" /\ rows_arg' = [rows_arg EXCEPT ![c] = rows]
      /\ pc' = [pc EXCEPT ![c] = IF DOMAIN rows_arg[c] \cup {a} = Accounts
                                 THEN "insert_rows" ELSE "read_rows"]
      /\ UNCHANGED <<settling, balances, working, committed>>
  BY DEF ReadRow, At, Goto, plainVars, fileVars
<1>2. /\ DOMAIN rows = DOMAIN rows_arg[c] \cup {a} /\ rows[a] = balances[a]
      /\ \A x \in DOMAIN rows_arg[c] \ {a} : rows[x] = rows_arg[c][x]
  BY DEF WithRow
<1> HIDE DEF rows
<1>3. /\ rows_arg'[c] = rows /\ \A d \in Txs \ {c} : rows_arg'[d] = rows_arg[d]
      /\ pc'[c] \in ReadOrInserted /\ \A d \in Txs \ {c} : pc'[d] = pc[d]
      /\ pc'[c] = "insert_rows" => DOMAIN rows = Accounts
      /\ Left(c) = Accounts /\ Left(c)' = Accounts
  BY <1>1, <1>2 DEF MemoryShape, ReadOrInserted, Left
<1>4. RowsReady'
  BY <1>1, <1>2, <1>3 DEF RowsFollowBalances, RowsReady, ReadOrInserted
<1>5. ASSUME AllIsWell', Owing' = {}
      PROVE  RowsAreKept' \/ \E d \in Txs : RowsAreInserted(d)'
  <2>1. AllIsWell /\ Owing = {}
    BY <1>1, <1>3, <1>5, OwingStays DEF ReadOrInserted
  <2>2. /\ Standing(ReadOrInserted)' = Standing(ReadOrInserted)
        /\ Standing(Inserted)' = Standing(Inserted)
    BY <1>1, <1>3 DEF Standing, ReadOrInserted, Inserted
  <2>3. CASE RowsAreKept
    BY <1>1, <2>2, <2>3 DEF RowsAreKept, AreBalances
  <2>4. ASSUME NEW d \in Txs, d # c, RowsAreInserted(d) PROVE RowsAreInserted(d)'
    BY <1>1, <1>3, <2>2, <2>4 DEF RowsAreInserted, AreBalances, Left
  <2>5. ASSUME RowsAreInserted(c) PROVE RowsAreInserted(c)'
    <3>1. AreBalances(rows_arg[c])'
      BY <1>1, <1>2, <1>3, <2>5 DEF RowsAreInserted, AreBalances
    <3> QED BY <1>1, <1>3, <2>2, <2>5, <3>1 DEF RowsAreInserted, AreBalances
  <2> QED BY <2>1, <2>3, <2>4, <2>5 DEF RowsFollowBalances
<1> QED BY <1>4, <1>5 DEF RowsFollowBalances

\* A row goes in only where there is none: of two that insert, the one that puts
\* its row first is in the other's way.
LEMMA PutRowKeeps ==
    ASSUME MemoryShape, DiskShape, RowsFollowBalances, NEW c \in Txs, NEW a \in Accounts,
           InsertRow(c, a), PutRow(c, a), a \notin DOMAIN working.rows
    PROVE  RowsFollowBalances'
<1> DEFINE more == WithRow(working.rows, a, rows_arg[c][a])
           less == WithoutRow(rows_arg[c], a)
<1>1. /\ pc[c] = "insert_rows" /\ a \in DOMAIN rows_arg[c]
      /\ rows_arg' = [rows_arg EXCEPT ![c] = less]
      /\ pc' = [pc EXCEPT ![c] = IF DOMAIN rows_arg[c] = {a} THEN "save_pool"
                                                            ELSE "insert_rows"]
      /\ UNCHANGED <<settling, balances>>
      /\ working' = [working EXCEPT !.rows = more]
  BY DEF InsertRow, PutRow, At, Goto, plainVars
<1>2. /\ DOMAIN more = DOMAIN working.rows \cup {a} /\ more[a] = rows_arg[c][a]
      /\ \A x \in DOMAIN working.rows \ {a} : more[x] = working.rows[x]
  BY DEF WithRow
<1>3. /\ DOMAIN less = DOMAIN rows_arg[c] \ {a}
      /\ \A x \in DOMAIN rows_arg[c] \ {a} : less[x] = rows_arg[c][x]
  BY DEF WithoutRow, Restrict
<1> HIDE DEF more, less
<1>4. /\ rows_arg'[c] = less /\ \A d \in Txs \ {c} : rows_arg'[d] = rows_arg[d]
      /\ \A d \in Txs \ {c} : pc'[d] = pc[d]
      /\ pc'[c] = (IF DOMAIN rows_arg[c] = {a} THEN "save_pool" ELSE "insert_rows")
      /\ working'.rows = more
      /\ Left(c) = DOMAIN rows_arg[c]
  BY <1>1 DEF MemoryShape, DiskShape, Store, Left
<1>5. RowsReady'
  BY <1>1, <1>3, <1>4 DEF RowsFollowBalances, RowsReady, ReadOrInserted
<1>6. ASSUME AllIsWell', Owing' = {}
      PROVE  RowsAreKept' \/ \E d \in Txs : RowsAreInserted(d)'
  <2>1. AllIsWell /\ Owing = {}
    BY <1>1, <1>4, <1>6, OwingStays DEF ReadOrInserted
  <2>2. ~RowsAreKept
    BY <1>1 DEF RowsAreKept, Standing, ReadOrInserted
  <2>3. DOMAIN rows_arg[c] \subseteq Accounts /\ DOMAIN working.rows \subseteq Accounts
    BY RowsType DEF MemoryShape, DiskShape, Store
  <2>4. ASSUME NEW d \in Txs, d # c, RowsAreInserted(d) PROVE RowsAreInserted(d)'
    <3>1. /\ pc'[d] = pc[d] /\ rows_arg'[d] = rows_arg[d] /\ Left(d)' = Left(d)
          /\ d \in Standing(ReadOrInserted)'
      BY <1>4, <2>4 DEF RowsAreInserted, Standing, Left
    <3>2. DOMAIN working'.rows \cap Left(d) # {}
      BY <1>2, <1>4, <2>3, <2>4 DEF RowsAreInserted
    <3> QED BY <1>1, <2>4, <3>1, <3>2 DEF RowsAreInserted, AreBalances
  <2>5. ASSUME RowsAreInserted(c) PROVE RowsAreInserted(c)' \/ RowsAreKept'
    <3>1. \A x \in DOMAIN less : less[x] = balances'[x]
      BY <1>1, <1>3, <2>5 DEF RowsAreInserted, AreBalances
    <3>2. AreBalances(rows_arg[c])'
      BY <1>4, <3>1 DEF AreBalances
    <3>3. CASE DOMAIN working.rows \cap Left(c) # {}
      <4>1. PICK x \in Accounts : x \in DOMAIN working.rows /\ x \in DOMAIN rows_arg[c]
        BY <1>4, <2>3, <3>3
      <4>2. x # a /\ x \in DOMAIN working'.rows /\ x \in DOMAIN rows_arg'[c]
        BY <1>2, <1>3, <1>4, <4>1
      <4>3. pc'[c] = "insert_rows"
        BY <1>4, <4>1, <4>2
      <4>4. c \in Standing(ReadOrInserted)' /\ x \in Left(c)'
        BY <4>2, <4>3 DEF Standing, ReadOrInserted, Left
      <4> QED BY <3>2, <4>2, <4>4 DEF RowsAreInserted
    <3>4. CASE DOMAIN working.rows = Accounts \ Left(c) /\ AreBalances(working.rows)
      <4>1. \A x \in DOMAIN more : more[x] = balances'[x]
        BY <1>1, <1>2, <2>5, <3>4 DEF RowsAreInserted, AreBalances
      <4>2. AreBalances(working.rows)'
        BY <1>4, <4>1 DEF AreBalances
      <4>3. DOMAIN working'.rows = Accounts \ DOMAIN rows_arg'[c]
        BY <1>1, <1>2, <1>3, <1>4, <2>3, <3>4
      <4>4. CASE DOMAIN rows_arg[c] = {a}
        <5>1. c \in Standing(Inserted)'
          BY <1>4, <4>4 DEF Standing, Inserted
        <5>2. DOMAIN working'.rows = Accounts
          BY <1>3, <1>4, <4>3, <4>4
        <5> QED BY <4>2, <5>1, <5>2 DEF RowsAreKept
      <4>5. CASE DOMAIN rows_arg[c] # {a}
        <5>1. c \in Standing(ReadOrInserted)' /\ Left(c)' = DOMAIN rows_arg'[c]
          BY <1>4, <4>5 DEF Standing, ReadOrInserted, Left
        <5> QED BY <3>2, <4>2, <4>3, <5>1 DEF RowsAreInserted
      <4> QED BY <4>4, <4>5
    <3> QED BY <2>5, <3>3, <3>4 DEF RowsAreInserted
  <2> QED BY <2>1, <2>2, <2>4, <2>5 DEF RowsFollowBalances
<1> QED BY <1>5, <1>6 DEF RowsFollowBalances

LEMMA RefuseRowKeeps ==
    ASSUME MemoryShape, DiskShape, RowsFollowBalances, NEW c \in Txs, RefuseRow(c)
    PROVE  RowsFollowBalances'
<1>1. /\ pc' = [pc EXCEPT ![c] = "failed"] /\ rows_arg' = [rows_arg EXCEPT ![c] = NoRows]
  BY DEF RefuseRow, Goto
<1>2. pc'[c] = "failed" /\ DOMAIN rows_arg'[c] = {}
  BY <1>1, NoRowsType DEF MemoryShape
<1>3. RowsReady'
  BY <1>1, <1>2 DEF RowsFollowBalances, RowsReady, MemoryShape
<1>4. ~AllIsWell'
  BY <1>2 DEF AllIsWell
<1> QED BY <1>3, <1>4 DEF RowsFollowBalances

\* The rest of a save: the fee pool, the supply, the commit.
LEMMA FinishKeeps ==
    ASSUME MemoryShape, DiskShape, RowsFollowBalances, NEW c \in Txs,
           SavePool(c) \/ SaveSupply(c) \/ CommitRows(c)
    PROVE  RowsFollowBalances'
<1>1. /\ UNCHANGED <<settling, balances, rows_arg>> /\ working'.rows = working.rows
      /\ \A d \in Txs \ {c} : pc'[d] = pc[d]
      /\ pc[c] \in Inserted /\ pc'[c] \notin ReadOrInserted
      /\ \/ committed'.rows = committed.rows /\ pc'[c] \in Inserted
         \/ committed'.rows = working.rows
  BY DEF SavePool, SaveSupply, CommitRows, Answer, At, Goto, Execute, Commit, plainVars,
     argumentVars, Inserted, ReadOrInserted, MemoryShape, DiskShape, Store
<1>2. RowsReady'
  BY <1>1 DEF RowsFollowBalances, RowsReady, ReadOrInserted, Inserted
<1>3. ASSUME AllIsWell', Owing' = {}
      PROVE  RowsAreKept' \/ \E d \in Txs : RowsAreInserted(d)'
  <2>1. AllIsWell /\ Owing = {}
    BY <1>1, <1>3, OwingStays
  <2>2. Standing(ReadOrInserted)' = Standing(ReadOrInserted)
    BY <1>1 DEF Standing, ReadOrInserted, Inserted
  <2>3. ASSUME RowsAreKept PROVE RowsAreKept'
    <3>1. committed'.rows = working'.rows \/ Standing(Inserted)' # {}
      <4>1. CASE committed'.rows = working.rows
        BY <1>1, <4>1
      <4>2. CASE pc'[c] \in Inserted
        BY <4>2 DEF Standing
      <4> QED BY <1>1, <4>1, <4>2
    <3> QED BY <1>1, <2>2, <2>3, <3>1 DEF RowsAreKept, AreBalances
  <2>4. ASSUME NEW d \in Txs, RowsAreInserted(d) PROVE RowsAreInserted(d)'
    <3>1. pc'[d] = pc[d]
      BY <1>1, <2>4 DEF RowsAreInserted, Standing, ReadOrInserted, Inserted
    <3> QED BY <1>1, <2>2, <2>4, <3>1 DEF RowsAreInserted, AreBalances, Left
  <2> QED BY <2>1, <2>3, <2>4 DEF RowsFollowBalances
<1> QED BY <1>2, <1>3 DEF RowsFollowBalances

LEMMA SubmitKeepsRows ==
    ASSUME MemoryShape, DiskShape, RowsFollowBalances, NEW c \in Txs, SubmitStep(c)
    PROVE  RowsFollowBalances'
<1>1. CASE BesideRows(c)
  BY <1>1, BesideRowsKeeps
<1>2. CASE DeleteRows(c)
  BY <1>2, DeleteRowsKeeps
<1>3. ASSUME NEW a \in Accounts, ReadRow(c, a) PROVE RowsFollowBalances'
  BY <1>3, ReadRowKeeps
<1>4. ASSUME NEW a \in Accounts, InsertRow(c, a) PROVE RowsFollowBalances'
  BY <1>4, PutRowKeeps, RefuseRowKeeps DEF InsertRow
<1>5. CASE SavePool(c) \/ SaveSupply(c) \/ CommitRows(c)
  BY <1>5, FinishKeeps
<1> QED BY <1>1, <1>2, <1>3, <1>4, <1>5 DEF SubmitStep, BesideRows

\* A step of no submission: it writes other tables, and may commit everything.
LEMMA ElsewhereKeepsRows ==
    ASSUME MemoryShape, RowsFollowBalances,
           UNCHANGED <<pc, settling, balances, rows_arg>>, working'.rows = working.rows,
           committed'.rows = committed.rows \/ committed'.rows = working.rows
    PROVE  RowsFollowBalances'
<1>1. RowsReady'
  BY DEF RowsFollowBalances, RowsReady
<1>2. /\ AllIsWell' = AllIsWell /\ Owing' = Owing
      /\ Standing(ReadOrInserted)' = Standing(ReadOrInserted)
      /\ Standing(Inserted)' = Standing(Inserted)
  BY DEF AllIsWell, Owing, Debited, Credited, Standing
<1>3. RowsAreKept => RowsAreKept'
  BY <1>2 DEF RowsAreKept, AreBalances
<1>4. ASSUME NEW d \in Txs, RowsAreInserted(d) PROVE RowsAreInserted(d)'
  BY <1>2, <1>4 DEF RowsAreInserted, AreBalances, Left
<1> QED BY <1>1, <1>2, <1>3, <1>4 DEF RowsFollowBalances

\* The rows that are kept and no longer being saved are those a restart loads.
LEMMA KeptRowsAreLoaded ==
    ASSUME MemoryShape, DiskShape, RowsAreKept, Standing(Inserted) = {}
    PROVE  /\ committed.rows = working.rows /\ LoadedBalances = balances
           /\ DOMAIN committed.rows = {} => balances = Opening
<1>1. /\ committed.rows = working.rows
      /\ Opening \in [Accounts -> Int] /\ balances \in [Accounts -> Int]
  BY LedgerParameters DEF RowsAreKept, MemoryShape, LedgerTypeOK
<1>2. CASE DOMAIN working.rows = {} /\ balances = Opening
  <2>1. committed.rows = NoRows
    BY <1>1, <1>2 DEF DiskShape, Store, Rows, NoRows
  <2> QED BY <1>1, <1>2, <2>1 DEF LoadedBalances, NothingStored
<1>3. CASE DOMAIN working.rows = Accounts /\ AreBalances(working.rows)
  <2>1. DOMAIN committed.rows = {} => balances = Opening
    BY <1>1, <1>3
  <2>2. NothingStored => balances = Opening
    BY <2>1, NoRowsType DEF NothingStored
  <2>3. ~NothingStored => LoadedBalances = balances
    BY <1>1, <1>3 DEF LoadedBalances, AreBalances
  <2> QED BY <1>1, <2>1, <2>2, <2>3 DEF LoadedBalances
<1> QED BY <1>2, <1>3 DEF RowsAreKept

LEMMA RestartKeepsRows ==
    ASSUME MemoryShape, DiskShape, RowsFollowBalances, Restart
    PROVE  RowsFollowBalances'
<1>1. /\ balances' = LoadedBalances /\ UNCHANGED committed /\ working' = committed
      /\ rows_arg' = [c \in Txs |-> NoRows]
      /\ pc' = [c \in Txs |-> IF c \in Busy THEN "lost" ELSE pc[c]]
  BY DEF Restart, Rollback
<1>2. \A c \in Txs : pc'[c] \notin InProgress
  BY <1>1 DEF Busy, InProgress
<1>3. RowsReady'
  BY <1>1, <1>2, NoRowsType DEF RowsReady, InProgress
<1>4. ASSUME AllIsWell' PROVE RowsAreKept'
  <2>1. Busy = {} /\ AllIsWell
    BY <1>1, <1>4 DEF AllIsWell, Busy
  <2>2. /\ Owing = {} /\ Standing(Inserted) = {} /\ Standing(ReadOrInserted) = {}
        /\ Standing(ReadOrInserted)' = {}
    BY <1>2, <2>1 DEF Owing, YetToSave, Standing, Inserted, ReadOrInserted, Busy, InProgress
  <2>3. RowsAreKept
    BY <2>1, <2>2 DEF RowsFollowBalances, RowsAreInserted
  <2>4. /\ committed.rows = working.rows /\ balances' = balances
        /\ DOMAIN committed.rows = {} => balances = Opening
    BY <1>1, <2>2, <2>3, KeptRowsAreLoaded
  <2>5. working'.rows = working.rows /\ committed'.rows = working.rows
    BY <1>1, <2>4
  <2> QED BY <2>2, <2>3, <2>4, <2>5 DEF RowsAreKept, AreBalances
<1> QED BY <1>3, <1>4 DEF RowsFollowBalances

LEMMA InitRows == Init => RowsFollowBalances
<1> SUFFICES ASSUME Init PROVE RowsFollowBalances
  OBVIOUS
<1>1. RowsReady
  BY NoRowsType DEF Init, RowsReady, ReadOrInserted
<1>2. RowsAreKept
  BY NoRowsType DEF Init, LedgerInit, RowsAreKept, EmptyDatabase, Standing, ReadOrInserted
<1> QED BY <1>1, <1>2 DEF RowsFollowBalances

\* Whatever saves overlap, until a request fails or is lost the rows are the
\* balances as soon as everyone who has moved money has saved them.
LEMMA AlwaysRowsFollow == Spec => []RowsFollowBalances
<1>1. ASSUME MemoryShape, DiskShape, RowsFollowBalances, [Next]_vars
      PROVE  RowsFollowBalances'
  <2>1. ASSUME NEW c \in Txs, SubmitStep(c) PROVE RowsFollowBalances'
    BY <1>1, <2>1, SubmitKeepsRows
  <2>2. CASE QuoteOrDispute
    <3>1. /\ UNCHANGED <<pc, settling, balances, rows_arg>> /\ working'.rows = working.rows
          /\ committed'.rows = committed.rows \/ committed'.rows = working.rows
      BY <1>1, <2>2 DEF QuoteOrDispute, RequestQuote, CommitQuote, OpenDispute,
         CommitDispute, Execute, Commit, plainVars, argumentVars, DiskShape, Store
    <3> QED BY <1>1, <3>1, ElsewhereKeepsRows
  <2>3. CASE Restart
    BY <1>1, <2>3, RestartKeepsRows
  <2>4. CASE UNCHANGED vars
    BY <1>1, <2>4, ElsewhereKeepsRows DEF vars, plainVars, databaseVars, argumentVars,
       fileVars
  <2> QED BY <1>1, <2>1, <2>2, <2>3, <2>4 DEF Next, QuoteOrDispute
<1> QED BY <1>1, InitRows, AlwaysServerShape, ShapeParts, PTL DEF Spec

\* With every submission answered, a restart loads the balances that are in
\* memory, every account's, whatever saves have overlapped.
THEOREM AnsweredBalancesSurvive == Spec => []AnsweredBalancesAreStored
<1>1. ServerShape /\ RowsFollowBalances => AnsweredBalancesAreStored
  <2> SUFFICES ASSUME ServerShape, RowsFollowBalances,
                      \A c \in Txs : pc[c] \in {"new", "answered"}
               PROVE  LoadedBalances = balances
    BY DEF AnsweredBalancesAreStored
  <2>1. /\ AllIsWell /\ Owing = {}
        /\ Standing(Inserted) = {} /\ Standing(ReadOrInserted) = {}
    BY DEF AllIsWell, Owing, YetToSave, Standing, Inserted, ReadOrInserted
  <2>2. RowsAreKept
    BY <2>1 DEF RowsFollowBalances, RowsAreInserted
  <2> QED BY <2>1, <2>2, ShapeParts, KeptRowsAreLoaded
<1> QED BY <1>1, AlwaysServerShape, AlwaysRowsFollow, PTL
=============================================================================
