------------------------- MODULE PlainLedgerProofs -------------------------
(***************************************************************************)
(* One settle() of the plain ledger, for any accounts, prices and fees: as *)
(* long as nobody else moves money meanwhile, what it has read is still    *)
(* true when it is used, no balance goes below zero, and its zero-sum check*)
(* passes. The modules built on the ledger say when nobody else does.      *)
(***************************************************************************)
EXTENDS PlainLedger, SumTheorems

Debited(t) == settling[t] \in {"read_receiver", "credit"}
Credited(t) == settling[t] \in {"append", "sum", "sum_pool", "settled", "broken"}

NoDebt == \A a \in Accounts : balances[a] >= 0

\* What settle() has read and not used yet is what it would read now, and its
\* snapshot is the present total but for what it has taken and not yet given.
SettleSound(t) ==
    /\ settling[t] \in {"snapshot", "snapshot_pool", "read_sender", "debit"}
          => balances[Sender[t]] >= Total(t)
    /\ settling[t] \in {"snapshot_pool", "sum_pool"} => seen[t] = balances_total
    /\ settling[t] = "debit" => seen[t] = balances[Sender[t]]
    /\ settling[t] = "credit" => seen[t] = balances[Receiver[t]]
    /\ settling[t] \in {"read_sender", "debit", "append", "sum", "sum_pool"}
          => before[t] = balances_total + fee_pool
    /\ Debited(t) => before[t] = balances_total + fee_pool + Total(t)
    /\ settling[t] # "broken"

\* transactions holds what settle() has appended.
AppendedWhenPaid(t) ==
    t \in transactions <=> settling[t] \in {"sum", "sum_pool", "settled", "broken"}

LEMMA PlainTotalType ==
    ASSUME NEW t \in Txs
    PROVE  /\ Amount[t] \in Nat /\ Fee[t] \in Nat /\ Total(t) \in Nat
           /\ Total(t) = Amount[t] + Fee[t]
           /\ Sender[t] \in Accounts /\ Receiver[t] \in Accounts
           /\ Sender[t] # Receiver[t]
BY LedgerParameters DEF Total

LEMMA BalancesTotalType ==
    ASSUME LedgerTypeOK PROVE balances_total \in Int
BY LedgerParameters, SumType DEF LedgerTypeOK, balances_total

\* A change of one balance moves the total by that change.
LEMMA BalanceMovesTotal ==
    ASSUME balances \in [Accounts -> Int], balances' \in [Accounts -> Int],
           NEW a \in Accounts, \A b \in Accounts \ {a} : balances'[b] = balances[b]
    PROVE  balances_total' = balances_total - balances[a] + balances'[a]
BY LedgerParameters, SumUpdate DEF balances_total

\* What the steps of settle() do to the money: nothing, or the one debit, or
\* the one credit.
SettleMoves(t) ==
    \/ UNCHANGED <<balances, fee_pool>> /\ (Debited(t)' <=> Debited(t))
                                        /\ (Credited(t)' <=> Credited(t))
    \/ /\ settling[t] = "debit" /\ settling'[t] = "read_receiver"
       /\ balances' = [balances EXCEPT ![Sender[t]] = balances[Sender[t]] - Total(t)]
       /\ UNCHANGED fee_pool
    \/ /\ settling[t] = "credit" /\ settling'[t] = "append"
       /\ balances' = [balances EXCEPT ![Receiver[t]] = balances[Receiver[t]] + Amount[t]]
       /\ fee_pool' = fee_pool + Fee[t]

LEMMA SettleFrame ==
    ASSUME LedgerTypeOK, NEW t \in Txs, CallSettle(t) \/ SettleStep(t)
    PROVE  /\ LedgerTypeOK'
           /\ \A u \in Txs \ {t} : /\ settling'[u] = settling[u] /\ seen'[u] = seen[u]
                                   /\ before'[u] = before[u]
           /\ settling[t] \notin SettleDone
           /\ settling'[t] # "idle"
           /\ transactions' = transactions
                 \cup (IF settling[t] = "append" THEN {t} ELSE {})
<1> USE PlainTotalType DEF SettleAt, SettleTo, See, LedgerTypeOK, SettlePosition, SettleDone
<1>0. balances_total \in Int
  BY BalancesTotalType
<1>1. CASE CallSettle(t) BY <1>1 DEF CallSettle
<1>2. CASE SnapshotBalances(t) BY <1>0, <1>2 DEF SnapshotBalances
<1>3. CASE SnapshotPool(t) BY <1>3 DEF SnapshotPool
<1>4. CASE ReadSender(t) BY <1>4 DEF ReadSender
<1>5. CASE Debit(t) BY <1>5 DEF Debit
<1>6. CASE ReadReceiver(t) BY <1>6 DEF ReadReceiver
<1>7. CASE Credit(t) BY <1>7 DEF Credit
<1>8. CASE AppendTransaction(t) BY <1>8 DEF AppendTransaction
<1>9. CASE SumBalances(t) BY <1>0, <1>9 DEF SumBalances
<1>10. CASE VerifyZeroSum(t) BY <1>10 DEF VerifyZeroSum
<1> QED BY <1>1, <1>2, <1>3, <1>4, <1>5, <1>6, <1>7, <1>8, <1>9, <1>10 DEF SettleStep

LEMMA SettleStepMoves ==
    ASSUME LedgerTypeOK, NEW t \in Txs, SettleSound(t), CallSettle(t) \/ SettleStep(t)
    PROVE  SettleMoves(t)
<1> USE PlainTotalType DEF SettleAt, SettleTo, See, LedgerTypeOK, SettleMoves, Debited, Credited
<1>1. CASE CallSettle(t) BY <1>1 DEF CallSettle
<1>2. CASE SnapshotBalances(t) BY <1>2 DEF SnapshotBalances
<1>3. CASE SnapshotPool(t) BY <1>3 DEF SnapshotPool
<1>4. CASE ReadSender(t) BY <1>4 DEF ReadSender
<1>5. CASE Debit(t) BY <1>5 DEF Debit, SettleSound
<1>6. CASE ReadReceiver(t) BY <1>6 DEF ReadReceiver
<1>7. CASE Credit(t) BY <1>7 DEF Credit, SettleSound
<1>8. CASE AppendTransaction(t) BY <1>8 DEF AppendTransaction
<1>9. CASE SumBalances(t) BY <1>9 DEF SumBalances
<1>10. CASE VerifyZeroSum(t) BY <1>10 DEF VerifyZeroSum
<1> QED BY <1>1, <1>2, <1>3, <1>4, <1>5, <1>6, <1>7, <1>8, <1>9, <1>10 DEF SettleStep

\* Nothing of settle() is lost while it runs alone: the step keeps what it has
\* read true, keeps every balance at zero or above, and cannot fail its check.
LEMMA SettleKeepsSound ==
    ASSUME LedgerTypeOK, NoDebt, NEW t \in Txs, SettleSound(t),
           CallSettle(t) \/ SettleStep(t)
    PROVE  SettleSound(t)' /\ NoDebt'
<1> USE PlainTotalType DEF SettleAt, SettleTo, See, SettleSound, Debited
<1>0. /\ balances_total \in Int /\ fee_pool \in Nat
      /\ balances \in [Accounts -> Int]
      /\ settling \in [Txs -> SettlePosition]
      /\ seen \in [Txs -> Int] /\ before \in [Txs -> Int]
  BY BalancesTotalType DEF LedgerTypeOK
<1>a. ASSUME UNCHANGED balances
      PROVE  NoDebt' /\ balances_total' = balances_total
  BY <1>a DEF NoDebt, balances_total
<1>1. CASE CallSettle(t) BY <1>0, <1>1, <1>a DEF CallSettle, MaySettle
<1>2. CASE SnapshotBalances(t) BY <1>0, <1>2, <1>a DEF SnapshotBalances
<1>3. CASE SnapshotPool(t) BY <1>0, <1>3, <1>a DEF SnapshotPool
<1>4. CASE ReadSender(t) BY <1>0, <1>4, <1>a DEF ReadSender
<1>5. CASE Debit(t)
  <2>1. /\ balances' = [balances EXCEPT ![Sender[t]] = seen[t] - Total(t)]
        /\ seen[t] = balances[Sender[t]] /\ balances[Sender[t]] >= Total(t)
        /\ before[t] = balances_total + fee_pool
        /\ settling'[t] = "read_receiver" /\ UNCHANGED <<before, fee_pool>>
    BY <1>0, <1>5 DEF Debit
  <2>a. /\ balances' \in [Accounts -> Int]
        /\ balances'[Sender[t]] = balances[Sender[t]] - Total(t)
        /\ \A b \in Accounts \ {Sender[t]} : balances'[b] = balances[b]
    BY <1>0, <2>1
  <2>2. balances_total' = balances_total - Total(t)
    <3>1. balances_total' = balances_total - balances[Sender[t]] + balances'[Sender[t]]
      BY ONLY <1>0, <2>a, BalanceMovesTotal, PlainTotalType
    <3> QED BY <1>0, <2>a, <3>1
  <2>3. NoDebt'
    BY <1>0, <2>1 DEF NoDebt
  <2> QED BY <1>0, <2>1, <2>2, <2>3
<1>6. CASE ReadReceiver(t) BY <1>0, <1>6, <1>a DEF ReadReceiver
<1>7. CASE Credit(t)
  <2>1. /\ balances' = [balances EXCEPT ![Receiver[t]] = seen[t] + Amount[t]]
        /\ seen[t] = balances[Receiver[t]]
        /\ before[t] = balances_total + fee_pool + Total(t)
        /\ fee_pool' = fee_pool + Fee[t]
        /\ settling'[t] = "append" /\ UNCHANGED before
    BY <1>0, <1>7 DEF Credit
  <2>a. /\ balances' \in [Accounts -> Int]
        /\ balances'[Receiver[t]] = balances[Receiver[t]] + Amount[t]
        /\ \A b \in Accounts \ {Receiver[t]} : balances'[b] = balances[b]
    BY <1>0, <2>1
  <2>2. balances_total' = balances_total + Amount[t]
    <3>1. balances_total' = balances_total - balances[Receiver[t]] + balances'[Receiver[t]]
      BY ONLY <1>0, <2>a, BalanceMovesTotal, PlainTotalType
    <3> QED BY <1>0, <2>a, <3>1
  <2>3. NoDebt'
    BY <1>0, <2>1 DEF NoDebt
  <2> QED BY <1>0, <2>1, <2>2, <2>3
<1>8. CASE AppendTransaction(t) BY <1>0, <1>8, <1>a DEF AppendTransaction
<1>9. CASE SumBalances(t) BY <1>0, <1>9, <1>a DEF SumBalances
<1>10. CASE VerifyZeroSum(t) BY <1>0, <1>10, <1>a DEF VerifyZeroSum
<1> QED BY <1>1, <1>2, <1>3, <1>4, <1>5, <1>6, <1>7, <1>8, <1>9, <1>10 DEF SettleStep

LEMMA SettleKeepsAppended ==
    ASSUME LedgerTypeOK, NEW t \in Txs, AppendedWhenPaid(t), CallSettle(t) \/ SettleStep(t)
    PROVE  /\ AppendedWhenPaid(t)'
           /\ \A u \in Txs \ {t} : AppendedWhenPaid(u)' <=> AppendedWhenPaid(u)
<1>1. \A u \in Txs \ {t} : AppendedWhenPaid(u)' <=> AppendedWhenPaid(u)
  BY SettleFrame DEF AppendedWhenPaid
<1>2. AppendedWhenPaid(t)'
  <2> USE DEF SettleAt, SettleTo, LedgerTypeOK, AppendedWhenPaid
  <2>1. CASE CallSettle(t) BY <2>1 DEF CallSettle
  <2>2. CASE SnapshotBalances(t) BY <2>2 DEF SnapshotBalances
  <2>3. CASE SnapshotPool(t) BY <2>3 DEF SnapshotPool
  <2>4. CASE ReadSender(t) BY <2>4 DEF ReadSender
  <2>5. CASE Debit(t) BY <2>5 DEF Debit
  <2>6. CASE ReadReceiver(t) BY <2>6 DEF ReadReceiver
  <2>7. CASE Credit(t) BY <2>7 DEF Credit
  <2>8. CASE AppendTransaction(t) BY <2>8 DEF AppendTransaction
  <2>9. CASE SumBalances(t) BY <2>9 DEF SumBalances
  <2>10. CASE VerifyZeroSum(t) BY <2>10 DEF VerifyZeroSum
  <2> QED BY <2>1, <2>2, <2>3, <2>4, <2>5, <2>6, <2>7, <2>8, <2>9, <2>10 DEF SettleStep
<1> QED BY <1>1, <1>2
-----------------------------------------------------------------------------
\* What get_daily_spend() adds up, transaction by transaction.
Spending(mandated) ==
    [t \in Txs |-> IF t \in transactions \cap mandated THEN Total(t) ELSE 0]

LEMMA DailySpendType ==
    ASSUME NEW mandated
    PROVE  /\ Spending(mandated) \in [Txs -> Int]
           /\ get_daily_spend(mandated) = SumFunctionOnSet(Spending(mandated), Txs)
           /\ get_daily_spend(mandated) \in Int
<1>1. Spending(mandated) \in [Txs -> Int]
  BY PlainTotalType DEF Spending
<1>2. get_daily_spend(mandated) = SumFunctionOnSet(Spending(mandated), Txs)
  BY DEF Spending, get_daily_spend
<1> QED BY <1>1, <1>2, SumType, LedgerParameters

\* Appending a transaction adds its price and fee to the spend, if it is under
\* the mandate, and nothing else.
LEMMA AppendRaisesSpend ==
    ASSUME NEW mandated, NEW t \in Txs, t \notin transactions,
           transactions' = transactions \cup {t}
    PROVE  get_daily_spend(mandated)' = get_daily_spend(mandated)
                                          + (IF t \in mandated THEN Total(t) ELSE 0)
<1>1. /\ Spending(mandated)' \in [Txs -> Int]
      /\ get_daily_spend(mandated)' = SumFunctionOnSet(Spending(mandated)', Txs)
  BY PlainTotalType DEF Spending, get_daily_spend, Total
<1>2. /\ Spending(mandated)[t] = 0
      /\ Spending(mandated)'[t] = (IF t \in mandated THEN Total(t) ELSE 0)
      /\ \A u \in Txs \ {t} : Spending(mandated)'[u] = Spending(mandated)[u]
  BY DEF Spending, Total
<1> DEFINE old == Spending(mandated)
           new == Spending(mandated)'
<1>3. /\ old \in [Txs -> Int] /\ new \in [Txs -> Int]
      /\ \A u \in Txs \ {t} : new[u] = old[u]
  BY <1>1, <1>2, DailySpendType
<1> HIDE DEF old, new
<1>4. SumFunctionOnSet(new, Txs) = SumFunctionOnSet(old, Txs) - old[t] + new[t]
  BY <1>3, SumUpdate, LedgerParameters
<1>5. old[t] = 0 /\ new[t] = (IF t \in mandated THEN Total(t) ELSE 0)
  BY <1>2 DEF old, new
<1>6. /\ get_daily_spend(mandated) = SumFunctionOnSet(old, Txs)
      /\ SumFunctionOnSet(old, Txs) \in Int
  BY DailySpendType DEF old
<1>7. get_daily_spend(mandated)' = SumFunctionOnSet(new, Txs)
  BY <1>1 DEF new
<1> QED BY <1>4, <1>5, <1>6, <1>7, PlainTotalType
=============================================================================
