-------------------------- MODULE PurchasingProofs --------------------------
(***************************************************************************)
(* Purchases of any number, prices and providers: one at a time, each is   *)
(* paid for work that was done, never beyond the budget, and a failed one  *)
(* costs nothing; and settle(), although it debits and credits in separate *)
(* steps, is the indivisible payment of AtomicPayments.                    *)
(***************************************************************************)
EXTENDS Purchasing, PlainLedgerProofs

\* The buyer's thread makes one purchase at a time.
OneAtATime == \A t, u \in Txs : pc[t] \in InProgress /\ pc[u] \in InProgress => t = u

\* settle() runs only inside its purchase, and the purchase ends as it did.
SettleFollows ==
    \A t \in Txs :
        /\ pc[t] \in {"new", "await_quote", "authorize", "execute", "await_result"}
              => settling[t] = "idle"
        /\ pc[t] = "bought" => settling[t] = "settled"
        /\ pc[t] = "failed" => settling[t] \in {"idle", "refused"}
        /\ AppendedWhenPaid(t)

\* At most one of a request, a handler at work and a result in hand exists for
\* a purchase, and the handler has run exactly when the last of them does.
WorkFollows ==
    /\ working \subseteq Txs
    /\ \A t \in Txs :
        /\ pc[t] \in {"new", "authorize", "execute", "settle", "bought"} => wire[t] = "none"
        /\ pc[t] \in {"new", "await_quote", "authorize", "execute"} => runs[t] = 0
        /\ pc[t] = "await_quote" => wire[t] \notin {"task_request", "result"}
        /\ pc[t] = "await_result" => KindOf[t] # "sdk"
        /\ wire[t] = "task_request" \/ t \in working => runs[t] = 0
        /\ t \in working => t \in in_time
        /\ wire[t] = "result" => runs[t] = 1 /\ t \in in_time
        /\ pc[t] \in {"settle", "bought"} /\ KindOf[t] # "sdk" => runs[t] = 1 /\ t \in in_time

\* What settle() has moved of each transaction, account by account.
Moving(a) ==
    [t \in Txs |-> IF Receiver[t] = a /\ Credited(t) THEN Amount[t]
                   ELSE IF Sender[t] = a /\ (Debited(t) \/ Credited(t)) THEN -Amount[t]
                   ELSE 0]
MoneyFollows ==
    /\ NoDebt
    /\ \A t \in Txs : SettleSound(t)
    /\ \A a \in Accounts : balances[a] = Opening[a] + SumFunctionOnSet(Moving(a), Txs)

\* What a purchase was allowed is still free in the budget until it is spent.
BudgetReserved ==
    /\ BudgetKept
    /\ \A t \in Mandated :
          pc[t] \in {"execute", "await_result", "settle"} /\ t \notin transactions
              => get_daily_spend(Mandated) + Amount[t] <= MaxDaily

PurchasingInv ==
    /\ PurchasingTypeOK /\ OneAtATime /\ SettleFollows /\ WorkFollows
    /\ MoneyFollows /\ BudgetReserved
-----------------------------------------------------------------------------
\* A step of the buyer, a provider or the network that is not one of settle().
WireStep(t) ==
    \/ RequestQuote(t) \/ Receive(t) \/ Timeout(t) \/ Authorize(t) \/ Execute(t)
    \/ Finish(t) \/ HandleQuote(t) \/ HandleTask(t) \/ FinishTask(t)
    \/ Lose(t) \/ Expire(t)

LEMMA PurchaseStepKinds ==
    ASSUME [Next]_vars
    PROVE  \/ \E t \in Txs : WireStep(t)
           \/ \E t \in Txs : Settle(t)
           \/ UNCHANGED vars
BY DEF Next, BuyerStep, ProviderStep, WireStep

LEMMA WireStepMovesNothing ==
    ASSUME NEW t \in Txs, WireStep(t) PROVE UNCHANGED plainVars
BY DEF WireStep, RequestQuote, Receive, Timeout, Authorize, Execute, Finish, HandleQuote,
       HandleTask, FinishTask, Lose, Expire

LEMMA PurchasingInitInv == Init => PurchasingInv
<1> SUFFICES ASSUME Init PROVE PurchasingInv
  OBVIOUS
<1> USE LedgerParameters, PurchaseParameters DEF Init, LedgerInit
<1>1. PurchasingTypeOK
  BY DEF PurchasingTypeOK, LedgerTypeOK, SettlePosition, Position, Message, InProgress
<1>2. OneAtATime /\ SettleFollows /\ WorkFollows
  BY DEF OneAtATime, SettleFollows, WorkFollows, InProgress, AppendedWhenPaid
<1>3. MoneyFollows
  <2>1. NoDebt /\ \A t \in Txs : SettleSound(t)
    BY DEF NoDebt, SettleSound, Debited
  <2>2. ASSUME NEW a \in Accounts
        PROVE  balances[a] = Opening[a] + SumFunctionOnSet(Moving(a), Txs)
    <3>1. Moving(a) = [t \in Txs |-> 0]
      BY DEF Moving, Debited, Credited
    <3>2. SumFunctionOnSet(Moving(a), Txs) = 0
      BY <3>1, SumZero
    <3> QED BY <3>2
  <2> QED BY <2>1, <2>2 DEF MoneyFollows
<1>4. BudgetReserved
  <2>1. [t \in Txs |-> IF t \in transactions \cap Mandated THEN Total(t) ELSE 0]
          = [t \in Txs |-> 0]
    OBVIOUS
  <2>2. get_daily_spend(Mandated) = 0
    BY <2>1, SumZero DEF get_daily_spend
  <2> QED BY <2>2 DEF BudgetReserved, BudgetKept
<1> QED BY <1>1, <1>2, <1>3, <1>4 DEF PurchasingInv
-----------------------------------------------------------------------------
LEMMA WireStepType ==
    ASSUME PurchasingInv, NEW t \in Txs, WireStep(t)
    PROVE  PurchasingTypeOK' /\ working' \subseteq Txs
<1> USE DEF PurchasingInv, PurchasingTypeOK, WorkFollows, At, Goto, Send, Position,
            InProgress, Message
<1>0. LedgerTypeOK'
  BY WireStepMovesNothing DEF plainVars, LedgerTypeOK
<1>1. CASE RequestQuote(t)
  BY <1>0, <1>1 DEF RequestQuote
<1>2. CASE Receive(t)
  BY <1>0, <1>2 DEF Receive
<1>3. CASE Timeout(t)
  BY <1>0, <1>3 DEF Timeout
<1>4. CASE Authorize(t)
  BY <1>0, <1>4 DEF Authorize
<1>5. CASE Execute(t)
  BY <1>0, <1>5 DEF Execute
<1>6. CASE Finish(t)
  BY <1>0, <1>6 DEF Finish
<1>7. CASE HandleQuote(t)
  BY <1>0, <1>7 DEF HandleQuote
<1>8. CASE HandleTask(t)
  BY <1>0, <1>8 DEF HandleTask
<1>9. CASE FinishTask(t)
  BY <1>0, <1>9 DEF FinishTask
<1>10. CASE Lose(t)
  BY <1>0, <1>10 DEF Lose
<1>11. CASE Expire(t)
  BY <1>0, <1>11 DEF Expire
<1> QED BY <1>0, <1>1, <1>2, <1>3, <1>4, <1>5, <1>6, <1>7, <1>8, <1>9, <1>10, <1>11 DEF WireStep

LEMMA WireStepOneAtATime ==
    ASSUME PurchasingInv, NEW t \in Txs, WireStep(t)
    PROVE  OneAtATime'
<1> USE DEF PurchasingInv, PurchasingTypeOK, OneAtATime, At, Goto, InProgress
<1>1. CASE RequestQuote(t)
  BY <1>1 DEF RequestQuote
<1>2. CASE Receive(t)
  BY <1>2 DEF Receive
<1>3. CASE Timeout(t)
  BY <1>3 DEF Timeout
<1>4. CASE Authorize(t)
  BY <1>4 DEF Authorize
<1>5. CASE Execute(t)
  BY <1>5 DEF Execute
<1>6. CASE Finish(t)
  BY <1>6 DEF Finish
<1>7. CASE HandleQuote(t)
  BY <1>7 DEF HandleQuote
<1>8. CASE HandleTask(t)
  BY <1>8 DEF HandleTask
<1>9. CASE FinishTask(t)
  BY <1>9 DEF FinishTask
<1>10. CASE Lose(t)
  BY <1>10 DEF Lose
<1>11. CASE Expire(t)
  BY <1>11 DEF Expire
<1> QED BY <1>1, <1>2, <1>3, <1>4, <1>5, <1>6, <1>7, <1>8, <1>9, <1>10, <1>11 DEF WireStep

\* No position is left for settling, and none is left after it but by Finish.
LEMMA WireStepSettleFollows ==
    ASSUME PurchasingInv, NEW t \in Txs, WireStep(t)
    PROVE  SettleFollows'
<1> USE DEF PurchasingInv, PurchasingTypeOK, SettleFollows, AppendedWhenPaid, At, Goto,
            plainVars, InProgress
<1>0. settling[t] # "broken"
  BY DEF MoneyFollows, SettleSound
<1>1. CASE RequestQuote(t)
  BY <1>1 DEF RequestQuote
<1>2. CASE Receive(t)
  BY <1>2 DEF Receive
<1>3. CASE Timeout(t)
  BY <1>3 DEF Timeout
<1>4. CASE Authorize(t)
  BY <1>4 DEF Authorize
<1>5. CASE Execute(t)
  BY <1>5 DEF Execute
<1>6. CASE Finish(t)
  BY <1>0, <1>6 DEF Finish, SettleDone
<1>7. CASE HandleQuote(t)
  BY <1>7 DEF HandleQuote
<1>8. CASE HandleTask(t)
  BY <1>8 DEF HandleTask
<1>9. CASE FinishTask(t)
  BY <1>9 DEF FinishTask
<1>10. CASE Lose(t)
  BY <1>10 DEF Lose
<1>11. CASE Expire(t)
  BY <1>11 DEF Expire
<1> QED BY <1>1, <1>2, <1>3, <1>4, <1>5, <1>6, <1>7, <1>8, <1>9, <1>10, <1>11 DEF WireStep

LEMMA WireStepWorkFollows ==
    ASSUME PurchasingInv, NEW t \in Txs, WireStep(t)
    PROVE  WorkFollows'
<1> USE DEF PurchasingInv, PurchasingTypeOK, WorkFollows, At, Goto, Send, Remote, InProgress
<1>1. CASE RequestQuote(t)
  BY <1>1 DEF RequestQuote
<1>2. CASE Receive(t)
  BY <1>2 DEF Receive
<1>3. CASE Timeout(t)
  BY <1>3 DEF Timeout
<1>4. CASE Authorize(t)
  BY <1>4 DEF Authorize
<1>5. CASE Execute(t)
  BY <1>5 DEF Execute
<1>6. CASE Finish(t)
  BY <1>6 DEF Finish
<1>7. CASE HandleQuote(t)
  BY <1>7 DEF HandleQuote
<1>8. CASE HandleTask(t)
  BY <1>8 DEF HandleTask
<1>9. CASE FinishTask(t)
  BY <1>9 DEF FinishTask
<1>10. CASE Lose(t)
  BY <1>10 DEF Lose
<1>11. CASE Expire(t)
  BY <1>11 DEF Expire
<1> QED BY <1>1, <1>2, <1>3, <1>4, <1>5, <1>6, <1>7, <1>8, <1>9, <1>10, <1>11 DEF WireStep
LEMMA WireStepMoney ==
    ASSUME PurchasingInv, NEW t \in Txs, WireStep(t)
    PROVE  MoneyFollows'
<1>1. UNCHANGED plainVars /\ MoneyFollows
  BY WireStepMovesNothing DEF PurchasingInv
<1>2. (NoDebt /\ \A u \in Txs : SettleSound(u))'
  BY <1>1 DEF plainVars, MoneyFollows, NoDebt, SettleSound, Debited, balances_total
<1>3. ASSUME NEW a \in Accounts
      PROVE  Moving(a)' = Moving(a) /\ balances'[a] = balances[a]
  BY <1>1 DEF plainVars, Moving, Debited, Credited
<1> QED BY <1>1, <1>2, <1>3 DEF MoneyFollows

LEMMA WireStepBudget ==
    ASSUME PurchasingInv, NEW t \in Txs, WireStep(t)
    PROVE  BudgetReserved'
<1>1. get_daily_spend(Mandated)' = get_daily_spend(Mandated) /\ transactions' = transactions
  BY WireStepMovesNothing DEF plainVars, get_daily_spend
<1>2. BudgetKept'
  BY <1>1 DEF PurchasingInv, BudgetReserved, BudgetKept
<1>3. ASSUME NEW u \in Mandated,
             pc'[u] \in {"execute", "await_result", "settle"},
             pc[u] \notin {"execute", "await_result", "settle"}
      PROVE  get_daily_spend(Mandated) + Amount[u] <= MaxDaily
  <2>1. u \in Txs /\ pc \in [Txs -> Position]
    BY PurchaseParameters DEF PurchasingInv, PurchasingTypeOK
  <2>2. u = t /\ Authorize(t) /\ Allowed(t)
    BY <1>3, <2>1 DEF WireStep, RequestQuote, Receive, Timeout, Authorize, Execute,
        Finish, HandleQuote, HandleTask, FinishTask, Lose, Expire, At, Goto
  <2> QED BY <2>2 DEF Allowed, MandateAllows
<1> QED BY <1>1, <1>2, <1>3 DEF PurchasingInv, BudgetReserved
-----------------------------------------------------------------------------
\* While one purchase settles, the others are not at settle() at all.
LEMMA OthersAreQuiet ==
    ASSUME PurchasingInv, NEW t \in Txs, At(t, "settle"), NEW u \in Txs \ {t}
    PROVE  settling[u] \in {"idle", "settled", "refused"}
<1>1. pc[u] \notin InProgress /\ pc[u] \in Position
  BY DEF PurchasingInv, OneAtATime, At, InProgress, PurchasingTypeOK
<1> QED BY <1>1 DEF PurchasingInv, SettleFollows, Position

LEMMA MovingType ==
    ASSUME NEW a PROVE Moving(a) \in [Txs -> Int] /\ Moving(a)' \in [Txs -> Int]
BY PlainTotalType DEF Moving, Debited, Credited

\* Each account's balance is its opening one moved by what settle() has moved.
LEMMA SettleMovesBalances ==
    ASSUME PurchasingInv, NEW t \in Txs, Settle(t), NEW a \in Accounts
    PROVE  balances'[a] = Opening[a] + SumFunctionOnSet(Moving(a)', Txs)
<1> DEFINE old == Moving(a)
           new == Moving(a)'
<1>1. /\ LedgerTypeOK /\ SettleSound(t) /\ (CallSettle(t) \/ SettleStep(t))
      /\ balances[a] = Opening[a] + SumFunctionOnSet(old, Txs)
      /\ balances \in [Accounts -> Int] /\ Opening[a] \in Int
  BY LedgerParameters DEF PurchasingInv, PurchasingTypeOK, MoneyFollows, Settle, LedgerTypeOK
<1>2. \A u \in Txs \ {t} : new[u] = old[u]
  BY <1>1, SettleFrame DEF Moving, Debited, Credited
<1>3. old \in [Txs -> Int] /\ new \in [Txs -> Int]
  BY MovingType
<1>4. balances'[a] = balances[a] - old[t] + new[t]
  <2>1. SettleMoves(t)
    BY <1>1, SettleStepMoves
  <2>2. /\ old[t] = (IF Receiver[t] = a /\ Credited(t) THEN Amount[t]
                    ELSE IF Sender[t] = a /\ (Debited(t) \/ Credited(t)) THEN -Amount[t]
                    ELSE 0)
        /\ new[t] = (IF Receiver[t] = a /\ Credited(t)' THEN Amount[t]
                    ELSE IF Sender[t] = a /\ (Debited(t)' \/ Credited(t)') THEN -Amount[t]
                    ELSE 0)
    BY DEF Moving
  <2>3. Total(t) = Amount[t] /\ Fee[t] = 0
    BY NoFee, PlainTotalType
  <2>4. CASE /\ UNCHANGED balances
             /\ (Debited(t)' <=> Debited(t)) /\ (Credited(t)' <=> Credited(t))
    BY <1>1, <1>3, <2>2, <2>4
  <2>5. CASE /\ settling[t] = "debit" /\ settling'[t] = "read_receiver"
             /\ balances' = [balances EXCEPT ![Sender[t]] = balances[Sender[t]] - Total(t)]
    <3>1. ~Debited(t) /\ ~Credited(t) /\ Debited(t)' /\ ~Credited(t)'
      BY <2>5 DEF Debited, Credited
    <3> QED BY <1>1, <2>2, <2>3, <2>5, <3>1, PlainTotalType
  <2>6. CASE /\ settling[t] = "credit" /\ settling'[t] = "append"
             /\ balances' = [balances EXCEPT ![Receiver[t]] = balances[Receiver[t]] + Amount[t]]
    <3>1. Debited(t) /\ ~Credited(t) /\ ~Debited(t)' /\ Credited(t)'
      BY <2>6 DEF Debited, Credited
    <3> QED BY <1>1, <2>2, <2>3, <2>6, <3>1, PlainTotalType
  <2> QED BY <2>1, <2>4, <2>5, <2>6 DEF SettleMoves
<1> HIDE DEF old, new
<1>5. SumFunctionOnSet(new, Txs) = SumFunctionOnSet(old, Txs) - old[t] + new[t]
  BY <1>2, <1>3, SumUpdate, LedgerParameters
<1>6. SumFunctionOnSet(old, Txs) \in Int /\ old[t] \in Int /\ new[t] \in Int
  BY <1>3, SumType, LedgerParameters
<1>7. balances'[a] = Opening[a] + SumFunctionOnSet(new, Txs)
  BY <1>1, <1>4, <1>5, <1>6
<1> QED BY <1>7 DEF new

LEMMA SettleMoney ==
    ASSUME PurchasingInv, NEW t \in Txs, Settle(t)
    PROVE  MoneyFollows'
<1>1. /\ LedgerTypeOK /\ NoDebt /\ SettleSound(t) /\ At(t, "settle")
      /\ (CallSettle(t) \/ SettleStep(t))
  BY DEF PurchasingInv, PurchasingTypeOK, MoneyFollows, Settle
<1>2. NoDebt' /\ SettleSound(t)'
  BY <1>1, SettleKeepsSound
<1>3. ASSUME NEW u \in Txs \ {t} PROVE SettleSound(u)'
  <2>1. settling'[u] \in {"idle", "settled", "refused"}
    BY <1>1, OthersAreQuiet, SettleFrame
  <2> QED BY <2>1 DEF SettleSound, Debited
<1> QED BY <1>2, <1>3, SettleMovesBalances DEF MoneyFollows

LEMMA SettleBudget ==
    ASSUME PurchasingInv, NEW t \in Txs, Settle(t)
    PROVE  BudgetReserved'
<1>1. /\ LedgerTypeOK /\ At(t, "settle") /\ (CallSettle(t) \/ SettleStep(t))
      /\ pc' = pc /\ pc[t] = "settle" /\ AppendedWhenPaid(t)
      /\ BudgetReserved /\ OneAtATime
  BY DEF PurchasingInv, PurchasingTypeOK, SettleFollows, Settle, purchaseVars, At
<1>2. CASE settling[t] # "append"
  <2>1. transactions' = transactions
    BY <1>1, <1>2, SettleFrame
  <2>2. get_daily_spend(Mandated)' = get_daily_spend(Mandated)
    BY <2>1 DEF get_daily_spend
  <2> QED BY <1>1, <2>1, <2>2 DEF BudgetReserved, BudgetKept
<1>3. CASE settling[t] = "append"
  <2>1. t \notin transactions /\ transactions' = transactions \cup {t}
    BY <1>1, <1>3, SettleFrame DEF AppendedWhenPaid
  <2>2. Total(t) = Amount[t]
    BY NoFee, PlainTotalType
  <2>3. get_daily_spend(Mandated)' <= MaxDaily
    BY <1>1, <2>1, <2>2, AppendRaisesSpend, DailySpendType, PlainTotalType, PurchaseParameters
       DEF BudgetReserved, BudgetKept
  <2>4. ASSUME NEW u \in Mandated, pc[u] \in {"execute", "await_result", "settle"},
               u \notin transactions'
        PROVE  FALSE
    <3>1. u \in Txs /\ u = t
      BY <1>1, <2>4, PurchaseParameters DEF OneAtATime, InProgress
    <3> QED BY <2>1, <2>4, <3>1
  <2> QED BY <1>1, <2>3, <2>4 DEF BudgetReserved, BudgetKept
<1> QED BY <1>2, <1>3

LEMMA SettleInv ==
    ASSUME PurchasingInv, NEW t \in Txs, Settle(t)
    PROVE  PurchasingInv'
<1>1. /\ LedgerTypeOK /\ (CallSettle(t) \/ SettleStep(t)) /\ At(t, "settle")
      /\ UNCHANGED purchaseVars
      /\ PurchasingTypeOK /\ OneAtATime /\ SettleFollows /\ WorkFollows
  BY DEF PurchasingInv, PurchasingTypeOK, Settle
<1>2. PurchasingTypeOK'
  BY <1>1, SettleFrame DEF PurchasingTypeOK, purchaseVars
<1>3. OneAtATime' /\ WorkFollows'
  BY <1>1 DEF OneAtATime, WorkFollows, purchaseVars
<1>4. SettleFollows'
  <2>1. \A u \in Txs : AppendedWhenPaid(u)'
    BY <1>1, SettleKeepsAppended DEF SettleFollows
  <2>2. pc' = pc /\ pc[t] = "settle"
    BY <1>1 DEF purchaseVars, At
  <2>3. \A u \in Txs \ {t} : settling'[u] = settling[u]
    BY <1>1, SettleFrame
  <2> QED BY <1>1, <2>1, <2>2, <2>3 DEF SettleFollows
<1> QED BY <1>2, <1>3, <1>4, SettleMoney, SettleBudget DEF PurchasingInv

LEMMA PurchasingStepInv == PurchasingInv /\ [Next]_vars => PurchasingInv'
<1> SUFFICES ASSUME PurchasingInv, [Next]_vars PROVE PurchasingInv'
  OBVIOUS
<1>1. ASSUME NEW t \in Txs, WireStep(t) PROVE PurchasingInv'
  BY <1>1, WireStepType, WireStepOneAtATime, WireStepSettleFollows, WireStepWorkFollows,
     WireStepMoney, WireStepBudget DEF PurchasingInv
<1>2. CASE UNCHANGED vars
  <2> USE <1>2 DEF PurchasingInv, vars, plainVars, purchaseVars
  <2>1. PurchasingTypeOK' /\ OneAtATime' /\ SettleFollows' /\ WorkFollows'
    BY DEF PurchasingTypeOK, LedgerTypeOK, OneAtATime, SettleFollows, AppendedWhenPaid,
           WorkFollows
  <2>2. BudgetReserved'
    BY DEF BudgetReserved, BudgetKept, get_daily_spend
  <2>3. (NoDebt /\ \A u \in Txs : SettleSound(u))'
    BY DEF MoneyFollows, NoDebt, SettleSound, Debited, balances_total
  <2>4. \A a \in Accounts : Moving(a)' = Moving(a)
    BY DEF Moving, Debited, Credited
  <2> QED BY <2>1, <2>2, <2>3, <2>4 DEF MoneyFollows
<1> QED BY <1>1, <1>2, SettleInv, PurchaseStepKinds

(* The inductive invariant of purchase(): whatever the wire does, at most   *)
(* one purchase settles at a time, a result in hand was run for, the budget *)
(* covers what is under way, and every credit is where settle() left it.    *)
THEOREM AlwaysPurchasingInv == Spec => []PurchasingInv
BY PurchasingInitInv, PurchasingStepInv, PTL DEF Spec
-----------------------------------------------------------------------------
\* The state keeps its shape, and a request is answered at most once.
THEOREM PurchasingTypeCorrect == Spec => []PurchasingTypeOK
BY AlwaysPurchasingInv, PTL DEF PurchasingInv

\* Nothing is paid that was not done: a settled purchase from a provider was
\* executed exactly once and begun before its quote expired.
THEOREM PaidOnlyForWork == Spec => []PaidForWork
<1>1. PurchasingInv => PaidForWork
  <2> SUFFICES ASSUME PurchasingInv, NEW t \in transactions, KindOf[t] # "sdk"
               PROVE  runs[t] = 1 /\ t \in in_time
    BY DEF PaidForWork
  <2>1. t \in Txs /\ pc[t] \in Position
    BY DEF PurchasingInv, PurchasingTypeOK, LedgerTypeOK
  <2>2. pc[t] \in {"settle", "bought"}
    BY <2>1 DEF PurchasingInv, SettleFollows, AppendedWhenPaid, Position, InProgress
  <2> QED BY <2>1, <2>2 DEF PurchasingInv, WorkFollows
<1> QED BY <1>1, AlwaysPurchasingInv, PTL

\* The mandate's daily budget holds, however purchases end.
THEOREM BudgetIsKept == Spec => []BudgetKept
BY AlwaysPurchasingInv, PTL DEF PurchasingInv, BudgetReserved

\* Between purchases the balances are the opening ones moved by the purchases
\* that the buyer knows to be bought, and none is below zero.
THEOREM FailuresAreFree == Spec => []FailureIsFree
<1>1. PurchasingInv => FailureIsFree
  <2> SUFFICES ASSUME PurchasingInv, \A t \in Txs : pc[t] \notin InProgress
               PROVE  /\ transactions = {t \in Txs : pc[t] = "bought"}
                      /\ \A a \in Accounts : /\ balances[a] = Opening[a] + Moved(a)
                                             /\ balances[a] >= 0
    BY DEF FailureIsFree
  <2>1. /\ transactions \subseteq Txs
        /\ \A t \in Txs : pc[t] \in {"new", "bought", "failed"}
    BY DEF PurchasingInv, PurchasingTypeOK, LedgerTypeOK, Position
  <2>2. \A t \in Txs :
           /\ settling[t] \in {"idle", "refused", "settled"}
           /\ t \in transactions <=> pc[t] = "bought"
           /\ t \in transactions <=> settling[t] = "settled"
    BY <2>1 DEF PurchasingInv, SettleFollows, AppendedWhenPaid
  <2>3. ASSUME NEW a \in Accounts PROVE SumFunctionOnSet(Moving(a), Txs) = Moved(a)
    <3>1. Moving(a) = [t \in Txs |-> IF t \notin transactions THEN 0
                                     ELSE IF Receiver[t] = a THEN Amount[t]
                                     ELSE IF Sender[t] = a THEN -Amount[t] ELSE 0]
      BY <2>2 DEF Moving, Debited, Credited
    <3> QED BY <3>1 DEF Moved
  <2>4. \A a \in Accounts : /\ balances[a] = Opening[a] + Moved(a)
                            /\ balances[a] >= 0
    BY <2>3 DEF PurchasingInv, MoneyFollows, NoDebt
  <2> QED BY <2>1, <2>2, <2>4
<1> QED BY <1>1, AlwaysPurchasingInv, PTL

\* settle() never finds the supply changed by itself: a purchase that has paid
\* is never reported as a broken ledger.
THEOREM ZeroSumCheckPasses == Spec => [](\A t \in Txs : settling[t] # "broken")
<1>1. PurchasingInv => \A t \in Txs : settling[t] # "broken"
  BY DEF PurchasingInv, MoneyFollows, SettleSound
<1> QED BY <1>1, AlwaysPurchasingInv, PTL
-----------------------------------------------------------------------------
(* The refinement: the purchases make the payments of AtomicPayments. *)

\* What a settle() has taken from account a and not yet given to anybody.
InTransit(a) ==
    [t \in Txs |-> IF Sender[t] = a /\ settling[t] \in {"read_receiver", "credit"}
                   THEN Total(t) ELSE 0]

LEMMA WealthParts ==
    /\ wealth = [a \in Accounts |-> balances[a] + SumFunctionOnSet(InTransit(a), Txs)]
    /\ wealth' = [a \in Accounts |-> balances'[a] + SumFunctionOnSet(InTransit(a)', Txs)]
BY DEF wealth, InTransit

LEMMA InTransitType ==
    ASSUME NEW a
    PROVE  /\ InTransit(a) \in [Txs -> Int] /\ InTransit(a)' \in [Txs -> Int]
           /\ SumFunctionOnSet(InTransit(a), Txs) \in Int
<1>1. InTransit(a) \in [Txs -> Int] /\ InTransit(a)' \in [Txs -> Int]
  BY PlainTotalType DEF InTransit
<1> QED BY <1>1, SumType, LedgerParameters

\* Between a debit and its credit the amount in transit is that of the purchase.
LEMMA InTransitIsTotal ==
    ASSUME PurchasingInv, NEW t \in Txs, At(t, "settle"), settling[t] = "credit"
    PROVE  SumFunctionOnSet(InTransit(Sender[t]), Txs) = Total(t)
<1> DEFINE f == InTransit(Sender[t])
<1>1. f \in [Txs -> Int] /\ f[t] = Total(t)
  BY InTransitType DEF InTransit
<1>2. \A u \in Txs \ {t} : f[u] = 0
  BY OthersAreQuiet DEF InTransit
<1> HIDE DEF f
<1>3. SumFunctionOnSet(f, Txs) = f[t]
  BY <1>1, <1>2, SumSingle, LedgerParameters
<1> QED BY <1>1, <1>3 DEF f

\* How one step of settle() moves an account's wealth.
LEMMA SettleMovesWealth ==
    ASSUME PurchasingInv, NEW t \in Txs, Settle(t), NEW a \in Accounts
    PROVE  /\ wealth[a] \in Int
           /\ wealth'[a] = wealth[a] + (balances'[a] - balances[a])
                                     + (InTransit(a)'[t] - InTransit(a)[t])
<1> DEFINE old == InTransit(a)
           new == InTransit(a)'
<1>1. /\ LedgerTypeOK /\ (CallSettle(t) \/ SettleStep(t))
      /\ balances[a] \in Int /\ balances'[a] \in Int
  BY SettleFrame DEF PurchasingInv, PurchasingTypeOK, Settle, LedgerTypeOK
<1>2. \A u \in Txs \ {t} : new[u] = old[u]
  BY <1>1, SettleFrame DEF InTransit
<1>3. /\ old \in [Txs -> Int] /\ new \in [Txs -> Int]
      /\ SumFunctionOnSet(old, Txs) \in Int
  BY InTransitType
<1>4. /\ wealth[a] = balances[a] + SumFunctionOnSet(old, Txs)
      /\ wealth'[a] = balances'[a] + SumFunctionOnSet(new, Txs)
  BY WealthParts
<1>5. old[t] \in Int /\ new[t] \in Int
  BY <1>3
<1> HIDE DEF old, new
<1>6. SumFunctionOnSet(new, Txs) = SumFunctionOnSet(old, Txs) - old[t] + new[t]
  BY <1>2, <1>3, SumUpdate, LedgerParameters
<1>7. /\ wealth[a] \in Int
      /\ wealth'[a] = wealth[a] + (balances'[a] - balances[a]) + (new[t] - old[t])
  BY <1>1, <1>3, <1>4, <1>5, <1>6
<1> QED BY <1>7 DEF old, new

\* Only the credit decides a transaction, and it pays it.
LEMMA SettleOutcome ==
    ASSUME PurchasingInv, NEW t \in Txs, Settle(t)
    PROVE  outcome' = IF settling[t] = "credit" THEN [outcome EXCEPT ![t] = "paid"] ELSE outcome
<1>1. /\ LedgerTypeOK /\ SettleSound(t) /\ (CallSettle(t) \/ SettleStep(t))
  BY DEF PurchasingInv, PurchasingTypeOK, MoneyFollows, Settle
<1>2. \A u \in Txs \ {t} : outcome'[u] = outcome[u]
  BY <1>1, SettleFrame DEF outcome
<1>3. outcome'[t] = IF settling[t] = "credit" THEN "paid" ELSE outcome[t]
  <2>1. SettleMoves(t)
    BY <1>1, SettleStepMoves
  <2>2. /\ Credited(t) <=> outcome[t] = "paid" 
        /\ ~Credited(t) <=> outcome[t] = "none"
        /\ Credited(t)' <=> outcome'[t] = "paid"
        /\ ~Credited(t)' <=> outcome'[t] = "none"
    BY DEF Credited, outcome
  <2>3. settling[t] = "credit" => settling'[t] = "append"
    BY <1>1 DEF SettleStep, CallSettle, SnapshotBalances, SnapshotPool, ReadSender, Debit,
        ReadReceiver, Credit, AppendTransaction, SumBalances, VerifyZeroSum, SettleAt,
        SettleTo, LedgerTypeOK
  <2> QED BY <2>1, <2>2, <2>3 DEF SettleMoves, Credited
<1>4. outcome = [u \in Txs |-> outcome[u]] /\ outcome' = [u \in Txs |-> outcome'[u]]
  BY DEF outcome
<1> QED BY <1>2, <1>3, <1>4

LEMMA SettleRefines ==
    ASSUME PurchasingInv, NEW t \in Txs, Settle(t)
    PROVE  Payments!Pay(t) \/ UNCHANGED <<wealth, fee_pool, outcome>>
<1>1. /\ LedgerTypeOK /\ SettleSound(t) /\ NoDebt /\ At(t, "settle")
      /\ SettleMoves(t) /\ (CallSettle(t) \/ SettleStep(t))
  BY SettleStepMoves DEF PurchasingInv, PurchasingTypeOK, MoneyFollows, Settle
<1>2. /\ wealth = [a \in Accounts |-> wealth[a]]
      /\ wealth' = [a \in Accounts |-> wealth'[a]]
  BY DEF wealth
<1>3. \A a \in Accounts :
         /\ wealth[a] \in Int /\ balances[a] \in Int
         /\ wealth'[a] = wealth[a] + (balances'[a] - balances[a])
                                   + (InTransit(a)'[t] - InTransit(a)[t])
  BY <1>1, SettleMovesWealth DEF LedgerTypeOK
<1>4. \A a \in Accounts :
         /\ InTransit(a)[t] = IF Sender[t] = a /\ Debited(t) THEN Total(t) ELSE 0
         /\ InTransit(a)'[t] = IF Sender[t] = a /\ Debited(t)' THEN Total(t) ELSE 0
  BY DEF InTransit, Debited
<1>5. CASE UNCHANGED <<balances, fee_pool>> /\ (Debited(t)' <=> Debited(t))
                                            /\ (Credited(t)' <=> Credited(t))
  <2>1. \A a \in Accounts : wealth'[a] = wealth[a]
    BY <1>3, <1>4, <1>5, PlainTotalType
  <2>2. settling[t] # "credit"
    <3>1. ASSUME settling[t] = "credit" PROVE settling'[t] = "append"
      BY <1>1, <3>1 DEF SettleStep, CallSettle, SnapshotBalances, SnapshotPool, ReadSender,
          Debit, ReadReceiver, Credit, AppendTransaction, SumBalances, VerifyZeroSum,
          SettleAt, SettleTo, LedgerTypeOK
    <3> QED BY <1>5, <3>1 DEF Credited
  <2>3. outcome' = outcome
    BY <2>2, SettleOutcome
  <2> QED BY <1>2, <1>5, <2>1, <2>3
<1>6. CASE /\ settling[t] = "debit" /\ settling'[t] = "read_receiver"
           /\ balances' = [balances EXCEPT ![Sender[t]] = balances[Sender[t]] - Total(t)]
           /\ UNCHANGED fee_pool
  <2>1. ~Debited(t) /\ Debited(t)'
    BY <1>6 DEF Debited
  <2>2. \A a \in Accounts :
           balances'[a] = balances[a] - (IF Sender[t] = a THEN Total(t) ELSE 0)
    BY <1>1, <1>6, PlainTotalType DEF LedgerTypeOK
  <2>3. \A a \in Accounts : wealth'[a] = wealth[a]
    BY <1>3, <1>4, <2>1, <2>2, PlainTotalType
  <2>4. outcome' = outcome
    BY <1>6, SettleOutcome
  <2> QED BY <1>2, <1>6, <2>3, <2>4
<1>7. CASE /\ settling[t] = "credit" /\ settling'[t] = "append"
           /\ balances' = [balances EXCEPT ![Receiver[t]] = balances[Receiver[t]] + Amount[t]]
           /\ fee_pool' = fee_pool + Fee[t]
  <2>1. Debited(t) /\ ~Debited(t)'
    BY <1>7 DEF Debited
  <2>2. \A a \in Accounts :
           balances'[a] = balances[a] + (IF Receiver[t] = a THEN Amount[t] ELSE 0)
    BY <1>1, <1>7, PlainTotalType DEF LedgerTypeOK
  <2>3. \A a \in Accounts :
           wealth'[a] = wealth[a] + (IF Receiver[t] = a THEN Amount[t] ELSE 0)
                                  - (IF Sender[t] = a THEN Total(t) ELSE 0)
    BY <1>3, <1>4, <2>1, <2>2, PlainTotalType
  <2>4. wealth' = [wealth EXCEPT ![Sender[t]] = @ - (Amount[t] + Fee[t]),
                                 ![Receiver[t]] = @ + Amount[t]]
    BY <1>2, <1>3, <2>3, PlainTotalType
  <2>5. wealth[Sender[t]] >= Amount[t] + Fee[t]
    <3>1. wealth[Sender[t]] = balances[Sender[t]] + Total(t)
      BY <1>1, <1>7, InTransitIsTotal, WealthParts, PlainTotalType
    <3> QED BY <1>1, <1>3, <3>1, PlainTotalType DEF NoDebt
  <2>6. outcome[t] = "none" /\ outcome' = [outcome EXCEPT ![t] = "paid"]
    BY <1>7, SettleOutcome DEF outcome
  <2> QED BY <1>7, <2>4, <2>5, <2>6
          DEF Payments!Pay, Payments!Decide, Payments!Undecided, Payments!Transfer
<1> QED BY <1>1, <1>5, <1>6, <1>7 DEF SettleMoves

LEMMA PurchasesStartPaid == Init => Payments!Init
<1> SUFFICES ASSUME Init PROVE Payments!Init
  OBVIOUS
<1>1. ASSUME NEW a \in Accounts PROVE wealth[a] = Opening[a]
  <2>1. InTransit(a) = [t \in Txs |-> 0]
    BY DEF Init, LedgerInit, InTransit
  <2>2. SumFunctionOnSet(InTransit(a), Txs) = 0
    BY <2>1, SumZero, LedgerParameters
  <2>3. balances[a] = Opening[a] /\ Opening[a] \in Int
    BY LedgerParameters DEF Init, LedgerInit
  <2> QED BY <2>2, <2>3, WealthParts
<1>2. wealth = Opening
  BY <1>1, LedgerParameters DEF wealth
<1>3. outcome = [t \in Txs |-> "none"] /\ fee_pool = 0
  BY DEF Init, LedgerInit, outcome
<1> QED BY <1>2, <1>3 DEF Payments!Init, Payments!Undecided

LEMMA QuietStepRefines ==
    ASSUME UNCHANGED plainVars PROVE UNCHANGED <<wealth, fee_pool, outcome>>
BY DEF plainVars, wealth, outcome, Total

LEMMA PurchaseStepRefines ==
    PurchasingInv /\ [Next]_vars => [Payments!Next]_(Payments!paymentVars)
<1> SUFFICES ASSUME PurchasingInv, [Next]_vars
             PROVE  Payments!Next \/ UNCHANGED <<wealth, fee_pool, outcome>>
  BY DEF Payments!paymentVars
<1>1. ASSUME NEW t \in Txs, WireStep(t) PROVE UNCHANGED plainVars
  BY <1>1, WireStepMovesNothing
<1>2. UNCHANGED vars => UNCHANGED plainVars
  BY DEF vars
<1>3. ASSUME NEW t \in Txs, Settle(t)
      PROVE  Payments!Next \/ UNCHANGED <<wealth, fee_pool, outcome>>
  BY <1>3, SettleRefines DEF Payments!Next
<1> QED BY <1>1, <1>2, <1>3, QuietStepRefines, PurchaseStepKinds

\* Every purchase is one indivisible payment, or none: settle()'s separate
\* debit and credit implement AtomicPayments, for every account and price.
THEOREM PurchasesAreAtomic == Spec => ImplementsAtomicPayments
BY PurchasesStartPaid, PurchaseStepRefines, AlwaysPurchasingInv, PTL
   DEF Spec, ImplementsAtomicPayments, Payments!Spec
=============================================================================
