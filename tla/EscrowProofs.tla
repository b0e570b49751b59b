---------------------------- MODULE EscrowProofs ----------------------------
(***************************************************************************)
(* The escrow ledger under arbitrary callers: its types, the amounts held, *)
(* and the conservation of credits, for any accounts, transactions, prices *)
(* and fees. Then one step of open_dispute() or resolve_dispute(), for the *)
(* services whose transactions these are called on.                        *)
(***************************************************************************)
EXTENDS DisputeHandling, SumTheorems

\* The inductive invariant: the types, and that what is held is price plus fee,
\* without which release() and split_escrow() could pay out what is not there.
LedgerInv == LedgerTypeOK /\ HeldInFull

LEMMA TotalType ==
    ASSUME NEW t \in Txs
    PROVE  /\ Amount[t] \in Nat /\ Fee[t] \in Nat /\ Total(t) \in Nat
           /\ Sender[t] \in Accounts /\ Receiver[t] \in Accounts
           /\ Sender[t] # Receiver[t]
BY ParameterTypes, PartiesDiffer DEF Total

\* Taking a transaction's funds leaves the others' as they were.
LEMMA TakeKeepsOthers ==
    ASSUME LedgerInv, NEW t \in Txs, Take(t)
    PROVE  /\ escrow[t] = Total(t)
           /\ DOMAIN escrow' = DOMAIN escrow \ {t}
           /\ \A u \in DOMAIN escrow' : escrow'[u] = escrow[u]
           /\ escrow' \in [DOMAIN escrow' -> Nat]
           /\ DOMAIN escrow' \subseteq Txs
           /\ HeldInFull'
<1>1. /\ t \in DOMAIN escrow
      /\ escrow' = [u \in DOMAIN escrow \ {t} |-> escrow[u]]
  BY DEF Take, Restrict
<1>2. escrow[t] = Total(t)
  BY <1>1 DEF LedgerInv, HeldInFull
<1>3. DOMAIN escrow' = DOMAIN escrow \ {t}
  BY <1>1
<1>4. \A u \in DOMAIN escrow' : escrow'[u] = escrow[u]
  BY <1>1, <1>3
<1>5. \A u \in DOMAIN escrow : escrow[u] \in Nat /\ u \in Txs
  BY DEF LedgerInv, LedgerTypeOK
<1>6. escrow' \in [DOMAIN escrow' -> Nat]
  BY <1>1, <1>3, <1>5
<1>7. HeldInFull'
  BY <1>3, <1>4 DEF LedgerInv, HeldInFull, Total
<1> QED BY <1>2, <1>3, <1>4, <1>5, <1>6, <1>7

\* hold() adds the total of one transaction to escrow and to nothing else.
LEMMA HoldKeepsOthers ==
    ASSUME LedgerInv, NEW t \in Txs, hold(t)
    PROVE  /\ t \notin DOMAIN escrow
           /\ DOMAIN escrow' = DOMAIN escrow \cup {t}
           /\ \A u \in DOMAIN escrow : escrow'[u] = escrow[u]
           /\ escrow'[t] = Total(t)
           /\ escrow' \in [DOMAIN escrow' -> Nat]
           /\ DOMAIN escrow' \subseteq Txs
           /\ HeldInFull'
<1>1. /\ t \notin DOMAIN escrow
      /\ escrow' = [u \in DOMAIN escrow \cup {t} |->
                       IF u = t THEN Total(t) ELSE escrow[u]]
  BY DEF hold, MayHold
<1>2. DOMAIN escrow' = DOMAIN escrow \cup {t}
  BY <1>1
<1>3. (\A u \in DOMAIN escrow : escrow'[u] = escrow[u]) /\ escrow'[t] = Total(t)
  BY <1>1
<1>4. \A u \in DOMAIN escrow : escrow[u] \in Nat /\ u \in Txs
  BY DEF LedgerInv, LedgerTypeOK
<1>5. escrow' \in [DOMAIN escrow' -> Nat]
  BY <1>1, <1>2, <1>4, TotalType
<1>6. HeldInFull'
  BY <1>2, <1>3 DEF LedgerInv, HeldInFull, Total
<1> QED BY <1>1, <1>2, <1>3, <1>4, <1>5, <1>6

\* A split of any share keeps the invariant: in range it pays what was held.
LEMMA SplitKeepsInv ==
    ASSUME LedgerInv, NEW t \in Txs, NEW p \in Int, split_escrow(t, p)
    PROVE  LedgerInv'
<1> USE DEF LedgerInv
<1>1. Take(t) /\ escrow[t] = Amount[t] + Fee[t]
  BY TakeKeepsOthers DEF split_escrow, Total
<1>2. CASE InRange(t, p)
  <2>1. p \in Nat /\ escrow[t] - p - Fee[t] \in Nat
    BY <1>1, <1>2, TotalType DEF InRange
  <2>2. /\ balances' \in [Accounts -> Nat] /\ fee_pool' \in Nat
        /\ state' \in [Txs -> TransactionState] /\ transactions' \subseteq Txs
    BY <1>2, <2>1, TotalType DEF split_escrow, LedgerTypeOK, TransactionState
  <2> QED BY <1>1, <2>2, TakeKeepsOthers DEF LedgerTypeOK
<1>3. CASE ~InRange(t, p)
  BY <1>1, <1>3, TakeKeepsOthers DEF split_escrow, LedgerTypeOK
<1> QED BY <1>2, <1>3

LEMMA LedgerInitInv == LedgerInit => LedgerInv
BY ParameterTypes DEF LedgerInit, LedgerInv, LedgerTypeOK, HeldInFull, TransactionState

LEMMA LedgerStepInv == LedgerInv /\ [LedgerNext]_ledgerVars => LedgerInv'
<1> SUFFICES ASSUME LedgerInv, [LedgerNext]_ledgerVars PROVE LedgerInv'
  OBVIOUS
<1> USE DEF LedgerInv
<1>1. ASSUME NEW t \in Txs, hold(t) PROVE LedgerInv'
  <2>1. balances' \in [Accounts -> Nat]
    BY <1>1, TotalType DEF hold, MayHold, Credit, LedgerTypeOK
  <2> QED BY <1>1, <2>1, HoldKeepsOthers DEF hold, LedgerTypeOK
<1>2. ASSUME NEW t \in Txs, release(t) PROVE LedgerInv'
  <2>1. /\ balances' \in [Accounts -> Nat] /\ fee_pool' \in Nat
        /\ state' \in [Txs -> TransactionState] /\ transactions' \subseteq Txs
    BY <1>2, TotalType DEF release, Credit, LedgerTypeOK, TransactionState
  <2> QED BY <1>2, <2>1, TakeKeepsOthers DEF release, LedgerTypeOK
<1>3. ASSUME NEW t \in Txs, refund_escrow(t) PROVE LedgerInv'
  <2>1. Take(t) /\ escrow[t] \in Nat
    BY <1>3, TakeKeepsOthers, TotalType DEF refund_escrow
  <2>2. balances' \in [Accounts -> Nat]
    BY <1>3, <2>1, TotalType DEF refund_escrow, Credit, LedgerTypeOK
  <2> QED BY <1>3, <2>1, <2>2, TakeKeepsOthers DEF refund_escrow, LedgerTypeOK
<1>4. ASSUME NEW t \in Txs, slash_escrow(t) PROVE LedgerInv'
  <2>1. Take(t) /\ escrow[t] \in Nat
    BY <1>4, TakeKeepsOthers, TotalType DEF slash_escrow
  <2>2. fee_pool' \in Nat /\ UNCHANGED <<state, balances, transactions>>
    BY <1>4, <2>1 DEF slash_escrow, LedgerTypeOK
  <2> QED BY <2>1, <2>2, TakeKeepsOthers DEF LedgerTypeOK
<1>5. ASSUME NEW t \in Txs, NEW p \in ProviderAmounts, split_escrow(t, p) PROVE LedgerInv'
  <2>1. p \in Int
    BY ParameterTypes
  <2> QED BY <1>5, <2>1, SplitKeepsInv
<1>6. ASSUME NEW t \in Txs, NEW s \in TransactionState, WriteState(t, s) PROVE LedgerInv'
  BY <1>6 DEF WriteState, moneyVars, LedgerTypeOK, HeldInFull, Total
<1>7. ASSUME UNCHANGED ledgerVars PROVE LedgerInv'
  BY <1>7 DEF ledgerVars, LedgerTypeOK, HeldInFull, Total
<1> QED BY <1>1, <1>2, <1>3, <1>4, <1>5, <1>6, <1>7 DEF LedgerNext

\* In every state of the ledger, whoever calls it: balances and pools are
\* naturals, and each escrow holds exactly its transaction's price and fee.
THEOREM LedgerInvariant == LedgerSpec => []LedgerInv
BY LedgerInitInv, LedgerStepInv, PTL DEF LedgerSpec
-----------------------------------------------------------------------------
LEMMA HeldAmountsType ==
    ASSUME LedgerInv
    PROVE  HeldAmounts \in [Txs -> Int]
<1>1. \A t \in DOMAIN escrow : escrow[t] \in Nat
  BY DEF LedgerInv, LedgerTypeOK
<1> QED BY <1>1 DEF HeldAmounts, ledger_held

\* The escrow total falls by exactly what was taken.
LEMMA TakeLowersTotal ==
    ASSUME LedgerInv, NEW t \in Txs, Take(t)
    PROVE  /\ escrow_total \in Int
           /\ escrow_total' = escrow_total - Total(t)
<1> DEFINE after == [HeldAmounts EXCEPT ![t] = 0]
<1>1. HeldAmounts' = after
  BY TakeKeepsOthers DEF HeldAmounts, ledger_held, Take
<1>2. HeldAmounts[t] = Total(t)
  BY TakeKeepsOthers DEF HeldAmounts, ledger_held, Take
<1>3. HeldAmounts \in [Txs -> Int] /\ IsFiniteSet(Txs)
  BY HeldAmountsType, ParameterTypes
<1>4. /\ after \in [Txs -> Int] /\ after[t] = 0
      /\ \A u \in Txs \ {t} : after[u] = HeldAmounts[u]
  BY <1>3
<1> HIDE DEF after
<1>5. SumFunctionOnSet(after, Txs)
        = SumFunctionOnSet(HeldAmounts, Txs) - HeldAmounts[t] + after[t]
  BY <1>3, <1>4, SumUpdate
<1>6. SumFunctionOnSet(HeldAmounts, Txs) \in Int
  BY <1>3, SumType
<1> QED BY <1>1, <1>2, <1>4, <1>5, <1>6, TotalType DEF escrow_total

LEMMA HoldRaisesTotal ==
    ASSUME LedgerInv, NEW t \in Txs, hold(t)
    PROVE  /\ escrow_total \in Int
           /\ escrow_total' = escrow_total + Total(t)
<1> DEFINE after == [HeldAmounts EXCEPT ![t] = Total(t)]
<1>1. HeldAmounts' = after
  BY HoldKeepsOthers DEF HeldAmounts, ledger_held
<1>2. HeldAmounts[t] = 0
  BY HoldKeepsOthers DEF HeldAmounts, ledger_held
<1>3. HeldAmounts \in [Txs -> Int] /\ IsFiniteSet(Txs) /\ Total(t) \in Int
  BY HeldAmountsType, ParameterTypes, TotalType
<1>4. /\ after \in [Txs -> Int] /\ after[t] = Total(t)
      /\ \A u \in Txs \ {t} : after[u] = HeldAmounts[u]
  BY <1>3
<1> HIDE DEF after
<1>5. SumFunctionOnSet(after, Txs)
        = SumFunctionOnSet(HeldAmounts, Txs) - HeldAmounts[t] + after[t]
  BY <1>3, <1>4, SumUpdate
<1>6. SumFunctionOnSet(HeldAmounts, Txs) \in Int
  BY <1>3, SumType
<1> QED BY <1>1, <1>2, <1>3, <1>4, <1>5, <1>6 DEF escrow_total

\* c is b after n credits were added to the account a.
Credited(c, b, a, n) == c = [b EXCEPT ![a] = @ + n]

\* Crediting one account moves the balances' sum by the credited amount.
LEMMA CreditMovesSum ==
    ASSUME NEW b \in [Accounts -> Nat], NEW a \in Accounts, NEW n \in Int,
           NEW c, Credited(c, b, a, n)
    PROVE  /\ SumFunctionOnSet(b, Accounts) \in Int
           /\ SumFunctionOnSet(c, Accounts) = SumFunctionOnSet(b, Accounts) + n
<1>1. b \in [Accounts -> Int] /\ IsFiniteSet(Accounts) /\ b[a] \in Int
  BY ParameterTypes
<1>2. /\ c \in [Accounts -> Int] /\ c[a] = b[a] + n
      /\ \A x \in Accounts \ {a} : c[x] = b[x]
  BY <1>1 DEF Credited
<1>3. SumFunctionOnSet(c, Accounts) = SumFunctionOnSet(b, Accounts) - b[a] + c[a]
  BY <1>1, <1>2, SumUpdate
<1>4. SumFunctionOnSet(b, Accounts) \in Int
  BY <1>1, SumType
<1> QED BY <1>1, <1>2, <1>3, <1>4

LEMMA TotalIsInt ==
    ASSUME LedgerInv
    PROVE  /\ SumFunctionOnSet(balances, Accounts) \in Int /\ fee_pool \in Int
           /\ escrow_total \in Int /\ LedgerTotal \in Int
<1>1. balances \in [Accounts -> Int] /\ IsFiniteSet(Accounts) /\ IsFiniteSet(Txs)
  BY ParameterTypes DEF LedgerInv, LedgerTypeOK
<1>2. SumFunctionOnSet(balances, Accounts) \in Int /\ escrow_total \in Int
  BY <1>1, SumType, HeldAmountsType DEF escrow_total
<1>3. fee_pool \in Int
  BY DEF LedgerInv, LedgerTypeOK
<1> QED BY <1>2, <1>3 DEF LedgerTotal

\* A split moves the total only when its share is out of range: then it
\* destroys what the transaction had in escrow.
LEMMA SplitMovesTotal ==
    ASSUME LedgerInv, NEW t \in Txs, NEW p \in Int, split_escrow(t, p)
    PROVE  \/ LedgerTotal' = LedgerTotal
           \/ ~InRange(t, p) /\ LedgerTotal' = LedgerTotal - Total(t)
<1> USE TotalIsInt
<1>0. balances \in [Accounts -> Nat]
  BY DEF LedgerInv, LedgerTypeOK
<1>1. escrow[t] = Total(t) /\ escrow_total' = escrow_total - Total(t)
  BY TakeKeepsOthers, TakeLowersTotal DEF split_escrow
<1>2. CASE InRange(t, p)
  <2> DEFINE back == escrow[t] - p - Fee[t]
             mid == [balances EXCEPT ![Receiver[t]] = @ + p]
  <2>1. p \in Nat /\ back = Amount[t] - p /\ back \in Nat /\ back \in Int
    BY <1>1, <1>2, TotalType DEF InRange, Total
  <2>2. /\ Credited(balances', mid, Sender[t], back)
        /\ fee_pool' = fee_pool + Fee[t]
    BY <1>0, <1>2, TotalType DEF split_escrow, Credited
  <2>3. mid \in [Accounts -> Nat]
    BY <1>0, <2>1, TotalType
  <2>4. SumFunctionOnSet(mid, Accounts) = SumFunctionOnSet(balances, Accounts) + p
    <3>1. Credited(mid, balances, Receiver[t], p) /\ p \in Int
      BY <2>1 DEF Credited
    <3> HIDE DEF mid
    <3> QED BY <1>0, <3>1, CreditMovesSum, TotalType
  <2> HIDE DEF back, mid
  <2>5. SumFunctionOnSet(balances', Accounts) = SumFunctionOnSet(mid, Accounts) + back
    BY <2>1, <2>2, <2>3, CreditMovesSum, TotalType
  <2> QED BY <1>1, <2>1, <2>2, <2>4, <2>5, TotalType DEF LedgerTotal, Total
<1>3. CASE ~InRange(t, p)
  <2>1. balances' = balances /\ fee_pool' = fee_pool
    BY <1>3 DEF split_escrow
  <2> QED BY <1>1, <1>3, <2>1, TotalType DEF LedgerTotal
<1> QED BY <1>2, <1>3

\* What a ledger method does to the total: nothing, except that a split whose
\* share is out of range destroys what the transaction had in escrow.
LEMMA StepMovesTotal ==
    ASSUME LedgerInv, [LedgerNext]_ledgerVars
    PROVE  \/ LedgerTotal' = LedgerTotal
           \/ \E t \in Txs, p \in ProviderAmounts :
                  ~InRange(t, p) /\ LedgerTotal' = LedgerTotal - Total(t)
<1> USE TotalIsInt
<1>0. balances \in [Accounts -> Nat]
  BY DEF LedgerInv, LedgerTypeOK
<1>1. ASSUME NEW t \in Txs, hold(t) PROVE LedgerTotal' = LedgerTotal
  <2>0. -Total(t) \in Int /\ Credited(balances', balances, Sender[t], -Total(t))
    BY <1>1, TotalType DEF hold, Credit, Credited
  <2>1. SumFunctionOnSet(balances', Accounts)
          = SumFunctionOnSet(balances, Accounts) + (-Total(t))
    BY <1>0, <2>0, CreditMovesSum, TotalType
  <2> QED BY <1>1, <2>1, HoldRaisesTotal, TotalType DEF LedgerTotal, hold
<1>2. ASSUME NEW t \in Txs, release(t) PROVE LedgerTotal' = LedgerTotal
  <2>0. Credited(balances', balances, Receiver[t], Amount[t]) /\ Amount[t] \in Int
    BY <1>2, TotalType DEF release, Credit, Credited
  <2>1. SumFunctionOnSet(balances', Accounts)
          = SumFunctionOnSet(balances, Accounts) + Amount[t]
    BY <1>0, <2>0, CreditMovesSum, TotalType
  <2>2. escrow_total' = escrow_total - (Amount[t] + Fee[t]) /\ fee_pool' = fee_pool + Fee[t]
    BY <1>2, TakeLowersTotal DEF release, Total
  <2> QED BY <2>1, <2>2, TotalType DEF LedgerTotal
<1>3. ASSUME NEW t \in Txs, refund_escrow(t) PROVE LedgerTotal' = LedgerTotal
  <2>1. escrow[t] = Total(t)
    BY <1>3, TakeKeepsOthers DEF refund_escrow
  <2>0. Credited(balances', balances, Sender[t], Total(t)) /\ Total(t) \in Int
    BY <1>3, <2>1, TotalType DEF refund_escrow, Credit, Credited
  <2>2. SumFunctionOnSet(balances', Accounts)
          = SumFunctionOnSet(balances, Accounts) + Total(t)
    BY <1>0, <2>0, CreditMovesSum, TotalType
  <2>3. escrow_total' = escrow_total - Total(t) /\ fee_pool' = fee_pool
    BY <1>3, TakeLowersTotal DEF refund_escrow
  <2> QED BY <2>2, <2>3, TotalType DEF LedgerTotal
<1>4. ASSUME NEW t \in Txs, slash_escrow(t) PROVE LedgerTotal' = LedgerTotal
  <2>1. escrow[t] = Total(t)
    BY <1>4, TakeKeepsOthers DEF slash_escrow
  <2>2. /\ escrow_total' = escrow_total - Total(t)
        /\ fee_pool' = fee_pool + Total(t) /\ balances' = balances
    BY <1>4, <2>1, TakeLowersTotal DEF slash_escrow
  <2> QED BY <2>2, TotalType DEF LedgerTotal
<1>5. ASSUME NEW t \in Txs, NEW p \in ProviderAmounts, split_escrow(t, p)
      PROVE  \/ LedgerTotal' = LedgerTotal
             \/ ~InRange(t, p) /\ LedgerTotal' = LedgerTotal - Total(t)
  <2>1. p \in Int
    BY ParameterTypes
  <2> QED BY <1>5, <2>1, SplitMovesTotal
<1>6. ASSUME NEW t \in Txs, NEW s \in TransactionState, WriteState(t, s)
      PROVE  LedgerTotal' = LedgerTotal
  BY <1>6 DEF WriteState, moneyVars, LedgerTotal, escrow_total, HeldAmounts, ledger_held
<1>7. ASSUME UNCHANGED ledgerVars PROVE LedgerTotal' = LedgerTotal
  BY <1>7 DEF ledgerVars, LedgerTotal, escrow_total, HeldAmounts, ledger_held
<1> QED BY <1>1, <1>2, <1>3, <1>4, <1>5, <1>6, <1>7 DEF LedgerNext

LEMMA InitialTotal == LedgerInit => LedgerTotal = total_supply
<1> SUFFICES ASSUME LedgerInit PROVE LedgerTotal = total_supply
  OBVIOUS
<1>1. HeldAmounts = [t \in Txs |-> 0]
  BY DEF LedgerInit, HeldAmounts, ledger_held
<1>2. escrow_total = 0
  BY <1>1, SumZero, ParameterTypes DEF escrow_total
<1>3. Opening \in [Accounts -> Int] /\ IsFiniteSet(Accounts)
  BY ParameterTypes
<1>4. SumFunctionOnSet(Opening, Accounts) \in Int
  BY <1>3, SumType
<1> QED BY <1>2, <1>4 DEF LedgerInit, LedgerTotal, total_supply

\* verify_zero_sum() holds in every state, provided that nobody asks for a
\* split above the price: no method creates or destroys a credit.
THEOREM LedgerZeroSum ==
    ASSUME SplitsInRange
    PROVE  LedgerSpec => []ZeroSum
<1>1. LedgerInv /\ ZeroSum /\ [LedgerNext]_ledgerVars => ZeroSum'
  <2> SUFFICES ASSUME LedgerInv, ZeroSum, [LedgerNext]_ledgerVars PROVE ZeroSum'
    OBVIOUS
  <2>1. LedgerTotal' = LedgerTotal
    BY StepMovesTotal, SplitsInRange DEF SplitsInRange
  <2> QED BY <2>1 DEF ZeroSum, total_supply
<1>2. LedgerInit => ZeroSum
  BY InitialTotal DEF ZeroSum
<1> QED BY <1>1, <1>2, LedgerInvariant, PTL DEF LedgerSpec

\* Whatever shares are asked for, no method ever creates a credit.
THEOREM LedgerCreatesNothing == LedgerSpec => []NoCreditCreated
<1>0. total_supply \in Int
  <2>1. Opening \in [Accounts -> Int] /\ IsFiniteSet(Accounts)
    BY ParameterTypes
  <2> QED BY <2>1, SumType DEF total_supply
<1>1. LedgerInv /\ NoCreditCreated /\ [LedgerNext]_ledgerVars => NoCreditCreated'
  <2> SUFFICES ASSUME LedgerInv, NoCreditCreated, [LedgerNext]_ledgerVars
               PROVE  NoCreditCreated'
    OBVIOUS
  <2>1. LedgerTotal' = LedgerTotal \/ \E t \in Txs : LedgerTotal' = LedgerTotal - Total(t)
    BY StepMovesTotal
  <2>2. LedgerTotal' <= LedgerTotal
    BY <2>1, TotalIsInt, TotalType
  <2>3. LedgerTotal' \in Int
    BY <2>1, TotalIsInt, TotalType
  <2>4. total_supply' = total_supply
    BY DEF total_supply
  <2> HIDE DEF total_supply
  <2> QED BY <1>0, <2>2, <2>3, <2>4, TotalIsInt DEF NoCreditCreated
<1>2. LedgerInit => NoCreditCreated
  BY <1>0, InitialTotal DEF NoCreditCreated
<1> QED BY <1>1, <1>2, LedgerInvariant, PTL DEF LedgerSpec
-----------------------------------------------------------------------------
(* Disputes *)

OpeningStep(d, t) == CheckDispute(d, t) \/ WriteDispute(d, t) \/ RecordDispute(d, t)
DisputeStep(d, t) == OpeningStep(d, t) \/ ResolveDispute(d, t) \/ WriteOutcome(d, t)

\* What a step does to one transaction's escrow and payout.
Untouched(t) == (t \in DOMAIN escrow' <=> t \in DOMAIN escrow) /\ payout'[t] = payout[t]
PaysOut(t) == t \in DOMAIN escrow /\ t \notin DOMAIN escrow' /\ payout'[t] # None

\* A step of a dispute is a ledger method, a write of a state, or no step of
\* the ledger at all.
LEMMA DisputeStepIsLedgerStep ==
    ASSUME DisputesTypeOK, NEW t \in Txs, NEW d \in Disputes, DisputeStep(d, t)
    PROVE  [LedgerNext]_ledgerVars
<1>1. CASE WriteDispute(d, t)
  <2>1. WriteState(t, "DISPUTED") /\ "DISPUTED" \in TransactionState
    BY <1>1 DEF WriteDispute, TransactionState
  <2> QED BY <2>1 DEF LedgerNext
<1>2. CASE CheckDispute(d, t) \/ RecordDispute(d, t)
  BY <1>2 DEF CheckDispute, RecordDispute
<1>3. CASE ResolveDispute(d, t)
  BY <1>3 DEF ResolveDispute, ResolveRefund, ResolveSlash, ResolveSplit,
              ResolveSettle, LedgerNext
<1>4. CASE WriteOutcome(d, t)
  <2>1. resolving[d] \in DOMAIN Outcome /\ WriteState(t, Outcome[resolving[d]])
    BY <1>4 DEF WriteOutcome, DisputesTypeOK
  <2>2. Outcome[resolving[d]] \in TransactionState
    BY <2>1 DEF Outcome, TransactionState
  <2> QED BY <2>1, <2>2 DEF LedgerNext
<1> QED BY <1>1, <1>2, <1>3, <1>4 DEF DisputeStep, OpeningStep

LEMMA DisputesInitType == DisputesInit => DisputesTypeOK
BY DEF DisputesInit, DisputesTypeOK

\* A new dispute is an entry of its own.
LEMMA NewDisputeType ==
    ASSUME DisputesTypeOK, NEW d \in Disputes, NEW t \in Txs, NewDispute(d, t)
    PROVE  /\ DOMAIN disputes' = DOMAIN disputes \cup {d}
           /\ disputes' \in [DOMAIN disputes' ->
                 [transaction_id : Txs, resolution : Resolution \cup {None}]]
           /\ disputes'[d] = [transaction_id |-> t, resolution |-> None]
           /\ \A e \in DOMAIN disputes \ {d} : disputes'[e] = disputes[e]
<1>1. \A e \in DOMAIN disputes :
        disputes[e] \in [transaction_id : Txs, resolution : Resolution \cup {None}]
  BY DEF DisputesTypeOK
<1> QED BY <1>1 DEF NewDispute

\* Resolving a dispute keeps its transaction and the other disputes.
LEMMA ResolveType ==
    ASSUME DisputesTypeOK, NEW d \in DOMAIN disputes, NEW r \in Resolution, Resolve(d, r)
    PROVE  /\ DOMAIN disputes' = DOMAIN disputes
           /\ disputes' \in [DOMAIN disputes' ->
                 [transaction_id : Txs, resolution : Resolution \cup {None}]]
           /\ disputes'[d].transaction_id = disputes[d].transaction_id
           /\ disputes'[d].resolution = r
           /\ \A e \in DOMAIN disputes \ {d} : disputes'[e] = disputes[e]
<1>1. \A e \in DOMAIN disputes :
        disputes[e] \in [transaction_id : Txs, resolution : Resolution \cup {None}]
  BY DEF DisputesTypeOK
<1> QED BY <1>1 DEF Resolve, DisputesTypeOK

\* Every resolution takes the funds and decides the payout; then it raises, goes
\* on to write that outcome, or is done.
LEMMA ResolutionShape ==
    ASSUME NEW t \in Txs, NEW d \in Disputes, ResolveDispute(d, t)
    PROVE  /\ Unresolved(d, t) /\ Take(t)
           /\ UNCHANGED <<opening, marked>>
           /\ \E how \in Payouts : Paid(t, how) /\
                \/ UNCHANGED <<disputes, resolving>>
                \/ \E r \in DOMAIN Outcome : /\ resolving' = [resolving EXCEPT ![d] = r]
                                             /\ UNCHANGED disputes
                                             /\ how = PayoutOf[r]
                \/ \E r \in {"split", "settle"} : /\ Resolve(d, r)
                                                  /\ UNCHANGED resolving
                                                  /\ how = PayoutOf[r]
<1>1. CASE ResolveRefund(d, t)
  BY <1>1 DEF ResolveRefund, CheckOutcome, refund_escrow, Payouts, PayoutOf, Outcome
<1>2. CASE ResolveSlash(d, t)
  BY <1>2 DEF ResolveSlash, CheckOutcome, slash_escrow, Payouts, PayoutOf, Outcome
<1>3. CASE \E p \in ProviderAmounts : ResolveSplit(d, t, p)
  BY <1>3 DEF ResolveSplit, split_escrow, Payouts, PayoutOf
<1>4. CASE ResolveSettle(d, t)
  BY <1>4 DEF ResolveSettle, release, Payouts, PayoutOf
<1> QED BY <1>1, <1>2, <1>3, <1>4 DEF ResolveDispute

\* Writing an outcome resolves the dispute and leaves the money alone.
LEMMA WriteOutcomeShape ==
    ASSUME DisputesTypeOK, NEW t \in Txs, NEW d \in Disputes, WriteOutcome(d, t)
    PROVE  /\ d \in DOMAIN disputes /\ disputes[d].transaction_id = t
           /\ resolving[d] \in DOMAIN Outcome /\ resolving[d] \in Resolution
           /\ WriteState(t, Outcome[resolving[d]])
           /\ Resolve(d, resolving[d])
           /\ resolving' = [resolving EXCEPT ![d] = None]
           /\ UNCHANGED <<opening, marked, payout>>
BY DEF WriteOutcome, DisputesTypeOK, Resolution, Outcome

LEMMA DisputeStepType ==
    ASSUME DisputesTypeOK, NEW t \in Txs, NEW d \in Disputes, DisputeStep(d, t)
    PROVE  DisputesTypeOK'
<1>1. CASE CheckDispute(d, t)
  BY <1>1 DEF CheckDispute, DisputesTypeOK
<1>2. CASE WriteDispute(d, t)
  BY <1>2 DEF WriteDispute, DisputesTypeOK
<1>3. CASE RecordDispute(d, t)
  BY <1>3, NewDisputeType DEF RecordDispute, DisputesTypeOK
<1>4. CASE ResolveDispute(d, t)
  <2>1. d \in DOMAIN disputes
    BY <1>4, ResolutionShape DEF Unresolved
  <2>2. payout' \in [Txs -> Payouts \cup {None}] /\ UNCHANGED <<opening, marked>>
    BY <1>4, ResolutionShape DEF Paid, DisputesTypeOK
  <2>3. CASE UNCHANGED disputes
    <3>1. \/ UNCHANGED resolving
          \/ \E r \in DOMAIN Outcome : resolving' = [resolving EXCEPT ![d] = r]
      BY <1>4, ResolutionShape
    <3> QED BY <2>1, <2>2, <2>3, <3>1 DEF DisputesTypeOK
  <2>4. CASE \E r \in {"split", "settle"} : Resolve(d, r) /\ UNCHANGED resolving
    <3>1. PICK r \in Resolution : Resolve(d, r) /\ UNCHANGED resolving
      BY <2>4 DEF Resolution
    <3> QED BY <2>1, <2>2, <3>1, ResolveType DEF DisputesTypeOK
  <2> QED BY <1>4, <2>3, <2>4, ResolutionShape
<1>5. CASE WriteOutcome(d, t)
  <2>1. resolving[d] \in Resolution /\ d \in DOMAIN disputes /\ Resolve(d, resolving[d])
    BY <1>5, WriteOutcomeShape
  <2>2. /\ DOMAIN disputes' = DOMAIN disputes
        /\ disputes' \in [DOMAIN disputes' ->
              [transaction_id : Txs, resolution : Resolution \cup {None}]]
    BY <2>1, ResolveType
  <2> QED BY <1>5, <2>2, WriteOutcomeShape DEF DisputesTypeOK
<1> QED BY <1>1, <1>2, <1>3, <1>4, <1>5 DEF DisputeStep, OpeningStep

\* Taking a transaction's funds and deciding its payout concerns it alone.
LEMMA TakeIsLocal ==
    ASSUME NEW t \in Txs, NEW how \in Payouts, DisputesTypeOK, Take(t), Paid(t, how)
    PROVE  PaysOut(t) /\ \A u \in Txs \ {t} : Untouched(u)
<1>1. DOMAIN escrow' = DOMAIN escrow \ {t} /\ t \in DOMAIN escrow
  BY DEF Take, Restrict
<1>2. payout'[t] = how /\ how # None /\ \A u \in Txs \ {t} : payout'[u] = payout[u]
  BY DEF Paid, DisputesTypeOK, Payouts, None
<1> QED BY <1>1, <1>2 DEF PaysOut, Untouched

\* A dispute pays one transaction's funds out or touches no escrow.
LEMMA DisputeStepKinds ==
    ASSUME DisputesTypeOK, NEW t \in Txs, NEW d \in Disputes, DisputeStep(d, t),
           NEW u \in Txs
    PROVE  PaysOut(u) \/ Untouched(u)
<1>1. CASE OpeningStep(d, t)
  BY <1>1 DEF OpeningStep, CheckDispute, WriteDispute, RecordDispute, WriteState,
              moneyVars, ledgerVars, Untouched
<1>2. CASE ResolveDispute(d, t)
  BY <1>2, ResolutionShape, TakeIsLocal
<1>3. CASE WriteOutcome(d, t)
  BY <1>3 DEF WriteOutcome, WriteState, moneyVars, Untouched
<1> QED BY <1>1, <1>2, <1>3 DEF DisputeStep
-----------------------------------------------------------------------------
(* Decisions: what a dispute has been, or is about to be, resolved with *)

Decision(d) == IF resolving[d] # None THEN resolving[d] ELSE disputes[d].resolution
Subject(d) == disputes[d].transaction_id

\* A payout, once made, is not made again: what the callers' invariant gives.
PayoutsStay == \A u \in Txs : payout[u] # None => payout'[u] = payout[u]
PaidNotHeld == \A u \in Txs : payout[u] # None => u \notin DOMAIN escrow

\* A dispute id that is being opened names no dispute yet, a resolution is
\* written once, every decision is true of the payout, and no transaction has
\* two decisions.
OpeningIsNew == \A d \in Disputes : opening[d] # None => d \notin DOMAIN disputes
WrittenOnce == \A d \in DOMAIN disputes :
                  resolving[d] # None => disputes[d].resolution = None
DecisionsTrue == \A d \in DOMAIN disputes :
                    Decision(d) # None => payout[Subject(d)] = PayoutOf[Decision(d)]
DecisionsOnce == \A d, e \in DOMAIN disputes :
                    /\ Decision(d) # None /\ Decision(e) # None
                    /\ Subject(d) = Subject(e)
                    => d = e
DisputeInv == OpeningIsNew /\ WrittenOnce /\ DecisionsTrue /\ DecisionsOnce

LEMMA DisputesInitInv == DisputesInit => DisputeInv
BY DEF DisputesInit, DisputeInv, OpeningIsNew, WrittenOnce, DecisionsTrue, DecisionsOnce

\* How a dispute e may look after a step: as it was, undecided, or just decided
\* by a payment out of its transaction's escrow.
Kept(e) == /\ e \in DOMAIN disputes /\ Subject(e)' = Subject(e)
           /\ Decision(e)' = Decision(e)
JustDecided(e, t) == /\ e \in DOMAIN disputes /\ Subject(e) = t /\ Subject(e)' = t
                     /\ t \in DOMAIN escrow /\ payout'[t] = PayoutOf[Decision(e)']

\* Every decision has a payout of its own.
LEMMA PayoutOfType ==
    \A r \in Resolution : r # None /\ PayoutOf[r] # None /\ PayoutOf[r] \in Payouts
BY DEF Resolution, PayoutOf, Payouts, None

\* A step decides at most the dispute it is about.
LEMMA DecisionShape ==
    ASSUME DisputesTypeOK, DisputeInv, NEW t \in Txs, NEW d \in Disputes, DisputeStep(d, t),
           payout[t] # None => t \notin DOMAIN escrow
    PROVE  /\ OpeningIsNew' /\ WrittenOnce'
           /\ \A e \in DOMAIN disputes' :
                 Kept(e) \/ Decision(e)' = None \/ (e = d /\ JustDecided(e, t))
<1> USE DEF Kept, Decision, Subject, DisputeInv
<1>0. /\ opening \in [Disputes -> Txs \cup {None}]
      /\ resolving \in [Disputes -> DOMAIN Outcome \cup {None}]
      /\ \A e \in Disputes : resolving[e] # None => e \in DOMAIN disputes
      /\ DOMAIN disputes \subseteq Disputes /\ payout \in [Txs -> Payouts \cup {None}]
      /\ \A r \in DOMAIN Outcome : r \in Resolution /\ r # None
  BY DEF DisputesTypeOK, Outcome, Resolution, None
<1>1. CASE CheckDispute(d, t)
  BY <1>0, <1>1 DEF CheckDispute, OpeningIsNew, WrittenOnce
<1>2. CASE WriteDispute(d, t)
  BY <1>0, <1>2 DEF WriteDispute, OpeningIsNew, WrittenOnce
<1>3. CASE RecordDispute(d, t)
  <2>1. /\ DOMAIN disputes' = DOMAIN disputes \cup {d}
        /\ disputes'[d] = [transaction_id |-> t, resolution |-> None]
        /\ \A e \in DOMAIN disputes \ {d} : disputes'[e] = disputes[e]
        /\ UNCHANGED resolving /\ opening' = [opening EXCEPT ![d] = None]
    BY <1>3, NewDisputeType DEF RecordDispute
  <2>2. d \notin DOMAIN disputes /\ resolving[d] = None
    BY <1>0, <1>3, NoneIsNoTx DEF RecordDispute, OpeningIsNew
  <2> QED BY <1>0, <2>1, <2>2 DEF OpeningIsNew, WrittenOnce
<1>4. CASE ResolveDispute(d, t)
  <2>1. /\ d \in DOMAIN disputes /\ disputes[d].transaction_id = t
        /\ disputes[d].resolution = None /\ t \in DOMAIN escrow /\ UNCHANGED opening
    BY <1>4, ResolutionShape DEF Unresolved, Take
  <2>2. PICK how \in Payouts : Paid(t, how) /\
           \/ UNCHANGED <<disputes, resolving>>
           \/ \E r \in DOMAIN Outcome : /\ resolving' = [resolving EXCEPT ![d] = r]
                                        /\ UNCHANGED disputes
                                        /\ how = PayoutOf[r]
           \/ \E r \in {"split", "settle"} : /\ Resolve(d, r)
                                             /\ UNCHANGED resolving
                                             /\ how = PayoutOf[r]
    BY <1>4, ResolutionShape
  <2>3. payout'[t] = how
    BY <1>0, <2>2 DEF Paid
  <2>4. CASE UNCHANGED <<disputes, resolving>>
    BY <2>1, <2>4 DEF OpeningIsNew, WrittenOnce
  <2>5. ASSUME NEW r \in DOMAIN Outcome, resolving' = [resolving EXCEPT ![d] = r],
               UNCHANGED disputes, how = PayoutOf[r]
        PROVE  /\ OpeningIsNew' /\ WrittenOnce' /\ JustDecided(d, t)
               /\ \A e \in DOMAIN disputes' \ {d} : Kept(e)
    <3>1. resolving'[d] = r /\ r # None
      BY <1>0, <2>5
    <3>2. \A e \in DOMAIN disputes \ {d} : resolving'[e] = resolving[e]
      BY <1>0, <2>5
    <3> QED BY <1>0, <2>1, <2>3, <2>5, <3>1, <3>2
            DEF OpeningIsNew, WrittenOnce, JustDecided
  <2>6. ASSUME NEW r \in {"split", "settle"}, Resolve(d, r), UNCHANGED resolving,
               how = PayoutOf[r]
        PROVE  /\ OpeningIsNew' /\ DOMAIN disputes' = DOMAIN disputes
               /\ \A e \in DOMAIN disputes \ {d} : disputes'[e] = disputes[e]
               /\ disputes'[d].transaction_id = t /\ disputes'[d].resolution = r
    <3>1. r \in Resolution
      BY DEF Resolution
    <3> QED BY <2>1, <2>6, <3>1, ResolveType DEF OpeningIsNew
  <2>7. resolving[d] = None
    BY <1>0, <2>1, PayoutOfType DEF DecisionsTrue
  <2> QED BY <1>0, <2>1, <2>2, <2>3, <2>4, <2>5, <2>6, <2>7 DEF WrittenOnce, JustDecided
<1>5. CASE WriteOutcome(d, t)
  <2>1. /\ d \in DOMAIN disputes /\ resolving[d] \in Resolution /\ resolving[d] # None
        /\ Resolve(d, resolving[d]) /\ resolving' = [resolving EXCEPT ![d] = None]
        /\ UNCHANGED opening
    BY <1>0, <1>5, WriteOutcomeShape
  <2>2. /\ DOMAIN disputes' = DOMAIN disputes
        /\ disputes'[d].transaction_id = disputes[d].transaction_id
        /\ disputes'[d].resolution = resolving[d]
        /\ \A e \in DOMAIN disputes \ {d} : disputes'[e] = disputes[e]
    BY <2>1, ResolveType
  <2>3. resolving'[d] = None /\ \A e \in DOMAIN disputes \ {d} : resolving'[e] = resolving[e]
    BY <1>0, <2>1
  <2> QED BY <1>0, <2>1, <2>2, <2>3 DEF OpeningIsNew, WrittenOnce
<1> QED BY <1>1, <1>2, <1>3, <1>4, <1>5 DEF DisputeStep, OpeningStep

\* The decisions stay true and unique through any step of a dispute.
LEMMA DisputeStepInv ==
    ASSUME DisputesTypeOK, DisputeInv, PayoutsStay,
           NEW t \in Txs, NEW d \in Disputes, DisputeStep(d, t),
           payout[t] # None => t \notin DOMAIN escrow
    PROVE  DisputeInv'
<1>1. /\ OpeningIsNew' /\ WrittenOnce'
      /\ \A e \in DOMAIN disputes' :
            Kept(e) \/ Decision(e)' = None \/ (e = d /\ JustDecided(e, t))
  BY DecisionShape
<1>2. \A e \in DOMAIN disputes :
         Decision(e) # None => /\ Decision(e) \in Resolution /\ Subject(e) \in Txs
                               /\ payout[Subject(e)] = PayoutOf[Decision(e)]
                               /\ payout'[Subject(e)] = PayoutOf[Decision(e)]
  <2> SUFFICES ASSUME NEW e \in DOMAIN disputes, Decision(e) # None
               PROVE  /\ Decision(e) \in Resolution /\ Subject(e) \in Txs
                      /\ payout[Subject(e)] = PayoutOf[Decision(e)]
                      /\ payout'[Subject(e)] = PayoutOf[Decision(e)]
    OBVIOUS
  <2>1. /\ disputes[e] \in [transaction_id : Txs, resolution : Resolution \cup {None}]
        /\ resolving[e] \in DOMAIN Outcome \cup {None}
    BY DEF DisputesTypeOK
  <2>2. Decision(e) \in Resolution /\ Subject(e) \in Txs
    BY <2>1 DEF Decision, Subject, Outcome, Resolution
  <2>3. payout[Subject(e)] = PayoutOf[Decision(e)]
    BY DEF DisputeInv, DecisionsTrue
  <2> QED BY <2>2, <2>3, PayoutOfType DEF PayoutsStay
<1>3. DecisionsTrue'
  <2> SUFFICES ASSUME NEW e \in DOMAIN disputes', Decision(e)' # None
               PROVE  payout'[Subject(e)'] = PayoutOf[Decision(e)']
    BY DEF DecisionsTrue
  <2> QED BY <1>1, <1>2 DEF Kept, JustDecided
<1>4. ~ \E e \in DOMAIN disputes : /\ Decision(e) # None /\ Subject(e) = t
                                   /\ t \in DOMAIN escrow
  BY <1>2, PayoutOfType
<1>5. DecisionsOnce'
  <2> SUFFICES ASSUME NEW e \in DOMAIN disputes', NEW f \in DOMAIN disputes',
                      Decision(e)' # None, Decision(f)' # None, Subject(e)' = Subject(f)'
               PROVE  e = f
    BY DEF DecisionsOnce
  <2>1. /\ Kept(e) \/ (e = d /\ JustDecided(e, t))
        /\ Kept(f) \/ (f = d /\ JustDecided(f, t))
    BY <1>1
  <2> QED BY <2>1, <1>4 DEF Kept, JustDecided, DisputeInv, DecisionsOnce
<1> QED BY <1>1, <1>3, <1>5 DEF DisputeInv

\* A step that touches no dispute and undoes no payout keeps the decisions.
LEMMA OtherStepInv ==
    ASSUME DisputesTypeOK, DisputeInv, PayoutsStay,
           UNCHANGED <<opening, disputes, resolving>>
    PROVE  DisputeInv'
<1>1. \A e \in DOMAIN disputes :
         Decision(e) # None => Decision(e) \in Resolution /\ Subject(e) \in Txs
  <2> SUFFICES ASSUME NEW e \in DOMAIN disputes, Decision(e) # None
               PROVE  Decision(e) \in Resolution /\ Subject(e) \in Txs
    OBVIOUS
  <2>1. /\ disputes[e] \in [transaction_id : Txs, resolution : Resolution \cup {None}]
        /\ resolving[e] \in DOMAIN Outcome \cup {None}
    BY DEF DisputesTypeOK
  <2> QED BY <2>1 DEF Decision, Subject, Outcome, Resolution
<1>2. \A e \in DOMAIN disputes : Decision(e)' = Decision(e) /\ Subject(e)' = Subject(e)
  BY DEF Decision, Subject
<1> QED BY <1>1, <1>2, PayoutOfType
        DEF DisputeInv, OpeningIsNew, WrittenOnce, DecisionsTrue, DecisionsOnce, PayoutsStay

\* A contested transaction stays contested until its funds are paid out.
LEMMA ContestedStays ==
    ASSUME DisputesTypeOK, DisputeInv, PaidNotHeld, PayoutsStay,
           NEW t \in Txs, NEW d \in Disputes, DisputeStep(d, t),
           NEW u \in Txs, Contested(u), payout'[u] = None
    PROVE  Contested(u)'
<1>0. u # None /\ payout[u] = None
  BY NoneIsNoTx DEF PayoutsStay
<1>1. PICK e \in Disputes : opening[e] = u \/ Unresolved(e, u)
  BY DEF Contested
<1>2. e \in DOMAIN disputes => opening[e] = None
  BY DEF DisputeInv, OpeningIsNew
<1>3. CASE CheckDispute(d, t)
  BY <1>0, <1>1, <1>3 DEF CheckDispute, Contested, Unresolved, DisputesTypeOK
<1>4. CASE WriteDispute(d, t)
  BY <1>1, <1>4 DEF WriteDispute, Contested, Unresolved
<1>5. CASE RecordDispute(d, t)
  <2>1. /\ DOMAIN disputes' = DOMAIN disputes \cup {d}
        /\ disputes'[d] = [transaction_id |-> t, resolution |-> None]
        /\ \A f \in DOMAIN disputes \ {d} : disputes'[f] = disputes[f]
        /\ opening[d] = t /\ opening' = [opening EXCEPT ![d] = None]
    BY <1>5, NewDisputeType DEF RecordDispute
  <2>2. d \notin DOMAIN disputes
    BY <2>1, NoneIsNoTx DEF DisputeInv, OpeningIsNew
  <2> QED BY <1>1, <2>1, <2>2 DEF Contested, Unresolved, DisputesTypeOK
<1>6. CASE ResolveDispute(d, t)
  <2>1. t # u /\ Unresolved(d, t) /\ UNCHANGED opening
    BY <1>0, <1>6, ResolutionShape, TakeIsLocal DEF PaysOut
  <2>2. \/ UNCHANGED disputes
        \/ \E r \in Resolution : Resolve(d, r)
    BY <1>6, ResolutionShape DEF Resolution
  <2>3. \A f \in DOMAIN disputes \ {d} : f \in DOMAIN disputes' /\ disputes'[f] = disputes[f]
    BY <2>1, <2>2, ResolveType DEF Unresolved
  <2>4. ~Unresolved(d, u)
    BY <2>1 DEF Unresolved
  <2> QED BY <1>1, <2>1, <2>3, <2>4 DEF Contested, Unresolved
<1>7. CASE WriteOutcome(d, t)
  <2>1. /\ d \in DOMAIN disputes /\ disputes[d].transaction_id = t
        /\ resolving[d] \in Resolution /\ Resolve(d, resolving[d]) /\ UNCHANGED opening
    BY <1>7, WriteOutcomeShape
  <2>2. resolving[d] # None /\ payout[t] # None
    BY <2>1, PayoutOfType DEF DisputeInv, DecisionsTrue, Decision, Subject
  <2>3. \A f \in DOMAIN disputes \ {d} : f \in DOMAIN disputes' /\ disputes'[f] = disputes[f]
    BY <2>1, ResolveType
  <2> QED BY <1>0, <1>1, <2>1, <2>2, <2>3 DEF Contested, Unresolved
<1> QED BY <1>3, <1>4, <1>5, <1>6, <1>7 DEF DisputeStep, OpeningStep
-----------------------------------------------------------------------------
(* States *)

Final == {"REFUNDED", "SLASHED", "SETTLED"}

\* What a step may do to a transaction: write a state that names no outcome, or
\* the outcome its payout has; pay it; or take its funds otherwise.
Writes(u) ==
    /\ payout'[u] = payout[u] /\ (u \in transactions' <=> u \in transactions)
    /\ \/ state'[u] = state[u]
       \/ state'[u] \notin Final
       \/ state'[u] = "REFUNDED" /\ payout[u] = "refunded"
       \/ state'[u] = "SLASHED" /\ payout[u] = "slashed"
Pays(u) ==
    /\ u \in DOMAIN escrow /\ payout'[u] \in {"paid", "split"}
    /\ state'[u] = "SETTLED" /\ u \in transactions'
TakesBack(u) ==
    /\ u \in DOMAIN escrow /\ payout'[u] \in {"refunded", "slashed", "destroyed"}
    /\ state'[u] = state[u] /\ (u \in transactions' <=> u \in transactions)

LEMMA DisputeStateStep ==
    ASSUME DisputesTypeOK, DisputeInv, LedgerTypeOK,
           NEW t \in Txs, NEW d \in Disputes, DisputeStep(d, t), NEW u \in Txs
    PROVE  /\ Writes(u) \/ Pays(u) \/ TakesBack(u)
           /\ state'[u] = state[u] \/ Contested(u)' \/ payout'[u] # None
<1>0. /\ state \in [Txs -> TransactionState] /\ payout \in [Txs -> Payouts \cup {None}]
  BY DEF LedgerTypeOK, DisputesTypeOK
<1>1. CASE CheckDispute(d, t) \/ RecordDispute(d, t)
  BY <1>1 DEF CheckDispute, RecordDispute, ledgerVars, Writes
<1>2. CASE WriteDispute(d, t)
  <2>1. /\ state' = [state EXCEPT ![t] = "DISPUTED"] /\ UNCHANGED <<transactions, payout>>
        /\ opening'[d] = t
    BY <1>2 DEF WriteDispute, WriteState, moneyVars
  <2> QED BY <1>0, <2>1 DEF Writes, Contested, Final
<1>3. CASE ResolveRefund(d, t)
  BY <1>0, <1>3 DEF ResolveRefund, refund_escrow, Take, Paid, Writes, TakesBack
<1>4. CASE ResolveSlash(d, t)
  BY <1>0, <1>4 DEF ResolveSlash, slash_escrow, Take, Paid, Writes, TakesBack
<1>5. CASE \E p \in ProviderAmounts : ResolveSplit(d, t, p)
  <2>1. PICK p \in ProviderAmounts : ResolveSplit(d, t, p)
    BY <1>5
  <2>2. CASE InRange(t, p)
    BY <1>0, <2>1, <2>2
       DEF ResolveSplit, split_escrow, Take, Paid, Writes, Pays, None
  <2>3. CASE ~InRange(t, p)
    BY <1>0, <2>1, <2>3
       DEF ResolveSplit, split_escrow, Take, Paid, Writes, TakesBack, None
  <2> QED BY <2>2, <2>3
<1>6. CASE ResolveSettle(d, t)
  BY <1>0, <1>6 DEF ResolveSettle, release, Take, Paid, Writes, Pays, None
<1>7. CASE WriteOutcome(d, t)
  <2>1. /\ d \in DOMAIN disputes /\ disputes[d].transaction_id = t
        /\ resolving[d] \in {"refund", "slash"} /\ resolving[d] # None
        /\ state' = [state EXCEPT ![t] = Outcome[resolving[d]]]
        /\ UNCHANGED <<transactions, payout>>
    BY <1>7, WriteOutcomeShape DEF WriteState, moneyVars, Outcome, None
  <2>2. payout[t] = PayoutOf[resolving[d]]
    BY <2>1 DEF DisputeInv, DecisionsTrue, Decision, Subject
  <2> QED BY <1>0, <2>1, <2>2 DEF Writes, Outcome, PayoutOf, None
<1> QED BY <1>1, <1>2, <1>3, <1>4, <1>5, <1>6, <1>7 DEF DisputeStep, OpeningStep, ResolveDispute
=============================================================================
