---------------------------- MODULE PlainLedger ----------------------------
(***************************************************************************)
(* neuralclear/core.py, class Ledger: the ledger without escrow and without*)
(* a lock, on which the reference server, the SDK and the buyer agent      *)
(* settle.                                                                 *)
(*                                                                         *)
(* settle() is a sequence of steps. CPython switches threads only where a  *)
(* call begins or returns, so what stands between two calls is one step:   *)
(* a balance is read in one step and written in the next, and the          *)
(* receiver's balance and the fee pool are written together.               *)
(***************************************************************************)
EXTENDS Integers, FiniteSets, Functions

CONSTANTS
    Accounts,        \* accounts that open_account() has opened
    Txs,             \* transactions, named as the call that creates them
    Sender,          \* [Txs -> Accounts]
    Receiver,        \* [Txs -> Accounts]
    Amount,          \* [Txs -> Nat], the settlement price
    Fee,             \* [Txs -> Nat], the platform fee
    Opening          \* [Accounts -> Nat], balances given to open_account

ASSUME LedgerParameters ==
    /\ IsFiniteSet(Accounts) /\ IsFiniteSet(Txs)
    /\ Sender \in [Txs -> Accounts] /\ Receiver \in [Txs -> Accounts]
    /\ \A t \in Txs : Sender[t] # Receiver[t]
    /\ Amount \in [Txs -> Nat] /\ Fee \in [Txs -> Nat]
    /\ Opening \in [Accounts -> Nat]

VARIABLES
    balances,        \* Ledger.balances
    fee_pool,        \* Ledger.fee_pool
    transactions,    \* Ledger.transactions, all of them SETTLED
    settling,        \* where each transaction's settle() stands
    seen,            \* what settle() has read and not used yet, else 0
    before           \* the total of the snapshot that settle() took, else 0

plainVars == <<balances, fee_pool, transactions, settling, seen, before>>

\* What is about to happen in settle(), and its ends: not called, returned,
\* "insufficient credit" or "already settled", and "ledger invariant failed".
SettlePosition ==
    {"idle", "snapshot", "snapshot_pool", "read_sender", "debit",
     "read_receiver", "credit", "append", "sum", "sum_pool",
     "settled", "refused", "broken"}
SettleDone == {"settled", "refused", "broken"}

Total(t) == Amount[t] + Fee[t]
total_supply == SumFunctionOnSet(Opening, Accounts)
balances_total == SumFunctionOnSet(balances, Accounts)

LedgerInit ==
    /\ balances = Opening
    /\ fee_pool = 0
    /\ transactions = {}
    /\ settling = [t \in Txs |-> "idle"]
    /\ seen = [t \in Txs |-> 0]
    /\ before = [t \in Txs |-> 0]

SettleAt(t, position) == settling[t] = position
SettleTo(t, position) == settling' = [settling EXCEPT ![t] = position]
See(t, n) == seen' = [seen EXCEPT ![t] = n]
-----------------------------------------------------------------------------
MaySettle(t) == t \notin transactions /\ balances[Sender[t]] >= Total(t)

\* The call, and the checks at its head.
CallSettle(t) ==
    /\ SettleAt(t, "idle")
    /\ SettleTo(t, IF MaySettle(t) THEN "snapshot" ELSE "refused")
    /\ UNCHANGED <<balances, fee_pool, transactions, seen, before>>

\* snapshot() copies the balances, then reads the fee pool.
SnapshotBalances(t) ==
    /\ SettleAt(t, "snapshot")
    /\ See(t, balances_total)
    /\ SettleTo(t, "snapshot_pool")
    /\ UNCHANGED <<balances, fee_pool, transactions, before>>

SnapshotPool(t) ==
    /\ SettleAt(t, "snapshot_pool")
    /\ before' = [before EXCEPT ![t] = seen[t] + fee_pool]
    /\ See(t, 0)
    /\ SettleTo(t, "read_sender")
    /\ UNCHANGED <<balances, fee_pool, transactions>>

ReadSender(t) ==
    /\ SettleAt(t, "read_sender")
    /\ See(t, balances[Sender[t]])
    /\ SettleTo(t, "debit")
    /\ UNCHANGED <<balances, fee_pool, transactions, before>>

Debit(t) ==
    /\ SettleAt(t, "debit")
    /\ balances' = [balances EXCEPT ![Sender[t]] = seen[t] - Total(t)]
    /\ See(t, 0)
    /\ SettleTo(t, "read_receiver")
    /\ UNCHANGED <<fee_pool, transactions, before>>

\* BUG, for a mutant: the sender's balance is read for the receiver's.
ReadWrongAccount(t) ==
    /\ SettleAt(t, "read_receiver")
    /\ See(t, balances[Sender[t]])
    /\ SettleTo(t, "credit")
    /\ UNCHANGED <<balances, fee_pool, transactions, before>>

ReadReceiver(t) ==
    /\ SettleAt(t, "read_receiver")
    /\ See(t, balances[Receiver[t]])
    /\ SettleTo(t, "credit")
    /\ UNCHANGED <<balances, fee_pool, transactions, before>>

Credit(t) ==
    /\ SettleAt(t, "credit")
    /\ balances' = [balances EXCEPT ![Receiver[t]] = seen[t] + Amount[t]]
    /\ fee_pool' = fee_pool + Fee[t]
    /\ See(t, 0)
    /\ SettleTo(t, "append")
    /\ UNCHANGED <<transactions, before>>

\* SETTLED, settled_at, and the append.
AppendTransaction(t) ==
    /\ SettleAt(t, "append")
    /\ transactions' = transactions \cup {t}
    /\ SettleTo(t, "sum")
    /\ UNCHANGED <<balances, fee_pool, seen, before>>

\* verify_zero_sum(before) adds up the balances, then reads the fee pool. Its
\* failure raises with the money moved and the transaction appended.
SumBalances(t) ==
    /\ SettleAt(t, "sum")
    /\ See(t, balances_total)
    /\ SettleTo(t, "sum_pool")
    /\ UNCHANGED <<balances, fee_pool, transactions, before>>

VerifyZeroSum(t) ==
    /\ SettleAt(t, "sum_pool")
    /\ SettleTo(t, IF seen[t] + fee_pool = before[t] THEN "settled" ELSE "broken")
    /\ See(t, 0) /\ before' = [before EXCEPT ![t] = 0]
    /\ UNCHANGED <<balances, fee_pool, transactions>>

SettleStep(t) ==
    \/ SnapshotBalances(t) \/ SnapshotPool(t)
    \/ ReadSender(t) \/ Debit(t) \/ ReadReceiver(t) \/ Credit(t)
    \/ AppendTransaction(t) \/ SumBalances(t) \/ VerifyZeroSum(t)
-----------------------------------------------------------------------------
\* Ledger.get_daily_spend() over the transactions of one mandate, on one day.
get_daily_spend(mandated) ==
    SumFunctionOnSet([t \in Txs |-> IF t \in transactions \cap mandated
                                    THEN Total(t) ELSE 0], Txs)

\* SpendingMandate.assert_allows() and assert_daily_budget(): the price is
\* compared without the fee, the spend so far counts with it.
MandateAllows(t, mandated, max_per_task, max_daily) ==
    /\ Amount[t] <= max_per_task
    /\ get_daily_spend(mandated) + Amount[t] <= max_daily

LedgerTypeOK ==
    /\ balances \in [Accounts -> Int] /\ fee_pool \in Nat
    /\ transactions \subseteq Txs
    /\ settling \in [Txs -> SettlePosition]
    /\ seen \in [Txs -> Int] /\ before \in [Txs -> Int]
=============================================================================
