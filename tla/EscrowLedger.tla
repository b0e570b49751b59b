---------------------------- MODULE EscrowLedger ----------------------------
(***************************************************************************)
(* neuralclear/core.py (Ledger) and neuralclear/clearing.py (EscrowLedger):*)
(* account balances, the escrow pool and the fee pool, and the methods     *)
(* that move credits between them.                                         *)
(*                                                                         *)
(* Every method runs under the ledger's re-entrant lock, so each is one    *)
(* step. Transaction.state is written outside the lock as well: WriteState *)
(* stands for those writes. The module's own Next lets                     *)
(* any caller invoke any method on any transaction in any order; the       *)
(* services that own the callers refine it.                                *)
(***************************************************************************)
EXTENDS Integers, FiniteSets, Functions, TransactionLifecycle

CONSTANTS
    Accounts,        \* owners and providers that hold a balance
    Txs,             \* transactions
    Sender,          \* [Txs -> Accounts]
    Receiver,        \* [Txs -> Accounts]
    Amount,          \* [Txs -> Nat], the settlement price
    Fee,             \* [Txs -> Nat], the protocol fee
    Opening,         \* [Accounts -> Nat], balances given to open_account
    ProviderAmounts  \* the provider_amount values a split may be called with

ASSUME ParameterTypes ==
    /\ IsFiniteSet(Accounts) /\ IsFiniteSet(Txs)
    /\ Sender \in [Txs -> Accounts] /\ Receiver \in [Txs -> Accounts]
    /\ Amount \in [Txs -> Nat] /\ Fee \in [Txs -> Nat]
    /\ Opening \in [Accounts -> Nat]
    /\ ProviderAmounts \subseteq Int

\* Transaction.__post_init__ refuses anything else.
ASSUME PartiesDiffer == \A t \in Txs : Sender[t] # Receiver[t]

VARIABLES
    state,           \* Transaction.state
    balances,        \* Ledger.balances, absent accounts read as 0
    escrow,          \* EscrowLedger.escrow: held amount by transaction
    fee_pool,        \* Ledger.fee_pool
    transactions     \* Ledger.transactions: what has been settled

ledgerVars == <<state, balances, escrow, fee_pool, transactions>>
moneyVars == <<balances, escrow, fee_pool, transactions>>

Total(t) == Amount[t] + Fee[t]
InRange(t, p) == p \in 0..Amount[t]

LedgerInit ==
    /\ state = [t \in Txs |-> "QUOTE_ACCEPTED"]
    /\ balances = Opening
    /\ escrow = [t \in {} |-> 0]
    /\ fee_pool = 0
    /\ transactions = {}
-----------------------------------------------------------------------------
\* BUG, for a mutant: the funds are paid out and stay in escrow as well.
PeekOnly(t) == t \in DOMAIN escrow /\ UNCHANGED escrow

\* _take(): pops the held amount; raises when there is none.
Take(t) ==
    /\ t \in DOMAIN escrow
    /\ escrow' = Restrict(escrow, DOMAIN escrow \ {t})

Credit(a, n) == balances' = [balances EXCEPT ![a] = @ + n]

\* BUG, for a mutant: only the price is compared with the balance.
CoversThePrice(t) ==
    t \notin DOMAIN escrow /\ balances[Sender[t]] >= Amount[t]

\* The two checks of hold(); it raises when either fails.
MayHold(t) ==
    t \notin DOMAIN escrow /\ balances[Sender[t]] >= Total(t)

hold(t) ==
    /\ MayHold(t)
    /\ Credit(Sender[t], -Total(t))
    /\ escrow' = [u \in DOMAIN escrow \cup {t} |->
                     IF u = t THEN Total(t) ELSE escrow[u]]
    /\ UNCHANGED <<state, fee_pool, transactions>>

\* release() assigns SETTLED without consulting the transition table.
release(t) ==
    /\ Take(t)
    /\ Credit(Receiver[t], Amount[t])
    /\ fee_pool' = fee_pool + Fee[t]
    /\ state' = [state EXCEPT ![t] = "SETTLED"]
    /\ transactions' = transactions \cup {t}

\* BUG, for a mutant: a refund keeps the protocol fee.
RefundLessFee(t) ==
    /\ Take(t)
    /\ Credit(Sender[t], Amount[t])
    /\ fee_pool' = fee_pool + Fee[t]
    /\ UNCHANGED <<state, transactions>>

\* refund_escrow() and slash_escrow() move the money first and then call
\* transition(), which any thread's write may race with, and which may raise
\* with the money already moved. These are the moves; the checks and writes of
\* that transition() are steps of the callers.
refund_escrow(t) ==
    /\ Take(t)
    /\ Credit(Sender[t], escrow[t])
    /\ UNCHANGED <<state, fee_pool, transactions>>

slash_escrow(t) ==
    /\ Take(t)
    /\ fee_pool' = fee_pool + escrow[t]
    /\ UNCHANGED <<state, balances, transactions>>

\* BUG, for a mutant: the fee is not subtracted from what the buyer gets back.
SplitWithoutFee(t, p) ==
    /\ Take(t)
    /\ InRange(t, p)
    /\ balances' = [balances EXCEPT ![Receiver[t]] = @ + p,
                                    ![Sender[t]] = @ + (escrow[t] - p)]
    /\ fee_pool' = fee_pool + Fee[t]
    /\ state' = [state EXCEPT ![t] = "SETTLED"]
    /\ transactions' = transactions \cup {t}

\* split_escrow() takes the funds before it checks the provider's share, and
\* a share out of range raises with the funds already gone from escrow.
split_escrow(t, p) ==
    /\ Take(t)
    /\ \/ /\ InRange(t, p)
          /\ balances' = [balances EXCEPT ![Receiver[t]] = @ + p,
                                          ![Sender[t]] = @ + (escrow[t] - p - Fee[t])]
          /\ fee_pool' = fee_pool + Fee[t]
          /\ state' = [state EXCEPT ![t] = "SETTLED"]
          /\ transactions' = transactions \cup {t}
       \/ /\ ~InRange(t, p)
          /\ UNCHANGED <<state, balances, fee_pool, transactions>>

\* A write of Transaction.state by a thread outside the ledger's lock.
WriteState(t, s) ==
    /\ state' = [state EXCEPT ![t] = s]
    /\ UNCHANGED moneyVars

LedgerNext ==
    \E t \in Txs :
        \/ hold(t)
        \/ release(t)
        \/ refund_escrow(t)
        \/ slash_escrow(t)
        \/ \E p \in ProviderAmounts : split_escrow(t, p)
        \/ \E s \in TransactionState : WriteState(t, s)

LedgerSpec == LedgerInit /\ [][LedgerNext]_ledgerVars
-----------------------------------------------------------------------------
LedgerTypeOK ==
    /\ state \in [Txs -> TransactionState]
    /\ balances \in [Accounts -> Nat]
    /\ DOMAIN escrow \subseteq Txs
    /\ escrow \in [DOMAIN escrow -> Nat]
    /\ fee_pool \in Nat
    /\ transactions \subseteq Txs

\* What escrow holds for a transaction is its price plus its fee, exactly:
\* release() pays those two and never looks at the amount it took out.
HeldInFull == \A t \in DOMAIN escrow : escrow[t] = Total(t)

\* ledger.escrow.get(transaction_id, 0)
ledger_held(t) == IF t \in DOMAIN escrow THEN escrow[t] ELSE 0

HeldAmounts == [t \in Txs |-> ledger_held(t)]
escrow_total == SumFunctionOnSet(HeldAmounts, Txs)

\* The left side of verify_zero_sum()'s comparison.
LedgerTotal == SumFunctionOnSet(balances, Accounts) + fee_pool + escrow_total

\* Ledger.total_supply: what the accounts were opened with.
total_supply == SumFunctionOnSet(Opening, Accounts)

\* verify_zero_sum(): no credit is created and none is destroyed, over
\* balances, escrow and the fee pool together.
ZeroSum == LedgerTotal = total_supply

\* The half of it that no argument of any call can break.
NoCreditCreated == LedgerTotal <= total_supply

\* What the callers must respect for ZeroSum: every split is within the price.
SplitsInRange == \A t \in Txs, p \in ProviderAmounts : InRange(t, p)
=============================================================================
