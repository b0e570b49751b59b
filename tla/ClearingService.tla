--------------------------- MODULE ClearingService ---------------------------
(***************************************************************************)
(* neuralclear/clearing.py, class ClearingService: the threads that run    *)
(* clear(), open_dispute() and resolve_dispute() on one shared ledger, as  *)
(* the threaded gateway runs them.                                         *)
(*                                                                         *)
(* A step is what no other thread can split: a ledger method (it holds the *)
(* lock), a check of the transition table, or a write of Transaction.state.*)
(* The check and the write are two steps, because transition() takes no    *)
(* lock. A clear() call and the transaction it creates have one name.      *)
(***************************************************************************)
EXTENDS DisputeHandling, FeeEngine

CONSTANTS
    Policy,          \* [Txs -> FeePolicies], FeeSchedule.policy_for(capability)
    Mandated,        \* the clear() calls made under the one SpendingMandate
    MaxPerTask,      \* SpendingMandate.max_per_task
    MaxDaily,        \* SpendingMandate.max_daily
    ForeignFailures  \* BOOLEAN: an event handler or a verifier may raise

ASSUME ServiceParameters ==
    /\ Policy \in [Txs -> FeePolicies]
    /\ Fee = [t \in Txs |-> fee_for(Policy[t], Amount[t])]
    /\ Mandated \subseteq Txs
    /\ MaxPerTask \in Nat /\ MaxDaily \in Nat
    /\ ForeignFailures \in BOOLEAN

VARIABLES
    pc,              \* where each clear() call stands
    pending,         \* a state its transition() has checked and not yet written
    published,       \* transactions whose HELD event is in EventBus.history
    receipts         \* transactions with a signed receipt

callVars == <<pc, pending, published, receipts>>
vars == <<ledgerVars, disputeVars, callVars>>

\* Positions in clear(), each named for what is about to happen there, and the
\* four ends: a receipt returned, a ProtocolError before or after the funds
\* were held, and an exception of somebody else's code.
Position ==
    {"authorize", "hold", "emit", "to_running", "run", "to_delivered", "verify",
     "to_verified", "release", "to_disputed", "refund", "to_refunded",
     "receipt", "returned", "rejected", "raised", "foreign"}
BeforeHold == {"authorize", "hold", "rejected"}

\* The transition() call at a position, and the position after it.
Target ==
    [to_running   |-> "TASK_RUNNING",   to_delivered |-> "RESULT_DELIVERED",
     to_verified  |-> "PROOF_VERIFIED", to_disputed  |-> "DISPUTED",
     to_refunded  |-> "REFUNDED"]
After ==
    [to_running   |-> "run",     to_delivered |-> "verify",
     to_verified  |-> "release", to_disputed  |-> "refund",
     to_refunded  |-> "raised"]

Init ==
    /\ LedgerInit
    /\ pc = [t \in Txs |-> "authorize"]
    /\ pending = [t \in Txs |-> None]
    /\ published = {}
    /\ receipts = {}
    /\ DisputesInit

Goto(t, position) == pc' = [pc EXCEPT ![t] = position]
At(t, position) == pc[t] = position /\ pending[t] = None
-----------------------------------------------------------------------------
(* clear() *)

\* Ledger.get_daily_spend() for the mandate's owner and agent, on one day.
get_daily_spend ==
    SumFunctionOnSet([t \in Txs |-> IF t \in transactions \cap Mandated
                                    THEN Total(t) ELSE 0], Txs)

MandateAllows(t) ==
    t \in Mandated => /\ Total(t) <= MaxPerTask
                      /\ get_daily_spend + Total(t) <= MaxDaily

\* The fee and mandate checks, then a new Transaction, registered and moved to
\* TASK_SUBMITTED while nobody else knows its id.
Submit(t) ==
    /\ At(t, "authorize")
    /\ ~FeeRefused(Policy[t], Amount[t])
    /\ MandateAllows(t)
    /\ state' = [state EXCEPT ![t] = "TASK_SUBMITTED"]
    /\ Goto(t, "hold")
    /\ UNCHANGED <<moneyVars, pending, published, receipts, disputeVars>>

\* The quote has expired, or a check above fails.
Reject(t) ==
    /\ At(t, "authorize")
    /\ Goto(t, "rejected")
    /\ UNCHANGED <<ledgerVars, pending, published, receipts, disputeVars>>

HoldFunds(t) ==
    /\ At(t, "hold")
    /\ hold(t)
    /\ Goto(t, "emit")
    /\ UNCHANGED <<pending, published, receipts, disputeVars>>

InsufficientCredit(t) ==
    /\ At(t, "hold")
    /\ ~MayHold(t)
    /\ Goto(t, "rejected")
    /\ UNCHANGED <<ledgerVars, pending, published, receipts, disputeVars>>

\* BUG, for a mutant: the history is written after the handlers.
EmitHeldLate(t) ==
    /\ At(t, "emit")
    /\ \/ published' = published \cup {t} /\ Goto(t, "to_running")
       \/ ForeignFailures /\ Goto(t, "foreign") /\ UNCHANGED published
    /\ UNCHANGED <<ledgerVars, pending, receipts, disputeVars>>

\* emit() appends to the history before it calls the handlers; what a handler
\* raises leaves clear(), outside its try, with the funds in escrow.
EmitHeld(t) ==
    /\ At(t, "emit")
    /\ published' = published \cup {t}
    /\ \/ Goto(t, "to_running")
       \/ ForeignFailures /\ Goto(t, "foreign")
    /\ UNCHANGED <<ledgerVars, pending, receipts, disputeVars>>

\* BUG, for a mutant: transition() assigns the state that it then refuses.
AssignThenCheck(t) ==
    /\ pc[t] \in DOMAIN Target /\ pending[t] = None
    /\ \/ /\ CanTransition(state[t], Target[pc[t]])
          /\ pending' = [pending EXCEPT ![t] = Target[pc[t]]]
          /\ UNCHANGED <<ledgerVars, pc>>
       \/ /\ ~CanTransition(state[t], Target[pc[t]])
          /\ WriteState(t, Target[pc[t]])
          /\ Goto(t, "raised")
          /\ UNCHANGED pending
    /\ UNCHANGED <<published, receipts, disputeVars>>

\* transition(): the check of the table ...
CheckTransition(t) ==
    /\ pc[t] \in DOMAIN Target /\ pending[t] = None
    /\ \/ /\ CanTransition(state[t], Target[pc[t]])
          /\ pending' = [pending EXCEPT ![t] = Target[pc[t]]]
          /\ UNCHANGED pc
       \/ /\ ~CanTransition(state[t], Target[pc[t]])
          /\ Goto(t, "raised")
          /\ UNCHANGED pending
    /\ UNCHANGED <<ledgerVars, published, receipts, disputeVars>>

\* ... and the assignment, whatever the state has become since.
WriteTransition(t) ==
    /\ pending[t] # None
    /\ WriteState(t, pending[t])
    /\ pending' = [pending EXCEPT ![t] = None]
    /\ Goto(t, After[pc[t]])
    /\ UNCHANGED <<published, receipts, disputeVars>>

\* BUG, for a mutant: a provider's crash leaves clear() without a refund.
RunUnguarded(t) ==
    /\ At(t, "run")
    /\ \E next \in {"to_delivered", "raised"} : Goto(t, next)
    /\ UNCHANGED <<ledgerVars, pending, published, receipts, disputeVars>>

\* run() returns a result, or raises and goes to the refund.
Run(t) ==
    /\ At(t, "run")
    /\ \E next \in {"to_delivered", "to_disputed"} : Goto(t, next)
    /\ UNCHANGED <<ledgerVars, pending, published, receipts, disputeVars>>

\* result.proof.verify(): true, false, or NotImplementedError from the proof
\* types that core.py reserves, outside any try.
VerifyProof(t) ==
    /\ At(t, "verify")
    /\ \/ \E next \in {"to_verified", "to_disputed"} : Goto(t, next)
       \/ ForeignFailures /\ Goto(t, "foreign")
    /\ UNCHANGED <<ledgerVars, pending, published, receipts, disputeVars>>

\* BUG, for a mutant: a release that finds no funds is taken for done.
ReleaseUnchecked(t) ==
    /\ At(t, "release")
    /\ \/ release(t) /\ Paid(t, "paid")
       \/ t \notin DOMAIN escrow /\ UNCHANGED <<ledgerVars, payout>>
    /\ Goto(t, "receipt")
    /\ UNCHANGED <<pending, published, receipts, opening, marked, disputes, resolving>>

\* BUG, for a mutant: SETTLED is assigned before the funds are found missing.
MarkThenTake(t) ==
    /\ At(t, "release")
    /\ \/ release(t) /\ Paid(t, "paid") /\ Goto(t, "receipt")
       \/ t \notin DOMAIN escrow /\ WriteState(t, "SETTLED") /\ Goto(t, "raised")
                                 /\ UNCHANGED payout
    /\ UNCHANGED <<pending, published, receipts, opening, marked, disputes, resolving>>

ReleaseFunds(t) ==
    /\ At(t, "release")
    /\ release(t)
    /\ Paid(t, "paid")
    /\ Goto(t, "receipt")
    /\ UNCHANGED <<pending, published, receipts, opening, marked, disputes, resolving>>

\* The automatic refund of a crashed run or a failed proof, then the check of
\* refund_escrow()'s transition(). clear() raises afterwards in any case.
RefundFunds(t) ==
    /\ At(t, "refund")
    /\ refund_escrow(t)
    /\ Paid(t, "refunded")
    /\ \/ /\ CanTransition(state[t], "REFUNDED")
          /\ pending' = [pending EXCEPT ![t] = "REFUNDED"]
          /\ Goto(t, "to_refunded")
       \/ /\ ~CanTransition(state[t], "REFUNDED")
          /\ Goto(t, "raised")
          /\ UNCHANGED pending
    /\ UNCHANGED <<published, receipts, opening, marked, disputes, resolving>>

\* release() or refund_escrow() raises "no funds held for transaction".
NoFundsHeld(t) ==
    /\ pc[t] \in {"release", "refund"} /\ pending[t] = None
    /\ t \notin DOMAIN escrow
    /\ Goto(t, "raised")
    /\ UNCHANGED <<ledgerVars, pending, published, receipts, disputeVars>>

\* The receipt is stored before RECEIPT_CREATED is emitted, so a handler that
\* raises changes nothing here.
IssueReceipt(t) ==
    /\ At(t, "receipt")
    /\ receipts' = receipts \cup {t}
    /\ Goto(t, "returned")
    /\ UNCHANGED <<ledgerVars, pending, published, disputeVars>>
-----------------------------------------------------------------------------
ClearStep(t) ==
    \/ Submit(t) \/ Reject(t) \/ HoldFunds(t) \/ InsufficientCredit(t)
    \/ EmitHeld(t) \/ CheckTransition(t) \/ WriteTransition(t)
    \/ Run(t) \/ VerifyProof(t)
    \/ ReleaseFunds(t) \/ RefundFunds(t) \/ NoFundsHeld(t) \/ IssueReceipt(t)

\* Callers know the transactions that a HELD event has named.
DisputeCall(d, t) ==
    /\ \/ t \in published /\ CheckDispute(d, t)
       \/ WriteDispute(d, t) \/ RecordDispute(d, t)
       \/ ResolveDispute(d, t) \/ WriteOutcome(d, t)
    /\ UNCHANGED callVars

Next ==
    \E t \in Txs :
        \/ ClearStep(t)
        \/ \E d \in Disputes : DisputeCall(d, t)

Spec == Init /\ [][Next]_vars

\* Every clear() thread keeps running, and a dispute call past its first step
\* completes; nobody is obliged to open or to resolve a dispute.
Fairness ==
    /\ \A t \in Txs : WF_vars(ClearStep(t))
    /\ \A t \in Txs, d \in Disputes :
          WF_vars(/\ WriteDispute(d, t) \/ RecordDispute(d, t) \/ WriteOutcome(d, t)
                  /\ UNCHANGED callVars)

FairSpec == Spec /\ Fairness
-----------------------------------------------------------------------------
(* Properties *)

\* The shape of the state; and no balance ever goes below zero, however many
\* clear() calls on one account overlap (tests/test_security.py).
TypeOK ==
    /\ LedgerTypeOK
    /\ pc \in [Txs -> Position]
    /\ pending \in [Txs -> TransactionState \cup {None}]
    /\ published \subseteq Txs /\ receipts \subseteq Txs
    /\ DisputesTypeOK

\* Funds are in escrow, in full, exactly from hold() until one payment out of
\* it. No race of clear(), open_dispute() and resolve_dispute() pays from an
\* escrow it does not find, or leaves behind an escrow that was paid.
EscrowUntilPaid ==
    /\ HeldInFull
    /\ \A t \in Txs :
          /\ t \in DOMAIN escrow <=> pc[t] \notin BeforeHold /\ payout[t] = None
          /\ pc[t] \in BeforeHold => payout[t] = None

\* A state that names an outcome is true of the money, although states are
\* written by several threads and release() skips the table. (The converse
\* fails: a late write may cover REFUNDED.)
StateTellsPayout ==
    \A t \in Txs :
        /\ state[t] = "REFUNDED" => payout[t] = "refunded"
        /\ state[t] = "SLASHED" => payout[t] = "slashed"
        /\ state[t] = "SETTLED" => payout[t] \in {"paid", "split"}
        /\ t \in transactions <=> payout[t] \in {"paid", "split"}

\* What a dispute's resolution says is what happened to the funds.
ResolutionTellsPayout ==
    \A d \in Disputes, t \in Txs :
        Resolved(d, t) => payout[t] = PayoutOf[disputes[d].resolution]

\* One transaction is decided once: either clear() issued its receipt or one
\* of its disputes was resolved, never both and never two of them.
DecidedOnce ==
    \A t \in Txs :
        /\ t \in receipts => /\ payout[t] = "paid"
                             /\ \A d \in Disputes : ~Resolved(d, t)
        /\ \A d, e \in Disputes : Resolved(d, t) /\ Resolved(e, t) => d = e

\* A clear() that ended in a ProtocolError has left no funds in escrow that
\* only it could move: some dispute is open on them, or about to be.
NothingStranded ==
    \A t \in DOMAIN escrow :
        pc[t] = "raised" => Contested(t)

\* However a call was cut off, by an exception of a handler, a verifier or its
\* own, and whoever wrote the state last: once the HELD event is in the history,
\* funds in escrow are within reach of a dispute, which is all that can still
\* move them.
HeldFundsDisputable ==
    \A t \in DOMAIN escrow :
        pc[t] # "emit" =>
            t \in published /\ (state[t] = "DISPUTED" \/ CanTransition(state[t], "DISPUTED"))

\* Once a transaction's funds have been paid out, they are never held again
\* and never paid again.
PaidForGood ==
    [][\A t \in Txs :
          payout[t] # None => payout'[t] = payout[t] /\ t \notin DOMAIN escrow']_vars

\* refund_escrow() and slash_escrow() move the funds before transition() may refuse
\* (clearing.py:178, 190). Once clear() has raised, it never does: a refund or a
\* slash of what the call has left is on its way to its state and its resolution.
RaisedCallsResolve ==
    [][\A t \in Txs :
          /\ pc[t] = "raised" /\ payout[t] = None
          /\ payout'[t] \in {"refunded", "slashed"}
          => \E d \in DOMAIN disputes :
                disputes[d].transaction_id = t /\ resolving'[d] # None]_vars

\* Held funds move on: they leave escrow, or end up under a dispute, unless an
\* exception that is not the service's own cut clear() off.
HeldFundsMove ==
    \A t \in Txs :
        t \in DOMAIN escrow ~>
            \/ t \notin DOMAIN escrow
            \/ pc[t] = "foreign"
            \/ \E d \in Disputes : Unresolved(d, t)

\* Escrow, threads and disputes together keep the promise of AtomicPayments:
\* an account's wealth is its balance and what is in escrow for it.
wealth ==
    [a \in Accounts |->
        balances[a] + SumFunctionOnSet([t \in Txs |-> IF Sender[t] = a THEN ledger_held(t)
                                                                       ELSE 0], Txs)]
Payments == INSTANCE AtomicPayments WITH pool <- fee_pool, outcome <- payout
ImplementsAtomicPayments == Payments!Spec

\* clearing.py:412 says that escrow-stage disputes freeze funds: clear() does
\* not release an escrow that is under an open dispute.
DisputeFreezesFunds ==
    [][\A t \in Txs, d \in Disputes : ReleaseFunds(t) => ~Unresolved(d, t)]_vars

\* SPEC.md:160 bounds the current daily spend plus the new charge by max_daily.
DailyBudgetKept == get_daily_spend <= MaxDaily

\* SPEC.md:218 says how a settled transaction gets its refund: it enters
\* DISPUTED and then resolves to one of three states. Resolvers are fair here.
ResolverSpec ==
    FairSpec /\ \A t \in Txs, d \in Disputes :
                    WF_vars(ResolveDispute(d, t) /\ UNCHANGED callVars)
SettledDisputeResolves ==
    \A t \in Txs :
        t \in receipts /\ state[t] = "DISPUTED"
            ~> state[t] \in {"REFUNDED", "SLASHED", "SETTLED"}
=============================================================================
