------------------------ MODULE ClearingServiceProofs ------------------------
(***************************************************************************)
(* The clearing service for any number of clear() calls and disputes: its  *)
(* threads only ever do what the escrow ledger allows, so the ledger's     *)
(* conservation of credits is theirs; and the invariants that tie escrow,  *)
(* transaction states, receipts and resolutions together. Then the service *)
(* where it is hosted: what the gateway's saves and restarts keep, and what*)
(* the handlers on its event bus count, whichever way they interleave.     *)
(***************************************************************************)
EXTENDS Hosting, EscrowProofs

\* A transition() between its check and its write is the one of its position.
PendingIsTarget ==
    \A t \in Txs :
        pending[t] # None => pc[t] \in DOMAIN Target /\ pending[t] = Target[pc[t]]

TypeInv == TypeOK /\ HeldInFull /\ PendingIsTarget

\* The positions with a transition() call, what it writes and where it leads.
LEMMA TransitionTables ==
    /\ DOMAIN Target = {"to_running", "to_delivered", "to_verified", "to_disputed",
                       "to_refunded"}
    /\ \A q \in DOMAIN Target :
          /\ q \in Position \ BeforeHold
          /\ Target[q] \in TransactionState \ {"SLASHED", "SETTLED"}
          /\ Target[q] # None
          /\ After[q] \in Position \ BeforeHold
          /\ After[q] \notin DOMAIN Target
BY DEF Target, After, Position, BeforeHold, TransactionState, None

LEMMA DisputeCallIsStep ==
    ASSUME NEW t \in Txs, NEW d \in Disputes, DisputeCall(d, t)
    PROVE  DisputeStep(d, t) /\ UNCHANGED callVars
BY DEF DisputeCall, DisputeStep, OpeningStep

\* Every step of a service thread is a ledger method, a write of a state, or
\* no step of the ledger at all.
LEMMA ServiceStepIsLedgerStep ==
    ASSUME TypeInv, [Next]_vars
    PROVE  [LedgerNext]_ledgerVars
<1>1. ASSUME NEW t \in Txs, ClearStep(t) PROVE [LedgerNext]_ledgerVars
  <2>1. CASE Submit(t)
    <3>1. WriteState(t, "TASK_SUBMITTED") /\ "TASK_SUBMITTED" \in TransactionState
      BY <2>1 DEF Submit, WriteState, TransactionState
    <3> QED BY <3>1 DEF LedgerNext
  <2>2. CASE HoldFunds(t)
    BY <2>2 DEF HoldFunds, LedgerNext
  <2>3. CASE WriteTransition(t)
    <3>1. pending[t] \in TransactionState /\ WriteState(t, pending[t])
      BY <2>3 DEF WriteTransition, TypeInv, TypeOK
    <3> QED BY <3>1 DEF LedgerNext
  <2>4. CASE ReleaseFunds(t)
    BY <2>4 DEF ReleaseFunds, LedgerNext
  <2>5. CASE RefundFunds(t)
    BY <2>5 DEF RefundFunds, LedgerNext
  <2>6. CASE \/ Reject(t) \/ InsufficientCredit(t) \/ EmitHeld(t) \/ CheckTransition(t)
             \/ Run(t) \/ VerifyProof(t) \/ NoFundsHeld(t) \/ IssueReceipt(t)
    BY <2>6 DEF Reject, InsufficientCredit, EmitHeld, CheckTransition, Run,
                VerifyProof, NoFundsHeld, IssueReceipt
  <2> QED BY <1>1, <2>1, <2>2, <2>3, <2>4, <2>5, <2>6 DEF ClearStep
<1>2. ASSUME NEW t \in Txs, NEW d \in Disputes, DisputeCall(d, t)
      PROVE  [LedgerNext]_ledgerVars
  BY <1>2, DisputeCallIsStep, DisputeStepIsLedgerStep DEF TypeInv, TypeOK
<1>3. ASSUME UNCHANGED vars PROVE UNCHANGED ledgerVars
  BY <1>3 DEF vars
<1> QED BY <1>1, <1>2, <1>3 DEF Next

LEMMA InitTypeInv == Init => TypeInv
<1> SUFFICES ASSUME Init PROVE TypeInv
  OBVIOUS
<1>1. LedgerTypeOK /\ HeldInFull
  BY LedgerInitInv DEF Init, LedgerInv
<1> QED BY <1>1 DEF Init, DisputesInit, TypeInv, TypeOK, DisputesTypeOK, PendingIsTarget,
            Position

LEMMA StepTypeInv == TypeInv /\ [Next]_vars => TypeInv'
<1> SUFFICES ASSUME TypeInv, [Next]_vars PROVE TypeInv'
  OBVIOUS
<1>0. (LedgerTypeOK /\ HeldInFull)'
  BY ServiceStepIsLedgerStep, LedgerStepInv DEF TypeInv, TypeOK, LedgerInv
<1> DEFINE ThreadTypes ==
        /\ pc \in [Txs -> Position]
        /\ pending \in [Txs -> TransactionState \cup {None}]
        /\ published \subseteq Txs /\ receipts \subseteq Txs
        /\ PendingIsTarget
<1>1. DisputesTypeOK /\ ThreadTypes
  BY DEF TypeInv, TypeOK
<1>2. ASSUME NEW t \in Txs, ClearStep(t) PROVE (DisputesTypeOK /\ ThreadTypes)'
  <2>0. DisputesTypeOK'
    <3>1. \/ UNCHANGED disputeVars
          \/ /\ UNCHANGED <<opening, marked, disputes, resolving>>
             /\ \E how \in Payouts : Paid(t, how)
      BY <1>2 DEF ClearStep, Submit, Reject, HoldFunds, InsufficientCredit, EmitHeld,
          CheckTransition, WriteTransition, Run, VerifyProof, ReleaseFunds, RefundFunds,
          NoFundsHeld, IssueReceipt, Payouts
    <3> QED BY <1>1, <3>1 DEF disputeVars, DisputesTypeOK, Paid
  <2> USE <1>1
  <2>1. ASSUME Submit(t) PROVE ThreadTypes'
    BY <2>1 DEF Submit, At, Goto, Position, PendingIsTarget
  <2>2. ASSUME Reject(t) PROVE ThreadTypes'
    BY <2>2 DEF Reject, At, Goto, Position, PendingIsTarget
  <2>3. ASSUME HoldFunds(t) PROVE ThreadTypes'
    BY <2>3 DEF HoldFunds, At, Goto, Position, PendingIsTarget
  <2>4. ASSUME InsufficientCredit(t) PROVE ThreadTypes'
    BY <2>4 DEF InsufficientCredit, At, Goto, Position, PendingIsTarget
  <2>5. ASSUME EmitHeld(t) PROVE ThreadTypes'
    BY <2>5 DEF EmitHeld, At, Goto, Position, PendingIsTarget
  <2>6. ASSUME CheckTransition(t) PROVE ThreadTypes'
    BY <2>6, TransitionTables DEF CheckTransition, Goto, Position, PendingIsTarget
  <2>7. ASSUME WriteTransition(t) PROVE ThreadTypes'
    <3>1. pc[t] \in DOMAIN Target /\ After[pc[t]] \in Position
      BY <2>7, TransitionTables DEF WriteTransition, PendingIsTarget
    <3> QED BY <2>7, <3>1 DEF WriteTransition, Goto, PendingIsTarget
  <2>8. ASSUME Run(t) PROVE ThreadTypes'
    BY <2>8 DEF Run, At, Goto, Position, PendingIsTarget
  <2>9. ASSUME VerifyProof(t) PROVE ThreadTypes'
    BY <2>9 DEF VerifyProof, At, Goto, Position, PendingIsTarget
  <2>10. ASSUME ReleaseFunds(t) PROVE ThreadTypes'
    BY <2>10 DEF ReleaseFunds, At, Goto, Paid, Position, Payouts, PendingIsTarget
  <2>11. ASSUME RefundFunds(t) PROVE ThreadTypes'
    BY <2>11, TransitionTables
       DEF RefundFunds, At, Goto, Position, PendingIsTarget, Target
  <2>12. ASSUME NoFundsHeld(t) PROVE ThreadTypes'
    BY <2>12 DEF NoFundsHeld, Goto, Position, PendingIsTarget
  <2>13. ASSUME IssueReceipt(t) PROVE ThreadTypes'
    BY <2>13 DEF IssueReceipt, At, Goto, Position, PendingIsTarget
  <2> QED BY <1>2, <2>0, <2>1, <2>2, <2>3, <2>4, <2>5, <2>6, <2>7, <2>8, <2>9, <2>10,
             <2>11, <2>12, <2>13 DEF ClearStep
<1>3. ASSUME NEW t \in Txs, NEW d \in Disputes, DisputeCall(d, t)
      PROVE  (DisputesTypeOK /\ ThreadTypes)'
  <2>1. DisputesTypeOK' /\ UNCHANGED callVars
    BY <1>1, <1>3, DisputeCallIsStep, DisputeStepType
  <2> QED BY <1>1, <2>1 DEF callVars, PendingIsTarget
<1>4. ASSUME UNCHANGED vars PROVE (DisputesTypeOK /\ ThreadTypes)'
  BY <1>1, <1>4 DEF vars, disputeVars, callVars, PendingIsTarget, DisputesTypeOK
<1>5. (DisputesTypeOK /\ ThreadTypes)'
  BY <1>2, <1>3, <1>4 DEF Next
<1> QED BY <1>0, <1>5 DEF TypeInv, TypeOK

LEMMA AlwaysTypeInv == Spec => []TypeInv
BY InitTypeInv, StepTypeInv, PTL DEF Spec

\* The state keeps its types, and no balance goes below zero, however many
\* clear() calls overlap and whatever shares a split is asked for.
THEOREM TypeCorrect == Spec => []TypeOK
<1>1. TypeInv => TypeOK
  BY DEF TypeInv
<1> QED BY <1>1, AlwaysTypeInv, PTL

\* The service implements the ledger: what is proved of the ledger under
\* arbitrary callers holds of the service.
THEOREM ServiceImplementsLedger == Spec => LedgerSpec
<1>1. Init => LedgerInit
  BY DEF Init
<1>2. TypeInv /\ [Next]_vars => [LedgerNext]_ledgerVars
  BY ServiceStepIsLedgerStep
<1> QED BY <1>1, <1>2, AlwaysTypeInv, PTL DEF Spec, LedgerSpec

\* No interleaving of clearing and disputes creates or destroys a credit, as
\* long as no split is asked for above its price.
THEOREM ServiceZeroSum ==
    ASSUME SplitsInRange
    PROVE  Spec => []ZeroSum
BY ServiceImplementsLedger, LedgerZeroSum, PTL
-----------------------------------------------------------------------------
(* Escrow and payouts *)

\* The step that puts a transaction's funds into escrow.
Holds(t) ==
    /\ pc[t] = "hold" /\ pc'[t] = "emit"
    /\ t \notin DOMAIN escrow /\ t \in DOMAIN escrow' /\ payout'[t] = payout[t]

\* Three kinds of steps: one transaction's funds are held, one transaction's
\* funds are paid out, or no escrow and no payout changes. A thread crosses
\* the point of hold() only by holding.
LEMMA StepKinds ==
    ASSUME TypeInv, [Next]_vars, NEW u \in Txs
    PROVE  \/ Holds(u)
           \/ PaysOut(u) /\ (pc'[u] \in BeforeHold <=> pc[u] \in BeforeHold)
           \/ Untouched(u) /\ (pc'[u] \in BeforeHold <=> pc[u] \in BeforeHold)
<1> DEFINE Keeps == pc'[u] \in BeforeHold <=> pc[u] \in BeforeHold
<1>0. pc \in [Txs -> Position] /\ payout \in [Txs -> Payouts \cup {None}]
  BY DEF TypeInv, TypeOK, DisputesTypeOK
<1>1. ASSUME NEW t \in Txs, ClearStep(t)
      PROVE  Holds(u) \/ (PaysOut(u) /\ Keeps) \/ (Untouched(u) /\ Keeps)
  <2>1. CASE \/ Submit(t) \/ Reject(t) \/ InsufficientCredit(t) \/ EmitHeld(t)
             \/ Run(t) \/ VerifyProof(t) \/ NoFundsHeld(t) \/ IssueReceipt(t)
    BY <1>0, <2>1 DEF Submit, Reject, InsufficientCredit, EmitHeld, Run, VerifyProof,
        NoFundsHeld, IssueReceipt, At, Goto, BeforeHold, Untouched, ledgerVars, moneyVars,
        disputeVars
  <2>2. CASE HoldFunds(t)
    <3>1. DOMAIN escrow' = DOMAIN escrow \cup {t} /\ t \notin DOMAIN escrow
      BY <2>2 DEF HoldFunds, hold, MayHold
    <3> QED BY <1>0, <2>2, <3>1 DEF HoldFunds, At, Goto, BeforeHold, Untouched, Holds,
            disputeVars
  <2>3. CASE CheckTransition(t)
    BY <1>0, <2>3, TransitionTables 
       DEF CheckTransition, Goto, BeforeHold, Untouched, ledgerVars, disputeVars
  <2>4. CASE WriteTransition(t)
    <3>1. pc[t] \in DOMAIN Target
      BY <2>4 DEF WriteTransition, TypeInv, PendingIsTarget
    <3> QED BY <1>0, <2>4, <3>1, TransitionTables
            DEF WriteTransition, WriteState, moneyVars, Goto, Untouched, disputeVars
  <2>5. CASE ReleaseFunds(t) \/ RefundFunds(t)
    <3>1. /\ Take(t) /\ \E how \in Payouts : Paid(t, how)
          /\ pc[t] \in {"release", "refund"}
          /\ \E q \in {"receipt", "raised", "to_refunded"} : Goto(t, q)
      BY <2>5 DEF ReleaseFunds, RefundFunds, release, refund_escrow, Payouts, At
    <3>2. PaysOut(t) /\ \A v \in Txs \ {t} : Untouched(v)
      BY <3>1, TakeIsLocal DEF TypeInv, TypeOK
    <3>3. Keeps
      BY <1>0, <3>1 DEF Goto, BeforeHold
    <3> QED BY <3>2, <3>3
  <2> QED BY <1>1, <2>1, <2>2, <2>3, <2>4, <2>5 DEF ClearStep
<1>2. ASSUME NEW t \in Txs, NEW d \in Disputes, DisputeCall(d, t)
      PROVE  (PaysOut(u) /\ Keeps) \/ (Untouched(u) /\ Keeps)
  <2>1. (PaysOut(u) \/ Untouched(u)) /\ UNCHANGED callVars
    BY <1>2, DisputeCallIsStep, DisputeStepKinds DEF TypeInv, TypeOK
  <2> QED BY <2>1 DEF callVars
<1>3. ASSUME UNCHANGED vars PROVE Untouched(u) /\ Keeps
  BY <1>3 DEF vars, disputeVars, callVars, ledgerVars, Untouched
<1> QED BY <1>1, <1>2, <1>3 DEF Next

LEMMA StepEscrowUntilPaid == TypeInv /\ EscrowUntilPaid /\ [Next]_vars => EscrowUntilPaid'
<1> SUFFICES ASSUME TypeInv, EscrowUntilPaid, [Next]_vars PROVE EscrowUntilPaid'
  OBVIOUS
<1>1. HeldInFull'
  BY StepTypeInv DEF TypeInv
<1>2. ASSUME NEW u \in Txs
      PROVE  /\ u \in DOMAIN escrow' <=> pc'[u] \notin BeforeHold /\ payout'[u] = None
             /\ pc'[u] \in BeforeHold => payout'[u] = None
  <2>1. /\ u \in DOMAIN escrow <=> pc[u] \notin BeforeHold /\ payout[u] = None
        /\ pc[u] \in BeforeHold => payout[u] = None
    BY DEF EscrowUntilPaid
  <2>2. CASE Holds(u)
    BY <2>1, <2>2 DEF Holds, BeforeHold
  <2>3. CASE PaysOut(u) /\ (pc'[u] \in BeforeHold <=> pc[u] \in BeforeHold)
    BY <2>1, <2>3 DEF PaysOut
  <2>4. CASE Untouched(u) /\ (pc'[u] \in BeforeHold <=> pc[u] \in BeforeHold)
    BY <2>1, <2>4 DEF Untouched
  <2> QED BY <2>2, <2>3, <2>4, StepKinds
<1> QED BY <1>1, <1>2 DEF EscrowUntilPaid

LEMMA InitEscrowUntilPaid == Init => EscrowUntilPaid
BY InitTypeInv DEF Init, LedgerInit, DisputesInit, EscrowUntilPaid, BeforeHold,
    TypeInv

\* Funds are in escrow, in full, exactly from hold() to one payment, in every
\* interleaving of any number of clear() calls and disputes.
THEOREM EscrowHeldUntilPaid == Spec => []EscrowUntilPaid
BY InitEscrowUntilPaid, StepEscrowUntilPaid, AlwaysTypeInv, PTL DEF Spec

\* From one step to the next, and as an action property.
LEMMA StepPayouts ==
    ASSUME TypeInv, EscrowUntilPaid, [Next]_vars
    PROVE  /\ PaidNotHeld /\ PayoutsStay
           /\ \A u \in Txs : payout[u] # None => u \notin DOMAIN escrow'
<1> SUFFICES ASSUME NEW u \in Txs, payout[u] # None
             PROVE  /\ u \notin DOMAIN escrow
                    /\ payout'[u] = payout[u] /\ u \notin DOMAIN escrow'
  BY DEF PaidNotHeld, PayoutsStay
<1>1. u \notin DOMAIN escrow /\ pc[u] \notin BeforeHold
  BY DEF EscrowUntilPaid
<1>2. ~PaysOut(u) /\ ~Holds(u)
  BY <1>1 DEF PaysOut, Holds, BeforeHold
<1> QED BY <1>1, <1>2, StepKinds DEF Untouched

\* A payment out of escrow is never repeated, undone or followed by a new hold.
THEOREM NeverPaidTwice == Spec => PaidForGood
<1>1. TypeInv /\ EscrowUntilPaid /\ [Next]_vars =>
        [\A t \in Txs : payout[t] # None =>
            payout'[t] = payout[t] /\ t \notin DOMAIN escrow']_vars
  BY StepPayouts DEF PayoutsStay
<1> QED BY <1>1, AlwaysTypeInv, EscrowHeldUntilPaid, PTL DEF Spec, PaidForGood
-----------------------------------------------------------------------------
(* Decisions *)

\* No dispute has decided the transaction.
NoDecision(t) == \A d \in DOMAIN disputes : Subject(d) = t => Decision(d) = None

\* Where a call stands tells the payout: a refund of its own, or a payment
\* that no dispute has decided.
CallsTell ==
    \A t \in Txs :
        /\ pc[t] = "to_refunded" => payout[t] = "refunded"
        /\ pc[t] \in {"receipt", "returned"} => payout[t] = "paid" /\ NoDecision(t)
        /\ t \in receipts => pc[t] = "returned"

DecisionInv == EscrowUntilPaid /\ DisputeInv /\ CallsTell

\* Funds in escrow are funds no dispute has decided.
LEMMA HeldUndecided ==
    ASSUME TypeInv, EscrowUntilPaid, DisputeInv, NEW t \in Txs, payout[t] = None
    PROVE  NoDecision(t)
<1>1. \A d \in DOMAIN disputes : Decision(d) # None => Decision(d) \in Resolution
  <2>1. ASSUME NEW d \in DOMAIN disputes, Decision(d) # None
        PROVE  Decision(d) \in Resolution
    <3>1. /\ disputes[d] \in [transaction_id : Txs, resolution : Resolution \cup {None}]
          /\ resolving[d] \in DOMAIN Outcome \cup {None}
      BY DEF TypeInv, TypeOK, DisputesTypeOK
    <3> QED BY <2>1, <3>1 DEF Decision, Outcome, Resolution
  <2> QED BY <2>1
<1> QED BY <1>1, PayoutOfType DEF NoDecision, DisputeInv, DecisionsTrue

\* The steps of a call leave the disputes alone.
LEMMA ClearKeepsDisputes ==
    ASSUME NEW t \in Txs, ClearStep(t)
    PROVE  UNCHANGED <<opening, marked, disputes, resolving>>
BY DEF ClearStep, Submit, Reject, HoldFunds, InsufficientCredit, EmitHeld, CheckTransition,
       WriteTransition, Run, VerifyProof, ReleaseFunds, RefundFunds, NoFundsHeld,
       IssueReceipt, disputeVars

LEMMA StepDisputeInv ==
    ASSUME TypeInv, EscrowUntilPaid, DisputeInv, [Next]_vars
    PROVE  DisputeInv'
<1>1. PaidNotHeld /\ PayoutsStay /\ DisputesTypeOK
  BY StepPayouts DEF TypeInv, TypeOK
<1>2. ASSUME NEW t \in Txs, ClearStep(t) PROVE DisputeInv'
  BY <1>1, <1>2, ClearKeepsDisputes, OtherStepInv
<1>3. ASSUME NEW t \in Txs, NEW d \in Disputes, DisputeCall(d, t) PROVE DisputeInv'
  BY <1>1, <1>3, DisputeCallIsStep, DisputeStepInv DEF PaidNotHeld
<1>4. ASSUME UNCHANGED vars PROVE DisputeInv'
  BY <1>1, <1>4, OtherStepInv DEF vars, disputeVars
<1> QED BY <1>2, <1>3, <1>4 DEF Next

\* Paid transactions are not decided by a later step of a dispute.
LEMMA NoDecisionStays ==
    ASSUME TypeInv, EscrowUntilPaid, DisputeInv, NEW t \in Txs, NEW d \in Disputes,
           DisputeCall(d, t), NEW u \in Txs, payout[u] # None, NoDecision(u)
    PROVE  NoDecision(u)'
<1>1. PaidNotHeld /\ DisputesTypeOK
  BY DEF PaidNotHeld, EscrowUntilPaid, TypeInv, TypeOK
<1>2. \A e \in DOMAIN disputes' :
         Kept(e) \/ Decision(e)' = None \/ (e = d /\ JustDecided(e, t))
  BY <1>1, DisputeCallIsStep, DecisionShape DEF PaidNotHeld
<1>3. u \notin DOMAIN escrow
  BY <1>1 DEF PaidNotHeld
<1> QED BY <1>2, <1>3 DEF NoDecision, Kept, JustDecided

LEMMA StepCallsTell ==
    ASSUME TypeInv, EscrowUntilPaid, DisputeInv, CallsTell, [Next]_vars
    PROVE  CallsTell'
<1>0. /\ pc \in [Txs -> Position] /\ PayoutsStay
      /\ payout \in [Txs -> Payouts \cup {None}]
  BY StepPayouts DEF TypeInv, TypeOK, DisputesTypeOK
<1>1. ASSUME NEW t \in Txs, ClearStep(t) PROVE CallsTell'
  <2>1. \A u \in Txs : NoDecision(u)' <=> NoDecision(u)
    BY <1>1, ClearKeepsDisputes DEF NoDecision, Decision, Subject
  <2>2. \A u \in Txs \ {t} : pc'[u] = pc[u] /\ (u \in receipts' <=> u \in receipts)
    BY <1>0, <1>1 DEF ClearStep, Submit, Reject, HoldFunds, InsufficientCredit, EmitHeld,
          CheckTransition, WriteTransition, Run, VerifyProof, ReleaseFunds, RefundFunds,
          NoFundsHeld, IssueReceipt, Goto
  <2>3. \A u \in Txs \ {t} :
           /\ pc'[u] = "to_refunded" => payout'[u] = "refunded"
           /\ pc'[u] \in {"receipt", "returned"} => payout'[u] = "paid" /\ NoDecision(u)'
           /\ u \in receipts' => pc'[u] = "returned"
    BY <1>0, <2>1, <2>2 DEF CallsTell, PayoutsStay, None
  <2>4. /\ pc'[t] = "to_refunded" => payout'[t] = "refunded"
        /\ pc'[t] \in {"receipt", "returned"} => payout'[t] = "paid" /\ NoDecision(t)'
        /\ t \in receipts' => pc'[t] = "returned"
    <3>1. CASE \/ Submit(t) \/ Reject(t) \/ HoldFunds(t) \/ InsufficientCredit(t)
               \/ EmitHeld(t) \/ Run(t) \/ VerifyProof(t) \/ NoFundsHeld(t)
      BY <1>0, <3>1 DEF Submit, Reject, HoldFunds, InsufficientCredit, EmitHeld, Run,
          VerifyProof, NoFundsHeld, At, Goto, CallsTell
    <3>2. CASE CheckTransition(t)
      BY <1>0, <3>2, TransitionTables
         DEF CheckTransition, Goto, CallsTell, PayoutsStay, None
    <3>3. CASE WriteTransition(t)
      <4>1. pc[t] \in DOMAIN Target
        BY <3>3 DEF WriteTransition, TypeInv, PendingIsTarget
      <4>2. pc'[t] = After[pc[t]] /\ UNCHANGED receipts
        BY <1>0, <3>3 DEF WriteTransition, Goto
      <4>3. pc'[t] \notin {"to_refunded", "receipt", "returned"}
        BY <4>1, <4>2 DEF Target, After
      <4> QED BY <4>1, <4>2, <4>3, TransitionTables DEF CallsTell
    <3>4. CASE ReleaseFunds(t)
      <4>1. payout[t] = None /\ payout'[t] = "paid" /\ pc'[t] = "receipt"
        BY <1>0, <3>4 DEF ReleaseFunds, release, Take, Paid, Goto, EscrowUntilPaid
      <4>2. t \notin receipts'
        BY <3>4 DEF ReleaseFunds, At, CallsTell
      <4> QED BY <2>1, <4>1, <4>2, HeldUndecided
    <3>5. CASE RefundFunds(t)
      BY <1>0, <3>5 DEF RefundFunds, At, Goto, Paid, CallsTell
    <3>6. CASE IssueReceipt(t)
      BY <1>0, <2>1, <3>6 DEF IssueReceipt, At, Goto, CallsTell, disputeVars
    <3> QED BY <1>1, <3>1, <3>2, <3>3, <3>4, <3>5, <3>6 DEF ClearStep
  <2> QED BY <2>3, <2>4 DEF CallsTell
<1>2. ASSUME NEW t \in Txs, NEW d \in Disputes, DisputeCall(d, t) PROVE CallsTell'
  <2>1. UNCHANGED <<pc, receipts>>
    BY <1>2, DisputeCallIsStep DEF callVars
  <2> QED BY <1>2, <1>0, <2>1, NoDecisionStays DEF CallsTell, PayoutsStay, None
<1>3. ASSUME UNCHANGED vars PROVE CallsTell'
  BY <1>3 DEF vars, disputeVars, callVars, CallsTell, NoDecision, Decision, Subject
<1> QED BY <1>1, <1>2, <1>3 DEF Next

LEMMA InitDecisionInv == Init => DecisionInv
<1> SUFFICES ASSUME Init PROVE DecisionInv
  OBVIOUS
<1>1. EscrowUntilPaid /\ DisputeInv
  BY InitEscrowUntilPaid, DisputesInitInv DEF Init
<1> QED BY <1>1 DEF Init, DecisionInv, CallsTell

LEMMA AlwaysDecisionInv == Spec => []DecisionInv
<1>1. TypeInv /\ DecisionInv /\ [Next]_vars => DecisionInv'
  BY StepEscrowUntilPaid, StepDisputeInv, StepCallsTell DEF DecisionInv
<1> QED BY <1>1, InitDecisionInv, AlwaysTypeInv, PTL DEF Spec

\* What a dispute's resolution says is what happened to the funds, whoever
\* raced for them.
THEOREM ResolutionsAreTrue == Spec => []ResolutionTellsPayout
<1>1. TypeInv /\ DecisionInv => ResolutionTellsPayout
  BY DEF DecisionInv, DisputeInv, WrittenOnce, DecisionsTrue, Decision, Subject,
         ResolutionTellsPayout, Resolved
<1> QED BY <1>1, AlwaysTypeInv, AlwaysDecisionInv, PTL

\* One transaction has one decision: a receipt or one resolved dispute.
THEOREM OneDecision == Spec => []DecidedOnce
<1>1. TypeInv /\ DecisionInv => DecidedOnce
  <2> SUFFICES ASSUME TypeInv, DecisionInv, NEW t \in Txs
               PROVE  /\ t \in receipts => /\ payout[t] = "paid"
                                           /\ \A d \in Disputes : ~Resolved(d, t)
                      /\ \A d, e \in Disputes : Resolved(d, t) /\ Resolved(e, t) => d = e
    BY DEF DecidedOnce
  <2>1. \A d \in Disputes : Resolved(d, t) =>
           d \in DOMAIN disputes /\ Subject(d) = t /\ Decision(d) # None
    BY DEF Resolved, Decision, Subject
  <2> QED BY <2>1 DEF DecisionInv, CallsTell, NoDecision, DisputeInv, DecisionsOnce
<1> QED BY <1>1, AlwaysTypeInv, AlwaysDecisionInv, PTL
-----------------------------------------------------------------------------
(* States *)

\* Every step writes a state the money agrees with, pays, or takes back.
LEMMA StateStep ==
    ASSUME TypeInv, DecisionInv, [Next]_vars, NEW u \in Txs
    PROVE  Writes(u) \/ Pays(u) \/ TakesBack(u)
<1>0. /\ state \in [Txs -> TransactionState] /\ payout \in [Txs -> Payouts \cup {None}]
      /\ LedgerTypeOK /\ DisputesTypeOK /\ DisputeInv
  BY DEF TypeInv, TypeOK, LedgerTypeOK, DisputesTypeOK, DecisionInv
<1>1. ASSUME NEW t \in Txs, ClearStep(t) PROVE Writes(u) \/ Pays(u) \/ TakesBack(u)
  <2>1. CASE \/ Reject(t) \/ InsufficientCredit(t) \/ EmitHeld(t) \/ CheckTransition(t)
             \/ Run(t) \/ VerifyProof(t) \/ NoFundsHeld(t) \/ IssueReceipt(t)
    BY <2>1 DEF Reject, InsufficientCredit, EmitHeld, CheckTransition, Run, VerifyProof,
        NoFundsHeld, IssueReceipt, ledgerVars, disputeVars, Writes
  <2>2. CASE Submit(t)
    BY <1>0, <2>2 DEF Submit, moneyVars, disputeVars, Writes, Final
  <2>3. CASE HoldFunds(t)
    BY <2>3 DEF HoldFunds, hold, disputeVars, Writes
  <2>4. CASE WriteTransition(t)
    <3>1. /\ pc[t] \in DOMAIN Target /\ pending[t] = Target[pc[t]]
          /\ state' = [state EXCEPT ![t] = pending[t]]
          /\ UNCHANGED <<transactions, payout>>
      BY <2>4 DEF WriteTransition, WriteState, moneyVars, disputeVars, TypeInv,
                  PendingIsTarget
    <3>2. pending[t] \in Final => pending[t] = "REFUNDED" /\ pc[t] = "to_refunded"
      BY <3>1 DEF Target, Final
    <3>3. pc[t] = "to_refunded" => payout[t] = "refunded"
      BY DEF DecisionInv, CallsTell
    <3> QED BY <1>0, <3>1, <3>2, <3>3 DEF Writes
  <2>5. CASE ReleaseFunds(t)
    BY <1>0, <2>5 DEF ReleaseFunds, release, Take, Paid, Writes, Pays
  <2>6. CASE RefundFunds(t)
    BY <1>0, <2>6 DEF RefundFunds, refund_escrow, Take, Paid, Writes, TakesBack
  <2> QED BY <1>1, <2>1, <2>2, <2>3, <2>4, <2>5, <2>6 DEF ClearStep
<1>2. ASSUME NEW t \in Txs, NEW d \in Disputes, DisputeCall(d, t)
      PROVE  Writes(u) \/ Pays(u) \/ TakesBack(u)
  BY <1>0, <1>2, DisputeCallIsStep, DisputeStateStep
<1>3. ASSUME UNCHANGED vars PROVE Writes(u)
  BY <1>3 DEF vars, ledgerVars, disputeVars, Writes
<1> QED BY <1>1, <1>2, <1>3 DEF Next

\* A state that names an outcome is true of the money, although several
\* threads write states without a lock: what they write is either no outcome
\* or the outcome of a payment already made.
THEOREM StatesAreTrue == Spec => []StateTellsPayout
<1>1. Init => StateTellsPayout
  BY DEF Init, LedgerInit, DisputesInit, StateTellsPayout, None
<1>2. TypeInv /\ DecisionInv /\ StateTellsPayout /\ [Next]_vars => StateTellsPayout'
  <2> SUFFICES ASSUME TypeInv, DecisionInv, StateTellsPayout, [Next]_vars, NEW u \in Txs
               PROVE  /\ state'[u] = "REFUNDED" => payout'[u] = "refunded"
                      /\ state'[u] = "SLASHED" => payout'[u] = "slashed"
                      /\ state'[u] = "SETTLED" => payout'[u] \in {"paid", "split"}
                      /\ u \in transactions' <=> payout'[u] \in {"paid", "split"}
    BY DEF StateTellsPayout
  <2>1. u \in DOMAIN escrow => payout[u] = None
    BY DEF DecisionInv, EscrowUntilPaid
  <2>2. CASE Writes(u)
    BY <2>2 DEF Writes, Final, StateTellsPayout
  <2>3. CASE Pays(u)
    BY <2>3 DEF Pays
  <2>4. CASE TakesBack(u)
    BY <2>1, <2>4 DEF TakesBack, StateTellsPayout, None
  <2> QED BY <2>2, <2>3, <2>4, StateStep
<1> QED BY <1>1, <1>2, AlwaysTypeInv, AlwaysDecisionInv, PTL DEF Spec
-----------------------------------------------------------------------------
(* Within reach of a dispute *)

\* The states of a transaction nobody has submitted.
Unsubmitted == {"QUOTE_REQUESTED", "QUOTE_ACCEPTED", "EXPIRED"}

\* A transaction that may have funds is submitted, and its event is published.
SubmittedInv ==
    \A t \in Txs :
        /\ pc[t] \notin {"authorize", "rejected"} => state[t] \notin Unsubmitted
        /\ pc[t] \notin BeforeHold \cup {"emit"} => t \in published

\* What the threads write over each other's states is a submitted state.
LEMMA WritesAreSubmitted ==
    ASSUME TypeInv, [Next]_vars, NEW u \in Txs
    PROVE  state'[u] = state[u] \/ state'[u] \notin Unsubmitted
<1>0. state \in [Txs -> TransactionState] /\ DisputesTypeOK
  BY DEF TypeInv, TypeOK, LedgerTypeOK
<1>1. ASSUME NEW t \in Txs, ClearStep(t)
      PROVE  state'[u] = state[u] \/ state'[u] \notin Unsubmitted
  <2>1. CASE \/ Reject(t) \/ InsufficientCredit(t) \/ EmitHeld(t) \/ CheckTransition(t)
             \/ Run(t) \/ VerifyProof(t) \/ NoFundsHeld(t) \/ IssueReceipt(t)
    BY <2>1 DEF Reject, InsufficientCredit, EmitHeld, CheckTransition, Run, VerifyProof,
        NoFundsHeld, IssueReceipt, ledgerVars
  <2>2. CASE Submit(t)
    BY <1>0, <2>2 DEF Submit, Unsubmitted
  <2>3. CASE HoldFunds(t)
    BY <2>3 DEF HoldFunds, hold
  <2>4. CASE WriteTransition(t)
    BY <1>0, <2>4 DEF WriteTransition, WriteState, TypeInv, PendingIsTarget, Target,
       Unsubmitted
  <2>5. CASE ReleaseFunds(t)
    BY <1>0, <2>5 DEF ReleaseFunds, release, Unsubmitted
  <2>6. CASE RefundFunds(t)
    BY <1>0, <2>6 DEF RefundFunds, refund_escrow
  <2> QED BY <1>1, <2>1, <2>2, <2>3, <2>4, <2>5, <2>6 DEF ClearStep
<1>2. ASSUME NEW t \in Txs, NEW d \in Disputes, DisputeCall(d, t)
      PROVE  state'[u] = state[u] \/ state'[u] \notin Unsubmitted
  <2>1. CASE CheckDispute(d, t) \/ RecordDispute(d, t)
    BY <2>1 DEF CheckDispute, RecordDispute, ledgerVars
  <2>2. CASE WriteDispute(d, t)
    BY <1>0, <2>2 DEF WriteDispute, WriteState, Unsubmitted
  <2>3. CASE ResolveDispute(d, t)
    BY <1>0, <2>3 DEF ResolveDispute, ResolveRefund, ResolveSlash, ResolveSplit,
       ResolveSettle, refund_escrow, slash_escrow, split_escrow, release, Unsubmitted
  <2>4. CASE WriteOutcome(d, t)
    BY <1>0, <2>4 DEF WriteOutcome, WriteState, DisputesTypeOK, Outcome, None, Unsubmitted
  <2> QED BY <1>2, <2>1, <2>2, <2>3, <2>4 DEF DisputeCall
<1>3. CASE UNCHANGED vars
  BY <1>3 DEF vars, ledgerVars
<1> QED BY <1>1, <1>2, <1>3 DEF Next

LEMMA StepSubmitted == TypeInv /\ SubmittedInv /\ [Next]_vars => SubmittedInv'
<1> SUFFICES ASSUME TypeInv, SubmittedInv, [Next]_vars, NEW u \in Txs
             PROVE  /\ pc'[u] \notin {"authorize", "rejected"} => state'[u] \notin Unsubmitted
                    /\ pc'[u] \notin BeforeHold \cup {"emit"} => u \in published'
  BY DEF SubmittedInv
<1>0. /\ pc \in [Txs -> Position] /\ published \subseteq Txs
      /\ pending \in [Txs -> TransactionState \cup {None}]
      /\ state \in [Txs -> TransactionState]
  BY DEF TypeInv, TypeOK, LedgerTypeOK
<1>1. ASSUME NEW t \in Txs, ClearStep(t)
      PROVE  /\ published \subseteq published'
             /\ \/ pc'[u] = pc[u]
                \/ pc[u] \notin {"authorize", "rejected"}
                \/ pc'[u] = "rejected"
                \/ pc'[u] = "hold" /\ state'[u] = "TASK_SUBMITTED"
             /\ \/ pc'[u] = pc[u]
                \/ pc'[u] \in BeforeHold \cup {"emit"}
                \/ pc[u] \notin BeforeHold \cup {"emit"}
                \/ u \in published'
  <2> USE <1>0 DEF Goto, At, BeforeHold
  <2>1. CASE Submit(t) \/ Reject(t) \/ HoldFunds(t) \/ InsufficientCredit(t) \/ EmitHeld(t)
    BY <2>1 DEF Submit, Reject, HoldFunds, InsufficientCredit, EmitHeld
  <2>2. CASE CheckTransition(t) \/ WriteTransition(t)
    BY <2>2, TransitionTables DEF CheckTransition, WriteTransition, TypeInv, PendingIsTarget
  <2>3. CASE \/ Run(t) \/ VerifyProof(t) \/ ReleaseFunds(t) \/ RefundFunds(t)
             \/ NoFundsHeld(t) \/ IssueReceipt(t)
    BY <2>3 DEF Run, VerifyProof, ReleaseFunds, RefundFunds, NoFundsHeld, IssueReceipt
  <2> QED BY <1>1, <2>1, <2>2, <2>3 DEF ClearStep
<1>2. (\A t \in Txs : ~ClearStep(t)) => UNCHANGED <<pc, published>>
  BY DEF Next, DisputeCall, callVars, vars
<1>3. state'[u] = state[u] \/ state'[u] \notin Unsubmitted
  BY WritesAreSubmitted
<1> QED BY <1>1, <1>2, <1>3 DEF SubmittedInv, Unsubmitted

\* Whatever cut a clear() call off, and whoever has written the state last, funds
\* that are held and announced can be disputed: no state that closes a transaction
\* is written while its funds are in escrow.
THEOREM HeldFundsStayDisputable == Spec => []HeldFundsDisputable
<1>1. Init => SubmittedInv
  BY DEF Init, SubmittedInv, BeforeHold
<1>2. TypeInv /\ EscrowUntilPaid /\ StateTellsPayout /\ SubmittedInv => HeldFundsDisputable
  <2> SUFFICES ASSUME TypeInv, EscrowUntilPaid, StateTellsPayout, SubmittedInv,
                      NEW t \in DOMAIN escrow, pc[t] # "emit"
               PROVE  /\ t \in published
                      /\ state[t] = "DISPUTED" \/ CanTransition(state[t], "DISPUTED")
    BY DEF HeldFundsDisputable
  <2>1. t \in Txs /\ state[t] \in TransactionState
    BY DEF TypeInv, TypeOK, LedgerTypeOK
  <2>2. payout[t] = None /\ pc[t] \notin BeforeHold
    BY <2>1 DEF EscrowUntilPaid
  <2>3. t \in published /\ state[t] \notin Unsubmitted
    BY <2>1, <2>2 DEF SubmittedInv, BeforeHold
  <2>4. state[t] \notin {"REFUNDED", "SLASHED", "SETTLED"}
    BY <2>1, <2>2 DEF StateTellsPayout, None
  <2>5. state[t] \in {"TASK_SUBMITTED", "TASK_RUNNING", "RESULT_DELIVERED",
                      "PROOF_VERIFIED", "DISPUTED"}
    BY <2>1, <2>3, <2>4 DEF TransactionState, Unsubmitted
  <2> QED BY <2>1, <2>3, <2>5 DEF CanTransition, ALLOWED_TRANSITIONS
<1> QED BY <1>1, <1>2, StepSubmitted, AlwaysTypeInv, EscrowHeldUntilPaid, StatesAreTrue, PTL
    DEF Spec
-----------------------------------------------------------------------------
(* Nothing stranded *)

\* The states a call leaves a transaction in before it makes its transition.
Expected ==
    [hold         |-> {"TASK_SUBMITTED"},   emit       |-> {"TASK_SUBMITTED"},
     to_running   |-> {"TASK_SUBMITTED"},   run        |-> {"TASK_RUNNING"},
     to_delivered |-> {"TASK_RUNNING"},     verify     |-> {"RESULT_DELIVERED"},
     to_verified  |-> {"RESULT_DELIVERED"},
     to_disputed  |-> {"TASK_RUNNING", "RESULT_DELIVERED"}]

\* An unpaid transaction is in the state its call expects, or in a dispute; and
\* when its call has raised with the funds held, it is in a dispute.
OnCourse(t) ==
    payout[t] = None =>
        /\ pc[t] \in DOMAIN Expected => state[t] \in Expected[pc[t]] \/ Contested(t)
        /\ pc[t] = "raised" /\ t \in DOMAIN escrow => Contested(t)

LEMMA ExpectedPositions ==
    DOMAIN Expected = {"hold", "emit", "to_running", "run", "to_delivered", "verify",
                       "to_verified", "to_disputed"}
BY DEF Expected

\* From an expected state the transition is in the table, and it leads to the
\* state that the next position expects.
LEMMA ExpectedTransitions ==
    \A q \in DOMAIN Target :
        /\ q \in DOMAIN Expected => \A s \in Expected[q] : CanTransition(s, Target[q])
        /\ After[q] \in DOMAIN Expected => Target[q] \in Expected[After[q]]
        /\ After[q] = "raised" => q = "to_refunded"
BY DEF Target, After, Expected, CanTransition, ALLOWED_TRANSITIONS, TransactionState

LEMMA StepOnCourse ==
    ASSUME TypeInv, DecisionInv, [Next]_vars, NEW u \in Txs, OnCourse(u)
    PROVE  OnCourse(u)'
<1>0. /\ state \in [Txs -> TransactionState] /\ pc \in [Txs -> Position]
      /\ DisputesTypeOK /\ LedgerTypeOK /\ DisputeInv /\ EscrowUntilPaid
      /\ PaidNotHeld /\ PayoutsStay
  BY StepPayouts DEF TypeInv, TypeOK, LedgerTypeOK, DecisionInv
<1> SUFFICES ASSUME payout'[u] = None
             PROVE  /\ pc'[u] \in DOMAIN Expected =>
                          state'[u] \in Expected[pc'[u]] \/ Contested(u)'
                    /\ pc'[u] = "raised" /\ u \in DOMAIN escrow' => Contested(u)'
  BY DEF OnCourse
<1>1. payout[u] = None
  BY <1>0 DEF PayoutsStay
<1>2. /\ pc[u] \in DOMAIN Expected => state[u] \in Expected[pc[u]] \/ Contested(u)
      /\ pc[u] = "raised" /\ u \in DOMAIN escrow => Contested(u)
  BY <1>1 DEF OnCourse
<1> DEFINE Goal == /\ pc'[u] \in DOMAIN Expected =>
                          state'[u] \in Expected[pc'[u]] \/ Contested(u)'
                   /\ pc'[u] = "raised" /\ u \in DOMAIN escrow' => Contested(u)'
<1>3. ASSUME NEW t \in Txs, ClearStep(t) PROVE Goal
  <2>1. Contested(u)' <=> Contested(u)
    BY <1>3, ClearKeepsDisputes DEF Contested, Unresolved
  <2>2. CASE u # t
    <3>1. pc'[u] = pc[u] /\ state'[u] = state[u]
      BY <1>0, <1>3, <2>2 DEF ClearStep, Submit, Reject, HoldFunds, InsufficientCredit,
          EmitHeld, CheckTransition, WriteTransition, Run, VerifyProof, ReleaseFunds,
          RefundFunds, NoFundsHeld, IssueReceipt, Goto, WriteState, hold, release,
          refund_escrow, ledgerVars
    <3>2. u \in DOMAIN escrow' => u \in DOMAIN escrow \/ pc'[u] \notin {"raised"}
      BY <1>0, <1>1, <3>1, StepKinds DEF Holds, PaysOut, Untouched
    <3> QED BY <1>2, <2>1, <3>1, <3>2
  <2> SUFFICES ASSUME u = t PROVE Goal
    BY <2>2
  <2>3. CASE Submit(t)
    BY <1>0, <2>3, ExpectedPositions DEF Submit, Goto, Expected
  <2>4. CASE Reject(t) \/ InsufficientCredit(t) \/ IssueReceipt(t)
    BY <1>0, <2>4, ExpectedPositions DEF Reject, InsufficientCredit, IssueReceipt, Goto
  <2>5. CASE HoldFunds(t)
    BY <1>0, <1>2, <2>1, <2>5, ExpectedPositions
       DEF HoldFunds, hold, At, Goto, Expected
  <2>6. CASE EmitHeld(t)
    BY <1>0, <1>2, <2>1, <2>6, ExpectedPositions
       DEF EmitHeld, At, Goto, Expected, ledgerVars
  <2>7. CASE CheckTransition(t)
    <3>1. UNCHANGED <<state, escrow>> /\ pc[t] \in DOMAIN Target /\ pending[t] = None
      BY <2>7 DEF CheckTransition, ledgerVars
    <3>2. CASE UNCHANGED pc
      BY <1>2, <2>1, <3>1, <3>2
    <3>3. CASE ~CanTransition(state[t], Target[pc[t]]) /\ Goto(t, "raised")
      <4>1. pc'[t] = "raised"
        BY <1>0, <3>3 DEF Goto
      <4>2. pc[t] \in DOMAIN Expected
        <5>1. pc[t] # "to_refunded"
          BY <1>1, <1>0 DEF DecisionInv, CallsTell, None
        <5> QED BY <3>1, <5>1, TransitionTables, ExpectedPositions
      <4>3. Contested(u)
        BY <1>2, <3>1, <3>3, <4>2, ExpectedTransitions
      <4> QED BY <2>1, <4>1, <4>3, ExpectedPositions
    <3> QED BY <2>7, <3>2, <3>3 DEF CheckTransition
  <2>8. CASE WriteTransition(t)
    <3>1. /\ pc[t] \in DOMAIN Target /\ pending[t] = Target[pc[t]]
          /\ state'[t] = pending[t] /\ pc'[t] = After[pc[t]]
      BY <1>0, <2>8 DEF WriteTransition, WriteState, Goto, TypeInv, PendingIsTarget
    <3>2. pc[t] # "to_refunded"
      BY <1>1 DEF DecisionInv, CallsTell, None
    <3> QED BY <3>1, <3>2, ExpectedTransitions
  <2>9. CASE Run(t)
    BY <1>0, <1>2, <2>1, <2>9, ExpectedPositions DEF Run, At, Goto, Expected, ledgerVars
  <2>10. CASE VerifyProof(t)
    BY <1>0, <1>2, <2>1, <2>10, ExpectedPositions
       DEF VerifyProof, At, Goto, Expected, ledgerVars
  <2>11. CASE ReleaseFunds(t) \/ RefundFunds(t)
    <3>1. payout'[t] # None
      BY <1>0, <2>11 DEF ReleaseFunds, RefundFunds, Paid, DisputesTypeOK, None
    <3> QED BY <3>1
  <2>12. CASE NoFundsHeld(t)
    BY <1>0, <2>12, ExpectedPositions DEF NoFundsHeld, Goto, ledgerVars
  <2> QED BY <1>3, <2>3, <2>4, <2>5, <2>6, <2>7, <2>8, <2>9, <2>10, <2>11, <2>12
          DEF ClearStep
<1>4. ASSUME NEW t \in Txs, NEW d \in Disputes, DisputeCall(d, t) PROVE Goal
  <2>1. DisputeStep(d, t) /\ UNCHANGED pc
    BY <1>4, DisputeCallIsStep DEF callVars
  <2>2. Contested(u) => Contested(u)'
    BY <1>0, <2>1, ContestedStays
  <2>3. state'[u] = state[u] \/ Contested(u)'
    BY <1>0, <2>1, DisputeStateStep
  <2>4. u \in DOMAIN escrow' => u \in DOMAIN escrow
    BY <1>0, <2>1, DisputeStepKinds DEF PaysOut, Untouched
  <2> QED BY <1>2, <2>1, <2>2, <2>3, <2>4
<1>5. ASSUME UNCHANGED vars PROVE Goal
  BY <1>2, <1>5 DEF vars, ledgerVars, disputeVars, callVars, Contested, Unresolved
<1> QED BY <1>3, <1>4, <1>5 DEF Next

\* A clear() that ended in a ProtocolError leaves funds in escrow only where
\* a dispute is open on them or about to be recorded: the transition that
\* raised was refused because an open_dispute() had written DISPUTED.
THEOREM NoFundsStranded == Spec => []NothingStranded
<1> DEFINE Course == \A t \in Txs : OnCourse(t)
<1>1. Init => Course
  BY ExpectedPositions DEF Init, OnCourse
<1>2. TypeInv /\ DecisionInv /\ Course /\ [Next]_vars => Course'
  BY StepOnCourse
<1>3. TypeInv /\ DecisionInv /\ Course => NothingStranded
  BY DEF TypeInv, TypeOK, LedgerTypeOK, DecisionInv, EscrowUntilPaid, OnCourse,
         NothingStranded
<1> HIDE DEF Course
<1> QED BY <1>1, <1>2, <1>3, AlwaysTypeInv, AlwaysDecisionInv, PTL DEF Spec
-----------------------------------------------------------------------------
(* Resolutions once a call has raised *)

\* An unpaid transaction is in the state its call expects, or DISPUTED; and when
\* its call has raised with the funds held, it is DISPUTED.
OnTrack(t) ==
    payout[t] = None =>
        /\ pc[t] \in DOMAIN Expected => state[t] \in Expected[pc[t]] \cup {"DISPUTED"}
        /\ pc[t] = "raised" /\ t \in DOMAIN escrow => state[t] = "DISPUTED"

\* The state that a dispute writes of an unpaid transaction is DISPUTED.
LEMMA UnpaidIsDisputed ==
    ASSUME TypeInv, DecisionInv, [Next]_vars, NEW t \in Txs, NEW d \in Disputes,
           DisputeCall(d, t), NEW u \in Txs, payout[u] = None, payout'[u] = None
    PROVE  state'[u] \in {state[u], "DISPUTED"}
<1>0. state \in [Txs -> TransactionState] /\ payout \in [Txs -> Payouts \cup {None}]
      /\ DisputesTypeOK
  BY DEF TypeInv, TypeOK, LedgerTypeOK, DisputesTypeOK
<1>1. CASE CheckDispute(d, t) \/ RecordDispute(d, t)
  BY <1>1 DEF CheckDispute, RecordDispute, ledgerVars
<1>2. CASE WriteDispute(d, t)
  BY <1>0, <1>2 DEF WriteDispute, WriteState
<1>3. CASE ResolveDispute(d, t)
  <2>1. PICK how \in Payouts : Paid(t, how)
    BY <1>3, ResolutionShape
  <2>2. u # t
    BY <1>0, <2>1 DEF Paid, Payouts, None
  <2> QED BY <1>0, <1>3, <2>2 DEF ResolveDispute, ResolveRefund, ResolveSlash,
        ResolveSplit, ResolveSettle, refund_escrow, slash_escrow, split_escrow, release
<1>4. CASE WriteOutcome(d, t)
  <2>1. /\ resolving[d] \in DOMAIN Outcome /\ WriteState(t, Outcome[resolving[d]])
    BY <1>0, <1>4, WriteOutcomeShape
  <2>2. state' = [state EXCEPT ![t] = Outcome[resolving[d]]]
        /\ Outcome[resolving[d]] \in {"REFUNDED", "SLASHED"}
    BY <2>1 DEF WriteState, Outcome
  <2>3. ~TakesBack(u) /\ ~Pays(u)
    BY DEF TakesBack, Pays, None
  <2>4. Writes(u)
    BY <2>3, StateStep
  <2> QED BY <1>0, <2>2, <2>4 DEF Writes, Final, None
<1> QED BY <1>1, <1>2, <1>3, <1>4 DEF DisputeCall

LEMMA StepOnTrack ==
    ASSUME TypeInv, DecisionInv, [Next]_vars, NEW u \in Txs, OnTrack(u)
    PROVE  OnTrack(u)'
<1>0. /\ state \in [Txs -> TransactionState] /\ pc \in [Txs -> Position]
      /\ DisputesTypeOK /\ DisputeInv /\ EscrowUntilPaid /\ PayoutsStay
  BY StepPayouts DEF TypeInv, TypeOK, LedgerTypeOK, DecisionInv
<1> DEFINE Goal == /\ pc'[u] \in DOMAIN Expected =>
                          state'[u] \in Expected[pc'[u]] \cup {"DISPUTED"}
                   /\ pc'[u] = "raised" /\ u \in DOMAIN escrow' => state'[u] = "DISPUTED"
<1> SUFFICES ASSUME payout'[u] = None PROVE Goal
  BY DEF OnTrack
<1>1. payout[u] = None
  BY <1>0 DEF PayoutsStay
<1>2. /\ pc[u] \in DOMAIN Expected => state[u] \in Expected[pc[u]] \cup {"DISPUTED"}
      /\ pc[u] = "raised" /\ u \in DOMAIN escrow => state[u] = "DISPUTED"
  BY <1>1 DEF OnTrack
<1>3. ASSUME NEW t \in Txs, ClearStep(t) PROVE Goal
  <2>2. CASE u # t
    <3>1. pc'[u] = pc[u] /\ state'[u] = state[u]
      BY <1>0, <1>3, <2>2 DEF ClearStep, Submit, Reject, HoldFunds, InsufficientCredit,
          EmitHeld, CheckTransition, WriteTransition, Run, VerifyProof, ReleaseFunds,
          RefundFunds, NoFundsHeld, IssueReceipt, Goto, WriteState, hold, release,
          refund_escrow, ledgerVars
    <3>2. u \in DOMAIN escrow' => u \in DOMAIN escrow \/ pc'[u] # "raised"
      BY <1>0, <1>1, <3>1, StepKinds DEF Holds, PaysOut, Untouched
    <3> QED BY <1>2, <3>1, <3>2
  <2> SUFFICES ASSUME u = t PROVE Goal
    BY <2>2
  <2>3. CASE Submit(t)
    BY <1>0, <2>3, ExpectedPositions DEF Submit, Goto, Expected
  <2>4. CASE Reject(t) \/ InsufficientCredit(t) \/ IssueReceipt(t)
    BY <1>0, <2>4, ExpectedPositions DEF Reject, InsufficientCredit, IssueReceipt, Goto
  <2>5. CASE HoldFunds(t)
    BY <1>0, <1>2, <2>5, ExpectedPositions DEF HoldFunds, hold, At, Goto, Expected
  <2>6. CASE EmitHeld(t)
    BY <1>0, <1>2, <2>6, ExpectedPositions DEF EmitHeld, At, Goto, Expected, ledgerVars
  <2>7. CASE CheckTransition(t)
    <3>1. UNCHANGED <<state, escrow>> /\ pc[t] \in DOMAIN Target /\ pending[t] = None
      BY <2>7 DEF CheckTransition, ledgerVars
    <3>2. CASE UNCHANGED pc
      BY <1>2, <3>1, <3>2
    <3>3. CASE ~CanTransition(state[t], Target[pc[t]]) /\ Goto(t, "raised")
      <4>1. pc'[t] = "raised"
        BY <1>0, <3>3 DEF Goto
      <4>2. pc[t] \in DOMAIN Expected
        <5>1. pc[t] # "to_refunded"
          BY <1>1, <1>0 DEF DecisionInv, CallsTell, None
        <5> QED BY <3>1, <5>1, TransitionTables, ExpectedPositions
      <4>3. state[t] = "DISPUTED"
        BY <1>2, <3>1, <3>3, <4>2, ExpectedTransitions
      <4> QED BY <3>1, <4>1, <4>3, ExpectedPositions
    <3> QED BY <2>7, <3>2, <3>3 DEF CheckTransition
  <2>8. CASE WriteTransition(t)
    <3>1. /\ pc[t] \in DOMAIN Target /\ pending[t] = Target[pc[t]]
          /\ state'[t] = pending[t] /\ pc'[t] = After[pc[t]]
      BY <1>0, <2>8 DEF WriteTransition, WriteState, Goto, TypeInv, PendingIsTarget
    <3>2. pc[t] # "to_refunded"
      BY <1>1 DEF DecisionInv, CallsTell, None
    <3> QED BY <3>1, <3>2, ExpectedTransitions
  <2>9. CASE Run(t)
    BY <1>0, <1>2, <2>9, ExpectedPositions DEF Run, At, Goto, Expected, ledgerVars
  <2>10. CASE VerifyProof(t)
    BY <1>0, <1>2, <2>10, ExpectedPositions DEF VerifyProof, At, Goto, Expected, ledgerVars
  <2>11. CASE ReleaseFunds(t) \/ RefundFunds(t)
    <3>1. payout'[t] # None
      BY <1>0, <2>11 DEF ReleaseFunds, RefundFunds, Paid, DisputesTypeOK, None
    <3> QED BY <3>1
  <2>12. CASE NoFundsHeld(t)
    BY <1>0, <2>12, ExpectedPositions DEF NoFundsHeld, Goto, ledgerVars
  <2> QED BY <1>3, <2>3, <2>4, <2>5, <2>6, <2>7, <2>8, <2>9, <2>10, <2>11, <2>12
          DEF ClearStep
<1>4. ASSUME NEW t \in Txs, NEW d \in Disputes, DisputeCall(d, t) PROVE Goal
  <2>1. DisputeStep(d, t) /\ UNCHANGED pc
    BY <1>4, DisputeCallIsStep DEF callVars
  <2>2. state'[u] \in {state[u], "DISPUTED"}
    BY <1>1, <1>4, UnpaidIsDisputed
  <2>3. u \in DOMAIN escrow' => u \in DOMAIN escrow
    BY <1>0, <2>1, DisputeStepKinds DEF PaysOut, Untouched
  <2> QED BY <1>2, <2>1, <2>2, <2>3
<1>5. ASSUME UNCHANGED vars PROVE Goal
  BY <1>2, <1>5 DEF vars, ledgerVars, callVars
<1> QED BY <1>3, <1>4, <1>5 DEF Next

\* Once clear() has raised, nobody but open_dispute() writes the state of what it
\* has left in escrow. It is DISPUTED, from where transition() refuses neither a
\* refund nor a slash: the dispute that takes the funds gets its resolution.
THEOREM RaisedCallsAreResolved == Spec => RaisedCallsResolve
<1> DEFINE Track == \A t \in Txs : OnTrack(t)
           Marked(t) == \E d \in DOMAIN disputes :
                           disputes[d].transaction_id = t /\ resolving'[d] # None
           Late(t) == /\ pc[t] = "raised" /\ payout[t] = None
                      /\ payout'[t] \in {"refunded", "slashed"}
<1>1. Init => Track
  BY ExpectedPositions DEF Init, OnTrack
<1>2. TypeInv /\ DecisionInv /\ Track /\ [Next]_vars => Track'
  BY StepOnTrack
<1>3. TypeInv /\ DecisionInv /\ Track /\ [Next]_vars => \A t \in Txs : Late(t) => Marked(t)
  <2> SUFFICES ASSUME TypeInv, DecisionInv, Track, [Next]_vars, NEW t \in Txs, Late(t)
               PROVE  Marked(t)
    OBVIOUS
  <2>0. /\ DisputesTypeOK /\ EscrowUntilPaid /\ payout \in [Txs -> Payouts \cup {None}]
        /\ pc[t] = "raised" /\ payout'[t] # payout[t]
        /\ payout'[t] \in {"refunded", "slashed"}
    BY DEF TypeInv, TypeOK, DecisionInv, DisputesTypeOK, None
  <2>1. state[t] = "DISPUTED"
    <3>1. t \in DOMAIN escrow
      BY <2>0 DEF EscrowUntilPaid, BeforeHold
    <3> QED BY <3>1 DEF OnTrack
  <2>2. ASSUME NEW u \in Txs, ClearStep(u) PROVE FALSE
    <3>1. CASE ReleaseFunds(u) \/ RefundFunds(u)
      <4>1. pc[u] # "raised" /\ \E how : payout' = [payout EXCEPT ![u] = how]
        BY <3>1 DEF ReleaseFunds, RefundFunds, At, Paid
      <4> QED BY <2>0, <4>1
    <3>2. CASE UNCHANGED payout
      BY <2>0, <3>2
    <3> QED BY <2>2, <3>1, <3>2 DEF ClearStep, Submit, Reject, HoldFunds, EmitHeld,
          InsufficientCredit, CheckTransition, WriteTransition, Run, VerifyProof,
          NoFundsHeld, IssueReceipt, disputeVars
  <2>3. ASSUME NEW u \in Txs, NEW d \in Disputes, DisputeCall(d, u) PROVE Marked(t)
    <3>1. ResolveDispute(d, u)
      BY <2>0, <2>3 DEF DisputeCall, CheckDispute, WriteDispute, RecordDispute, WriteOutcome
    <3>2. u = t /\ Unresolved(d, u)
      <4>1. Unresolved(d, u) /\ \E how \in Payouts : Paid(u, how)
        BY <3>1, ResolutionShape
      <4> QED BY <2>0, <4>1 DEF Paid
    <3>3. CASE ResolveRefund(d, u)
      <4>1. resolving' = [resolving EXCEPT ![d] = "refund"]
        BY <2>1, <3>2, <3>3 DEF ResolveRefund, CheckOutcome, Outcome, CanTransition,
           ALLOWED_TRANSITIONS, TransactionState
      <4> QED BY <2>0, <3>2, <4>1 DEF DisputesTypeOK, Unresolved, None
    <3>4. CASE ResolveSlash(d, u)
      <4>1. resolving' = [resolving EXCEPT ![d] = "slash"]
        BY <2>1, <3>2, <3>4 DEF ResolveSlash, CheckOutcome, Outcome, CanTransition,
           ALLOWED_TRANSITIONS, TransactionState
      <4> QED BY <2>0, <3>2, <4>1 DEF DisputesTypeOK, Unresolved, None
    <3>5. CASE (\E p \in ProviderAmounts : ResolveSplit(d, u, p)) \/ ResolveSettle(d, u)
      BY <2>0, <3>2, <3>5 DEF ResolveSplit, ResolveSettle, Paid, DisputesTypeOK
    <3> QED BY <3>1, <3>3, <3>4, <3>5 DEF ResolveDispute
  <2>4. CASE UNCHANGED vars
    BY <2>0, <2>4 DEF vars, disputeVars
  <2> QED BY <2>2, <2>3, <2>4 DEF Next
<1>4. TypeInv /\ DecisionInv /\ Track /\ [Next]_vars =>
          [\A t \in Txs : Late(t) => Marked(t)]_vars
  BY <1>3
<1> HIDE DEF Track
<1> QED BY <1>1, <1>2, <1>4, AlwaysTypeInv, AlwaysDecisionInv, PTL
    DEF Spec, RaisedCallsResolve
-----------------------------------------------------------------------------
(* The payments, as AtomicPayments promises them *)

\* What is in escrow of an account's credits, by transaction.
EscrowShare(a) == [t \in Txs |-> IF Sender[t] = a THEN ledger_held(t) ELSE 0]

LEMMA WealthParts ==
    /\ wealth = [a \in Accounts |-> balances[a] + SumFunctionOnSet(EscrowShare(a), Txs)]
    /\ wealth' = [a \in Accounts |-> balances'[a] + SumFunctionOnSet(EscrowShare(a)', Txs)]
BY DEF wealth, EscrowShare

LEMMA EscrowShareType ==
    ASSUME TypeInv, NEW a \in Accounts
    PROVE  /\ EscrowShare(a) \in [Txs -> Int]
           /\ \A t \in Txs : EscrowShare(a)[t] >= 0
<1>1. \A t \in Txs : ledger_held(t) \in Nat
  BY DEF TypeInv, TypeOK, LedgerTypeOK, ledger_held
<1> QED BY <1>1 DEF EscrowShare

\* Who has credits in escrow owns at least those.
LEMMA HeldIsOwned ==
    ASSUME TypeInv, NEW t \in DOMAIN escrow
    PROVE  wealth[Sender[t]] >= Total(t)
<1> DEFINE a == Sender[t]
           share == EscrowShare(a)
           single == [u \in Txs |-> IF u = t THEN share[t] ELSE 0]
<1>1. /\ t \in Txs /\ a \in Accounts /\ escrow[t] = Total(t) /\ balances[a] \in Nat
  BY TotalType DEF TypeInv, TypeOK, LedgerTypeOK, HeldInFull
<1>2. share \in [Txs -> Int] /\ \A u \in Txs : share[u] >= 0
  BY <1>1, EscrowShareType
<1>3. share[t] = Total(t)
  BY <1>1 DEF EscrowShare, ledger_held
<1>4. wealth[a] = balances[a] + SumFunctionOnSet(share, Txs)
  BY <1>1, WealthParts
<1> HIDE DEF a, share
<1>5. /\ single \in [Txs -> Int] /\ single[t] = share[t]
      /\ \A u \in Txs \ {t} : single[u] = 0
      /\ \A u \in Txs : single[u] <= share[u]
  BY <1>1, <1>2
<1> HIDE DEF single
<1>6. /\ SumFunctionOnSet(single, Txs) = single[t]
      /\ SumFunctionOnSet(single, Txs) <= SumFunctionOnSet(share, Txs)
      /\ SumFunctionOnSet(share, Txs) \in Int
  BY <1>1, <1>2, <1>5, SumSingle, SumMonotone, SumType, ParameterTypes
<1>7. wealth[a] >= Total(t)
  BY <1>1, <1>3, <1>4, <1>5, <1>6, TotalType
<1> QED BY <1>7 DEF a

\* A step that moves the escrow of one transaction moves the wealth of the
\* accounts by their balances and of its sender by that escrow.
LEMMA EscrowMovesWealth ==
    ASSUME TypeInv, TypeInv', NEW t \in Txs,
           \A u \in Txs \ {t} : ledger_held(u)' = ledger_held(u), NEW a \in Accounts
    PROVE  /\ wealth[a] \in Int
           /\ wealth'[a] = wealth[a] + (balances'[a] - balances[a])
                  + (IF Sender[t] = a THEN ledger_held(t)' - ledger_held(t) ELSE 0)
<1> DEFINE old == EscrowShare(a)
           new == EscrowShare(a)'
<1>1. old \in [Txs -> Int]
  BY EscrowShareType
<1>2. new \in [Txs -> Int]
  <2>1. \A u \in Txs : ledger_held(u)' \in Nat
    BY DEF TypeInv, TypeOK, LedgerTypeOK, ledger_held
  <2> QED BY <2>1 DEF EscrowShare
<1>3. /\ \A u \in Txs \ {t} : new[u] = old[u]
      /\ old[t] = (IF Sender[t] = a THEN ledger_held(t) ELSE 0)
      /\ new[t] = (IF Sender[t] = a THEN ledger_held(t)' ELSE 0)
  BY DEF EscrowShare
<1>4. /\ wealth[a] = balances[a] + SumFunctionOnSet(old, Txs)
      /\ wealth'[a] = balances'[a] + SumFunctionOnSet(new, Txs)
      /\ balances[a] \in Int /\ balances'[a] \in Int
      /\ ledger_held(t) \in Int /\ ledger_held(t)' \in Int
  BY WealthParts DEF TypeInv, TypeOK, LedgerTypeOK, ledger_held
<1> HIDE DEF old, new
<1>5. /\ SumFunctionOnSet(new, Txs) = SumFunctionOnSet(old, Txs) - old[t] + new[t]
      /\ SumFunctionOnSet(old, Txs) \in Int
  BY <1>1, <1>2, <1>3, SumUpdate, SumType, ParameterTypes
<1> QED BY <1>3, <1>4, <1>5

\* A step of the service holds one transaction's funds, decides one, or moves
\* no credit.
Decides(t) ==
    \/ release(t) /\ Paid(t, "paid")
    \/ refund_escrow(t) /\ Paid(t, "refunded")
    \/ slash_escrow(t) /\ Paid(t, "slashed")
    \/ \E p \in ProviderAmounts :
          split_escrow(t, p) /\ Paid(t, IF InRange(t, p) THEN "split" ELSE "destroyed")

LEMMA StepDecides ==
    ASSUME [Next]_vars
    PROVE  \/ \E t \in Txs : Decides(t)
           \/ \E t \in Txs : hold(t) /\ UNCHANGED payout
           \/ UNCHANGED <<balances, escrow, fee_pool, payout>>
<1>1. ASSUME NEW t \in Txs, ClearStep(t)
      PROVE  \/ Decides(t)
             \/ hold(t) /\ UNCHANGED payout
             \/ UNCHANGED <<balances, escrow, fee_pool, payout>>
  BY <1>1 DEF ClearStep, Submit, Reject, HoldFunds, InsufficientCredit, EmitHeld,
      CheckTransition, WriteTransition, WriteState, Run, VerifyProof, ReleaseFunds,
      RefundFunds, NoFundsHeld, IssueReceipt, Decides, ledgerVars, moneyVars, disputeVars
<1>2. ASSUME NEW t \in Txs, NEW d \in Disputes, DisputeCall(d, t)
      PROVE  Decides(t) \/ UNCHANGED <<balances, escrow, fee_pool, payout>>
  <2>1. CASE ResolveDispute(d, t)
    BY <2>1 DEF ResolveDispute, ResolveRefund, ResolveSlash, ResolveSplit, ResolveSettle,
        Decides
  <2>2. CASE ~ResolveDispute(d, t)
    BY <1>2, <2>2 DEF DisputeCall, CheckDispute, WriteDispute, RecordDispute, WriteOutcome,
        WriteState, ledgerVars, moneyVars
  <2> QED BY <2>1, <2>2
<1> QED BY <1>1, <1>2 DEF Next, vars, ledgerVars, disputeVars

LEMMA HoldKeepsWealth ==
    ASSUME TypeInv, TypeInv', NEW t \in Txs, hold(t)
    PROVE  wealth' = wealth /\ fee_pool' = fee_pool
<1>1. /\ \A u \in Txs \ {t} : ledger_held(u)' = ledger_held(u)
      /\ ledger_held(t) = 0 /\ ledger_held(t)' = Total(t)
  BY HoldKeepsOthers DEF TypeInv, TypeOK, LedgerInv, ledger_held
<1>2. /\ \A a \in Accounts :
            balances'[a] = balances[a] - (IF Sender[t] = a THEN Total(t) ELSE 0)
      /\ balances \in [Accounts -> Nat] /\ fee_pool' = fee_pool
  BY TotalType DEF hold, Credit, TypeInv, TypeOK, LedgerTypeOK
<1>3. \A a \in Accounts : wealth'[a] = wealth[a]
  BY <1>1, <1>2, EscrowMovesWealth, TotalType
<1> QED BY <1>2, <1>3, WealthParts

\* Of the price and fee in escrow n credits go to the provider, m to the pool
\* and the rest back to the buyer.
LEMMA DecisionIsTransfer ==
    ASSUME TypeInv, TypeInv', NEW t \in Txs, Take(t), NEW n \in Nat, NEW m \in Nat,
           n + m <= Total(t), fee_pool' = fee_pool + m,
           \A a \in Accounts :
              balances'[a] = balances[a] + (IF Receiver[t] = a THEN n ELSE 0)
                                  + (IF Sender[t] = a THEN Total(t) - n - m ELSE 0)
    PROVE  Payments!Transfer(t, n, m)
<1>1. /\ \A u \in Txs \ {t} : ledger_held(u)' = ledger_held(u)
      /\ ledger_held(t) = Total(t) /\ ledger_held(t)' = 0 /\ t \in DOMAIN escrow
  BY TakeKeepsOthers DEF TypeInv, TypeOK, LedgerInv, ledger_held, Take
<1>2. \A a \in Accounts :
         /\ wealth[a] \in Int /\ balances[a] \in Int
         /\ wealth'[a] = wealth[a] + (balances'[a] - balances[a])
                - (IF Sender[t] = a THEN Total(t) ELSE 0)
  BY <1>1, EscrowMovesWealth, TotalType DEF TypeInv, TypeOK, LedgerTypeOK
<1>3. \A a \in Accounts :
         wealth'[a] = wealth[a] + (IF Receiver[t] = a THEN n ELSE 0)
                                - (IF Sender[t] = a THEN n + m ELSE 0)
  BY <1>2, TotalType
<1>4. wealth' = [wealth EXCEPT ![Sender[t]] = @ - (n + m), ![Receiver[t]] = @ + n]
  BY <1>2, <1>3, WealthParts, TotalType
<1>5. wealth[Sender[t]] >= n + m
  BY <1>1, <1>2, HeldIsOwned, TotalType
<1> QED BY <1>4, <1>5 DEF Payments!Transfer

LEMMA DecisionRefines ==
    ASSUME SplitsInRange, TypeInv, TypeInv', EscrowUntilPaid, NEW t \in Txs, Decides(t)
    PROVE  Payments!Pay(t) \/ Payments!Refund(t) \/ Payments!Slash(t) \/ Payments!Split(t)
<1>0. /\ Take(t) /\ t \in DOMAIN escrow /\ escrow[t] = Total(t)
      /\ Total(t) = Amount[t] + Fee[t] /\ payout[t] = "none"
      /\ balances \in [Accounts -> Nat] /\ fee_pool \in Nat
  BY DEF Decides, release, refund_escrow, slash_escrow, split_escrow, Take, EscrowUntilPaid,
      HeldInFull, None, Total, TypeInv, TypeOK, LedgerTypeOK
<1> USE <1>0, TotalType
    DEF Payments!Decide, Payments!Undecided, Paid
<1>1. CASE release(t) /\ Paid(t, "paid")
  <2>1. /\ \A a \in Accounts :
              balances'[a] = balances[a]
                  + (IF Receiver[t] = a THEN Amount[t] ELSE 0)
                  + (IF Sender[t] = a THEN Total(t) - Amount[t] - Fee[t] ELSE 0)
        /\ fee_pool' = fee_pool + Fee[t]
    BY <1>1 DEF release, Credit
  <2>2. Payments!Transfer(t, Amount[t], Fee[t])
    BY <2>1, DecisionIsTransfer
  <2> QED BY <1>1, <2>2 DEF Payments!Pay
<1>2. CASE refund_escrow(t) /\ Paid(t, "refunded")
  <2>1. /\ \A a \in Accounts :
              balances'[a] = balances[a] + (IF Sender[t] = a THEN Total(t) ELSE 0)
        /\ fee_pool' = fee_pool
    BY <1>2 DEF refund_escrow, Credit
  <2>2. /\ \A u \in Txs \ {t} : ledger_held(u)' = ledger_held(u)
        /\ ledger_held(t) = Total(t) /\ ledger_held(t)' = 0
    BY TakeKeepsOthers DEF TypeInv, TypeOK, LedgerInv, ledger_held, Take
  <2>3. \A a \in Accounts : wealth'[a] = wealth[a]
    BY <2>1, <2>2, EscrowMovesWealth
  <2>4. wealth' = wealth
    BY <2>3, WealthParts
  <2> QED BY <1>2, <2>1, <2>4 DEF Payments!Refund
<1>3. CASE slash_escrow(t) /\ Paid(t, "slashed")
  <2>1. Payments!Transfer(t, 0, Amount[t] + Fee[t])
    BY <1>3, DecisionIsTransfer DEF slash_escrow
  <2> QED BY <1>3, <2>1 DEF Payments!Slash
<1>4. ASSUME NEW p \in ProviderAmounts, split_escrow(t, p), Paid(t, "split")
      PROVE  Payments!Split(t)
  <2>1. p \in 0..Amount[t] /\ InRange(t, p)
    BY DEF SplitsInRange, InRange
  <2>2. /\ \A a \in Accounts :
              balances'[a] = balances[a]
                  + (IF Receiver[t] = a THEN p ELSE 0)
                  + (IF Sender[t] = a THEN Total(t) - p - Fee[t] ELSE 0)
        /\ fee_pool' = fee_pool + Fee[t]
    BY <1>4, <2>1 DEF split_escrow
  <2>3. p \in Nat /\ p + Fee[t] <= Total(t)
    BY <2>1
  <2>4. Payments!Transfer(t, p, Fee[t])
    BY <2>2, <2>3, DecisionIsTransfer
  <2> QED BY <1>4, <2>1, <2>4 DEF Payments!Split
<1> QED BY <1>1, <1>2, <1>3, <1>4 DEF Decides, SplitsInRange

LEMMA ServiceStartsPaid == Init => Payments!Init
<1> SUFFICES ASSUME Init PROVE Payments!Init
  OBVIOUS
<1>1. ASSUME NEW a \in Accounts PROVE wealth[a] = Opening[a]
  <2>1. EscrowShare(a) = [t \in Txs |-> 0]
    BY DEF Init, LedgerInit, EscrowShare, ledger_held
  <2>2. SumFunctionOnSet(EscrowShare(a), Txs) = 0
    BY <2>1, SumZero, ParameterTypes
  <2>3. balances[a] = Opening[a] /\ Opening[a] \in Int
    BY ParameterTypes DEF Init, LedgerInit
  <2> QED BY <2>2, <2>3, WealthParts
<1>2. wealth = Opening
  BY <1>1, WealthParts, ParameterTypes
<1> QED BY <1>2 DEF Init, LedgerInit, DisputesInit, None, Payments!Init, Payments!Undecided

\* Every interleaving of clear() calls and disputes is a sequence of atomic
\* payments: each transaction is decided at most once, in one transfer that
\* takes from the buyer what provider and fee pool receive, provided no split
\* is asked for above its price.
THEOREM ServicePaysAtomically ==
    ASSUME SplitsInRange
    PROVE  Spec => ImplementsAtomicPayments
<1>1. TypeInv /\ EscrowUntilPaid /\ [Next]_vars =>
         [Payments!Next]_<<wealth, fee_pool, payout>>
  <2> SUFFICES ASSUME TypeInv, EscrowUntilPaid, [Next]_vars
               PROVE  [Payments!Next]_<<wealth, fee_pool, payout>>
    OBVIOUS
  <2>0. TypeInv'
    BY StepTypeInv
  <2>1. ASSUME NEW t \in Txs, Decides(t) PROVE Payments!Next
    BY <2>0, <2>1, DecisionRefines DEF Payments!Next
  <2>2. ASSUME NEW t \in Txs, hold(t), UNCHANGED payout
        PROVE  UNCHANGED <<wealth, fee_pool, payout>>
    BY <2>0, <2>2, HoldKeepsWealth
  <2>3. ASSUME UNCHANGED <<balances, escrow, fee_pool, payout>>
        PROVE  UNCHANGED <<wealth, fee_pool, payout>>
    BY <2>3 DEF wealth, ledger_held
  <2> QED BY <2>1, <2>2, <2>3, StepDecides
<1> QED BY <1>1, ServiceStartsPaid, AlwaysTypeInv, EscrowHeldUntilPaid, PTL
        DEF Spec, ImplementsAtomicPayments, Payments!Spec, Payments!paymentVars
-----------------------------------------------------------------------------
(* The gateway *)

\* What a save reads and a restart loads: tables in which every escrow is held
\* in full, so that the loaded service has the types of a running one.
FullEscrows == {[t \in S |-> Total(t)] : S \in SUBSET Txs}
Tables == [balances : [Accounts -> Nat], escrow : FullEscrows, pool : Nat,
           receipts : SUBSET Txs, torn : BOOLEAN]

GatewayInv ==
    /\ TypeInv
    /\ stored \in Tables /\ draft \in Tables
    /\ saving \in [by : Requests \cup {None}, next : {None, "escrow", "pool", "receipts"}]
    /\ GatewayTypeOK

\* The live service can always be saved.
LEMMA LiveTables ==
    ASSUME TypeInv
    PROVE  /\ balances \in [Accounts -> Nat] /\ escrow \in FullEscrows
           /\ fee_pool \in Nat /\ receipts \in SUBSET Txs
<1>1. /\ balances \in [Accounts -> Nat] /\ fee_pool \in Nat /\ receipts \in SUBSET Txs
      /\ DOMAIN escrow \in SUBSET Txs /\ escrow = [t \in DOMAIN escrow |-> escrow[t]]
      /\ \A t \in DOMAIN escrow : escrow[t] = Total(t)
  BY DEF TypeInv, TypeOK, LedgerTypeOK, HeldInFull
<1>2. escrow = [t \in DOMAIN escrow |-> Total(t)]
  BY <1>1
<1> QED BY <1>1, <1>2 DEF FullEscrows

\* Tables have the shape that GatewayTypeOK asks for.
LEMMA TablesAreSnapshots ==
    ASSUME NEW tables \in Tables
    PROVE  SnapshotOK(tables)
<1>1. /\ tables.balances \in [Accounts -> Nat] /\ tables.pool \in Nat
      /\ tables.receipts \subseteq Txs /\ tables.torn \in BOOLEAN
      /\ tables.escrow \in FullEscrows
  BY DEF Tables
<1>2. PICK S \in SUBSET Txs : tables.escrow = [t \in S |-> Total(t)]
  BY <1>1 DEF FullEscrows
<1>3. \A t \in S : Total(t) \in Nat
  BY TotalType
<1> QED BY <1>1, <1>2, <1>3 DEF SnapshotOK

LEMMA InitGatewayInv == Init /\ GatewayInit => GatewayInv
<1> SUFFICES ASSUME Init, GatewayInit PROVE GatewayInv
  OBVIOUS
<1>1. TypeInv
  BY InitTypeInv
<1>2. [t \in {} |-> 0] \in FullEscrows
  <2>1. [t \in {} |-> 0] = [t \in {} |-> Total(t)]
    OBVIOUS
  <2> QED BY <2>1 DEF FullEscrows
<1>3. stored \in Tables /\ draft = stored
  BY <1>2, ParameterTypes DEF GatewayInit, Tables
<1>4. [draft EXCEPT !.torn = stored.torn] = stored
  BY <1>3 DEF Tables
<1>5. saving \in [by : Requests \cup {None}, next : {None, "escrow", "pool", "receipts"}]
  BY DEF GatewayInit, Idle
<1>6. SnapshotOK(stored) /\ SnapshotOK(draft)
  BY <1>3, TablesAreSnapshots
<1>7. /\ saving = Idle /\ answered = {} /\ failed = {} /\ gone = {}
      /\ tainted = FALSE /\ restarts = 0
  BY DEF GatewayInit
<1>8. GatewayTypeOK
  <2>1. tainted \in BOOLEAN
    BY <1>7
  <2>2. restarts \in 0..MaxRestarts
    BY <1>7, RestartBound
  <2>3. /\ answered \subseteq Requests /\ failed \subseteq Requests \ answered
        /\ gone \subseteq Requests
    BY <1>7
  <2> QED BY <1>4, <1>6, <1>7, <2>1, <2>2, <2>3 DEF GatewayTypeOK
<1> QED BY <1>1, <1>3, <1>5, <1>8 DEF GatewayInv

LEMMA ServiceStepIsNext == ServiceStep => [Next]_vars
BY DEF ServiceStep, Next

LEMMA TornTable ==
  ASSUME NEW t \in Tables, NEW b
  PROVE  /\ [t EXCEPT !.torn = @ \/ b] \in Tables
         /\ ~b => [t EXCEPT !.torn = @ \/ b] = t
<1>1. (t.torn \/ b) \in BOOLEAN
  OBVIOUS
<1>2. [t EXCEPT !.torn = @ \/ b] \in Tables
  BY <1>1 DEF Tables
<1>3. ASSUME ~b PROVE [t EXCEPT !.torn = @ \/ b] = t
  <2>1. t.torn \/ b <=> t.torn
    BY <1>3
  <2> QED BY <1>3, <2>1 DEF Tables
<1> QED BY <1>2, <1>3

LEMMA GatewayStepInv == GatewayInv /\ [GatewayNext]_<<vars, gatewayVars>> => GatewayInv'
<1> SUFFICES ASSUME GatewayInv, [GatewayNext]_<<vars, gatewayVars>> PROVE GatewayInv'
  OBVIOUS
<1>0. /\ stored \in Tables /\ draft \in Tables
      /\ saving \in [by : Requests \cup {None}, next : {None, "escrow", "pool", "receipts"}]
      /\ answered \subseteq Requests /\ failed \subseteq Requests \ answered
      /\ gone \subseteq Requests /\ tainted \in BOOLEAN /\ restarts \in 0..MaxRestarts
      /\ TypeInv /\ MaxRestarts \in Nat
  BY RestartBound DEF GatewayInv, GatewayTypeOK
<1>1. /\ balances \in [Accounts -> Nat] /\ escrow \in FullEscrows
      /\ fee_pool \in Nat /\ receipts \in SUBSET Txs
  BY <1>0, LiveTables
<1> DEFINE
      Held == saving = Idle \/ /\ saving.by \in Requests \ (answered \cup failed \cup gone)
                               /\ saving.next \in {"escrow", "pool", "receipts"}
      Same == saving = Idle => [draft EXCEPT !.torn = stored.torn] = stored
<1>2. Held /\ Same
  BY DEF GatewayInv, GatewayTypeOK
<1>3. /\ Idle \in [by : Requests \cup {None}, next : {None, "escrow", "pool", "receipts"}]
      /\ Idle.next = None /\ None \notin {"escrow", "pool", "receipts"}
  BY DEF Idle, None
<1> DEFINE Parts ==
      /\ TypeInv /\ Held /\ Same
      /\ stored \in Tables /\ draft \in Tables
      /\ saving \in [by : Requests \cup {None}, next : {None, "escrow", "pool", "receipts"}]
      /\ answered \subseteq Requests /\ failed \subseteq Requests \ answered
      /\ gone \subseteq Requests /\ tainted \in BOOLEAN
      /\ restarts \in 0..MaxRestarts
<1>4. SUFFICES Parts'
  BY TablesAreSnapshots DEF GatewayInv, GatewayTypeOK
<1>5. CASE ServiceStep
  <2>1. TypeInv'
    BY <1>0, <1>5, ServiceStepIsNext, StepTypeInv
  <2>2. draft' = [draft EXCEPT !.torn = @ \/ (saving # Idle /\ moneyVars' # moneyVars)]
    BY <1>5 DEF ServiceStep
  <2>3. draft' \in Tables /\ (saving = Idle => draft' = draft)
    <3>1. draft \in Tables
      BY <1>0
    <3>2. draft' \in Tables
      BY <2>2, <3>1, TornTable
    <3>3. ASSUME saving = Idle PROVE draft' = draft
      BY <2>2, <3>1, <3>3, TornTable
    <3> QED BY <3>2, <3>3
  <2> QED BY <1>0, <1>2, <1>5, <2>1, <2>3 DEF ServiceStep
<1>6. ASSUME NEW r \in Requests, BeginSave(r) PROVE Parts'
  <2>1. /\ TypeInv'
    BY <1>0, <1>6, StepTypeInv DEF BeginSave
  <2>2. draft' \in Tables
    <3>1. draft' = [stored EXCEPT !.balances = balances, !.torn = tainted]
      BY <1>6 DEF BeginSave
    <3> QED BY <1>0, <1>1, <3>1 DEF Tables
  <2>3. saving' = [by |-> r, next |-> "escrow"] /\ saving' # Idle
    BY <1>6 DEF BeginSave, Idle, None
  <2>4. Held'
    BY <1>6, <2>3 DEF BeginSave, Waiting
  <2> QED BY <1>0, <1>6, <2>1, <2>2, <2>3, <2>4 DEF BeginSave
<1>7. ASSUME NEW r \in Requests, LockTimeout(r) PROVE Parts'
  <2>1. /\ TypeInv'
    BY <1>0, <1>7, StepTypeInv DEF LockTimeout
  <2> QED BY <1>0, <1>2, <1>7, <2>1 DEF LockTimeout, Waiting
<1>8. CASE SaveEscrow \/ SavePool
  <2>1. /\ TypeInv'
    BY <1>0, <1>8, StepTypeInv DEF SaveEscrow, SavePool
  <2> QED BY <1>0, <1>1, <1>2, <1>3, <1>8, <2>1 DEF SaveEscrow, SavePool, Tables
<1>9. CASE CommitSave
  <2>1. /\ TypeInv'
    BY <1>0, <1>9, StepTypeInv DEF CommitSave
  <2>2. stored' \in Tables /\ draft' = stored'
    BY <1>0, <1>1, <1>9 DEF CommitSave, Tables
  <2>3. [draft' EXCEPT !.torn = stored'.torn] = stored'
    BY <2>2 DEF Tables
  <2>4. saving.by \in Requests \ (answered \cup failed \cup gone)
    BY <1>2, <1>3, <1>9 DEF CommitSave
  <2> QED BY <1>0, <1>3, <1>9, <2>1, <2>2, <2>3, <2>4 DEF CommitSave
<1>10. CASE Restart
  <2>1. /\ balances' \in [Accounts -> Nat] /\ escrow' \in FullEscrows
        /\ fee_pool' \in Nat /\ receipts' \subseteq Txs /\ transactions' = {}
    BY <1>0, <1>10 DEF Restart, Tables
  <2>2. PICK S \in SUBSET Txs : escrow' = [t \in S |-> Total(t)]
    BY <2>1 DEF FullEscrows
  <2>3. LedgerTypeOK' /\ HeldInFull'
    <3>1. \A t \in S : Total(t) \in Nat /\ t \in Txs
      BY TotalType
    <3>2. state' \in [Txs -> TransactionState]
      BY <1>0, <1>10 DEF Restart, TypeInv, TypeOK, LedgerTypeOK
    <3> QED BY <2>1, <2>2, <3>1, <3>2 DEF LedgerTypeOK, HeldInFull
  <2>4. TypeInv'
    BY <1>0, <1>10, <2>1, <2>3
       DEF Restart, TypeInv, TypeOK, PendingIsTarget, disputeVars, DisputesTypeOK
  <2>5. [stored EXCEPT !.torn = stored.torn] = stored /\ stored.torn \in BOOLEAN
    BY <1>0 DEF Tables
  <2>6. gone' \subseteq Requests
    BY <1>0, <1>10 DEF Restart, Requests
  <2> QED BY <1>0, <1>3, <1>10, <2>4, <2>5, <2>6 DEF Restart
<1>11. CASE UNCHANGED <<vars, gatewayVars>>
  <2>1. TypeInv'
    BY <1>0, <1>11, StepTypeInv
  <2> QED BY <1>0, <1>2, <1>11, <2>1 DEF gatewayVars
<1> QED BY <1>5, <1>6, <1>7, <1>8, <1>9, <1>10, <1>11 DEF GatewayNext
-----------------------------------------------------------------------------
(* The events of the service *)

\* Every event is one of three kinds, and a kind and its subject name it.
LEMMA EventCases ==
    \A e \in Events :
        \/ e[1] = "receipt" /\ e[2] \in Txs /\ e = Receipt(e[2])
        \/ e[1] = "opened" /\ e[2] \in Disputes /\ e = Opened(e[2])
        \/ e[1] = "closed" /\ e[2] \in Disputes /\ e = Closed(e[2])
BY DEF Events, Receipt, Opened, Closed

LEMMA EventNames ==
    /\ \A t \in Txs : Receipt(t) \in Events /\ Receipt(t)[1] = "receipt" /\ Receipt(t)[2] = t
    /\ \A d \in Disputes : /\ Opened(d) \in Events /\ Opened(d)[1] = "opened"
                           /\ Opened(d)[2] = d
                           /\ Closed(d) \in Events /\ Closed(d)[1] = "closed"
                           /\ Closed(d)[2] = d
BY DEF Events, Receipt, Opened, Closed

\* An event has been emitted when the service's records show it.
Happened(e) ==
    \/ e[1] = "receipt" /\ e[2] \in receipts
    \/ e[1] = "opened" /\ e[2] \in DOMAIN disputes
    \/ e[1] = "closed" /\ IsResolved(e[2])

LEMMA EmittedHappened ==
    ASSUME TypeInv
    PROVE  /\ Emitted \subseteq Events
           /\ \A e \in Events : e \in Emitted <=> Happened(e)
<1>1. receipts \subseteq Txs /\ DOMAIN disputes \subseteq Disputes
  BY DEF TypeInv, TypeOK, DisputesTypeOK
<1>2. Emitted \subseteq Events
  BY <1>1 DEF Emitted, Events
<1>3. ASSUME NEW t \in Txs PROVE Receipt(t) \in Emitted <=> t \in receipts
  BY DEF Emitted, Receipt, Opened, Closed
<1>4. ASSUME NEW d \in Disputes PROVE Opened(d) \in Emitted <=> d \in DOMAIN disputes
  BY DEF Emitted, Receipt, Opened, Closed
<1>5. ASSUME NEW d \in Disputes PROVE Closed(d) \in Emitted <=> IsResolved(d)
  BY DEF Emitted, Receipt, Opened, Closed
<1> QED BY <1>2, <1>3, <1>4, <1>5, EventCases, EventNames DEF Happened

\* What a dispute's call does to the disputes: it records one, resolves one
\* that is unresolved, or none of these.
Changes(d) ==
    /\ \A e \in DOMAIN disputes \ {d} : e \in DOMAIN disputes' /\ disputes'[e] = disputes[e]
    /\ DOMAIN disputes' \subseteq DOMAIN disputes \cup {d}
    /\ d \in DOMAIN disputes =>
          /\ d \in DOMAIN disputes' /\ Subject(d)' = Subject(d)
          /\ disputes[d].resolution # None => disputes'[d].resolution = disputes[d].resolution
    /\ d \notin DOMAIN disputes /\ d \in DOMAIN disputes' => disputes'[d].resolution = None

LEMMA DisputeStepChanges ==
    ASSUME DisputesTypeOK, DisputeInv, NEW t \in Txs, NEW d \in Disputes, DisputeStep(d, t)
    PROVE  Changes(d)
<1> USE DEF Changes, Subject
<1>1. CASE UNCHANGED disputes
  BY <1>1
<1>2. CASE RecordDispute(d, t)
  <2>1. /\ DOMAIN disputes' = DOMAIN disputes \cup {d}
        /\ disputes'[d] = [transaction_id |-> t, resolution |-> None]
        /\ \A e \in DOMAIN disputes \ {d} : disputes'[e] = disputes[e]
    BY <1>2, NewDisputeType DEF RecordDispute
  <2>2. d \notin DOMAIN disputes
    BY <1>2, NoneIsNoTx DEF RecordDispute, DisputeInv, OpeningIsNew
  <2> QED BY <2>1, <2>2
<1>3. ASSUME NEW r \in Resolution, d \in DOMAIN disputes, disputes[d].resolution = None,
             Resolve(d, r)
      PROVE  Changes(d)
  BY <1>3, ResolveType
<1>4. CASE ResolveDispute(d, t)
  <2>1. /\ d \in DOMAIN disputes /\ disputes[d].resolution = None
        /\ UNCHANGED disputes \/ \E r \in {"split", "settle"} : Resolve(d, r)
    BY <1>4, ResolutionShape DEF Unresolved
  <2> QED BY <1>1, <1>3, <2>1 DEF Resolution
<1>5. CASE WriteOutcome(d, t)
  <2>1. /\ d \in DOMAIN disputes /\ resolving[d] \in Resolution /\ Resolve(d, resolving[d])
    BY <1>5, WriteOutcomeShape
  <2>2. disputes[d].resolution = None
    BY <1>5, <2>1 DEF WriteOutcome, DisputeInv, WrittenOnce
  <2> QED BY <1>3, <2>1, <2>2
<1> QED BY <1>1, <1>2, <1>4, <1>5
        DEF DisputeStep, OpeningStep, CheckDispute, WriteDispute

\* An emitted event stays, about the same agent and with the same outcome.
EventsStay ==
    /\ Emitted \subseteq Emitted'
    /\ \A e \in Emitted : TxOfEvent(e)' = TxOfEvent(e)
    /\ \A d \in Disputes : IsResolved(d) =>
          IsResolved(d)' /\ disputes'[d].resolution = disputes[d].resolution

\* A step of the service emits one event at most.
EmitsOne == \A e, f \in Emitted' \ Emitted : e = f

LEMMA StepEmitsOne ==
    ASSUME TypeInv, DecisionInv, [Next]_vars
    PROVE  EventsStay /\ EmitsOne
<1>0. /\ DOMAIN disputes \subseteq Disputes /\ DisputesTypeOK /\ DisputeInv
      /\ Emitted \subseteq Events
      /\ \A e \in Events : e \in Emitted <=> Happened(e)
  BY EmittedHappened DEF TypeInv, TypeOK, DisputesTypeOK, DecisionInv
<1>1. /\ Emitted' \subseteq Events
      /\ \A e \in Events : e \in Emitted' <=> Happened(e)'
  <2>1. TypeInv'
    BY StepTypeInv
  <2>2. receipts' \subseteq Txs /\ DOMAIN disputes' \subseteq Disputes
    BY <2>1 DEF TypeInv, TypeOK, DisputesTypeOK
  <2>3. Emitted' \subseteq Events
    BY <2>2 DEF Emitted, Events
  <2>4. ASSUME NEW t \in Txs PROVE Receipt(t) \in Emitted' <=> t \in receipts'
    BY DEF Emitted, Receipt, Opened, Closed
  <2>5. ASSUME NEW d \in Disputes PROVE Opened(d) \in Emitted' <=> d \in DOMAIN disputes'
    BY DEF Emitted, Receipt, Opened, Closed
  <2>6. ASSUME NEW d \in Disputes PROVE Closed(d) \in Emitted' <=> IsResolved(d)'
    BY DEF Emitted, Receipt, Opened, Closed
  <2> QED BY <2>3, <2>4, <2>5, <2>6, EventCases, EventNames DEF Happened
<1> USE DEF TxOfEvent, IsResolved, Subject
<1>2. ASSUME NEW t \in Txs, UNCHANGED disputes,
             receipts' = receipts \/ receipts' = receipts \cup {t}
      PROVE  EventsStay /\ EmitsOne
  BY <1>0, <1>1, <1>2, EventCases DEF EventsStay, EmitsOne, Happened
<1>3. ASSUME NEW d \in Disputes, Changes(d), UNCHANGED receipts
      PROVE  EventsStay /\ EmitsOne
  <2>1. \A e \in DOMAIN disputes : /\ e \in DOMAIN disputes' /\ Subject(e)' = Subject(e)
                                   /\ IsResolved(e) => /\ IsResolved(e)'
                                        /\ disputes'[e].resolution = disputes[e].resolution
    BY <1>0, <1>3 DEF Changes
  <2>2. EventsStay
    BY <1>0, <1>1, <1>3, <2>1, EventCases DEF EventsStay, Happened
  <2>3. \A e \in Emitted' \ Emitted : e[2] = d /\ (e[1] = "opened" \/ e[1] = "closed")
    BY <1>0, <1>1, <1>3, EventCases DEF Changes, Happened
  <2>4. ~(Opened(d) \in Emitted' \ Emitted /\ Closed(d) \in Emitted' \ Emitted)
    <3>1. d \in DOMAIN disputes' \ DOMAIN disputes => ~IsResolved(d)'
      BY <1>3 DEF Changes
    <3> QED BY <1>0, <1>1, <3>1, EventNames DEF Happened
  <2> QED BY <1>1, <2>2, <2>3, <2>4, EventCases DEF EmitsOne
<1>4. ASSUME NEW t \in Txs, ClearStep(t) PROVE EventsStay /\ EmitsOne
  <2>1. UNCHANGED disputes
    BY <1>4, ClearKeepsDisputes
  <2>2. receipts' = receipts \/ receipts' = receipts \cup {t}
    BY <1>4 DEF ClearStep, Submit, Reject, HoldFunds, InsufficientCredit, EmitHeld,
       CheckTransition, WriteTransition, Run, VerifyProof, ReleaseFunds, RefundFunds,
       NoFundsHeld, IssueReceipt
  <2> QED BY <1>2, <2>1, <2>2
<1>5. ASSUME NEW t \in Txs, NEW d \in Disputes, DisputeCall(d, t)
      PROVE  EventsStay /\ EmitsOne
  BY <1>0, <1>3, <1>5, DisputeCallIsStep, DisputeStepChanges DEF callVars
<1>6. ASSUME UNCHANGED vars PROVE EventsStay /\ EmitsOne
  BY <1>0, <1>6 DEF vars, disputeVars, callVars, EventsStay, EmitsOne, Emitted
<1> QED BY <1>4, <1>5, <1>6 DEF Next
-----------------------------------------------------------------------------
(* What the subscribers count *)

Headings == {"settled", "disputed", "slashed", "refunded"}
HandlerPosition ==
    {"silent", "read_usage", "write_usage", "find", "create", "count", "done"}
CounterTypes ==
    [settled : Nat, disputed : Nat, slashed : Nat, refunded : Nat, volume : Int]

SubscriberTypes ==
    /\ handler \in [Events -> HandlerPosition]
    /\ \A e \in Events : handler[e] \in {"read_usage", "write_usage"} => e[1] = "receipt"
    /\ usage \in Nat /\ usage_read \in [Txs -> Nat]
    /\ record \in [Accounts -> Events \cup {NoRecord}]
    /\ found \in [Events -> Events \cup {NoRecord}]
    /\ counted \in [Events -> CounterTypes]
    /\ shares \in [Disputes -> Int]
    /\ clashed \in BOOLEAN

\* Handlers run for the events that were emitted, and for no other.
HandlersFollow == \A e \in Events : handler[e] = "silent" <=> e \notin Emitted

\* A record belongs to the agent of the event that created it, whoever counts
\* in it.
RecordsMatch ==
    /\ \A e \in Events : handler[e] = "count" => found[e] # NoRecord
    /\ \A e, r \in Events : handler[e] = "count" /\ found[e] = r =>
          r \in Emitted /\ AgentOf(r) = AgentOf(e)
    /\ \A a \in Accounts, r \in Events : record[a] = r =>
          r \in Emitted /\ AgentOf(r) = a

\* The heading an event is counted under.
Heading(e) ==
    CASE e[1] = "receipt" -> "settled"
      [] e[1] = "opened"  -> "disputed"
      [] e[1] = "closed"  ->
            CASE disputes[e[2]].resolution = "slash"  -> "slashed"
              [] disputes[e[2]].resolution = "refund" -> "refunded"
              [] OTHER                                -> "settled"

\* The events of an agent that are counted, and the receipts that are billed.
DoneUnder(a, h) == {e \in Events : handler[e] = "done" /\ AgentOf(e) = a /\ Heading(e) = h}
Billed ==
    {e \in Events : e[1] = "receipt" /\ handler[e] \in {"find", "create", "count", "done"}}

\* No record has more than was counted for its agent, and the usage that a
\* handler has read is never more than what is billed.
CountsBounded ==
    \A r \in Events :
        /\ r \notin Emitted => counted[r] = Counters
        /\ r \in Emitted => \A a \in Accounts, h \in Headings :
              AgentOf(r) = a => counted[r][h] <= Cardinality(DoneUnder(a, h))
UsageBounded ==
    /\ usage <= Cardinality(Billed)
    /\ \A t \in Txs : usage_read[t] <= Cardinality(Billed)

SubscriberInv ==
    /\ SubscriberTypes /\ HandlersFollow /\ RecordsMatch /\ CountsBounded /\ UsageBounded

LEMMA NoRecordIsNoEvent == NoRecord \notin Events
BY DEF NoRecord, Events, Receipt, Opened, Closed

LEMMA EventsFinite ==
    /\ IsFiniteSet(Events)
    /\ \A S \in SUBSET Events : IsFiniteSet(S) /\ Cardinality(S) \in Nat
<1> DEFINE R == {Receipt(t) : t \in Txs}
           O == {Opened(d) : d \in Disputes}
           C == {Closed(d) : d \in Disputes}
<1>1. IsFiniteSet(R)
  <2>1. [t \in Txs |-> Receipt(t)] \in Surjection(Txs, R)
    BY DEF Surjection
  <2> QED BY <2>1, ParameterTypes, FS_Surjection
<1>2. IsFiniteSet(O)
  <2>1. [d \in Disputes |-> Opened(d)] \in Surjection(Disputes, O)
    BY DEF Surjection
  <2> QED BY <2>1, FiniteDisputes, FS_Surjection
<1>3. IsFiniteSet(C)
  <2>1. [d \in Disputes |-> Closed(d)] \in Surjection(Disputes, C)
    BY DEF Surjection
  <2> QED BY <2>1, FiniteDisputes, FS_Surjection
<1>4. IsFiniteSet(R \cup O \cup C)
  BY <1>1, <1>2, <1>3, FS_Union
<1>5. IsFiniteSet(Events)
  BY <1>4 DEF Events
<1> QED BY <1>5, FS_Subset, FS_CardinalityType

LEMMA CountersType ==
    /\ Counters \in CounterTypes
    /\ \A c \in CounterTypes, h \in Headings : c[h] \in Nat
    /\ \A h \in Headings : Counters[h] = 0
BY DEF Counters, CounterTypes, Headings

\* Where the events stay, their agents and headings do.
LEMMA EmittedFixed ==
    ASSUME TypeInv, EventsStay, NEW e \in Emitted
    PROVE  /\ AgentOf(e)' = AgentOf(e) /\ AgentOf(e) \in Accounts
           /\ Heading(e)' = Heading(e) /\ Heading(e) \in Headings
<1>1. e \in Events /\ Happened(e)
  BY EmittedHappened
<1>2. TxOfEvent(e) \in Txs
  BY <1>1, EventCases DEF Happened, TxOfEvent, IsResolved, TypeInv, TypeOK, DisputesTypeOK
<1>3. AgentOf(e)' = AgentOf(e) /\ AgentOf(e) \in Accounts
  BY <1>2, ParameterTypes DEF AgentOf, EventsStay
<1>4. e[1] = "closed" =>
         e[2] \in Disputes /\ disputes'[e[2]].resolution = disputes[e[2]].resolution
  BY <1>1, EventCases DEF Happened, EventsStay
<1>5. Heading(e)' = Heading(e)
  BY <1>1, <1>4, EventCases DEF Heading
<1>6. Heading(e) \in Headings
  BY <1>1, EventCases DEF Heading, Headings
<1> QED BY <1>3, <1>5, <1>6

\* A handler's own steps leave the service, and so the events, alone.
LEMMA QuietEvents ==
    ASSUME UNCHANGED vars
    PROVE  /\ EventsStay /\ Emitted' = Emitted
           /\ \A e \in Events : AgentOf(e)' = AgentOf(e) /\ Heading(e)' = Heading(e)
<1>1. UNCHANGED <<disputes, receipts>>
  BY DEF vars, disputeVars, callVars
<1> QED BY <1>1 DEF EventsStay, Emitted, IsResolved, TxOfEvent, AgentOf, Heading

LEMMA SettlesAdds ==
    ASSUME NEW c \in CounterTypes, NEW n \in Int
    PROVE  /\ Settles(c, n) \in CounterTypes
           /\ \A h \in Headings :
                 Settles(c, n)[h] = c[h] + (IF h = "settled" THEN 1 ELSE 0)
           /\ Settles(c, n).volume = c.volume + n
<1>1. /\ c.settled \in Nat /\ c.disputed \in Nat /\ c.slashed \in Nat /\ c.refunded \in Nat
      /\ c.volume \in Int
  BY DEF CounterTypes
<1>2. Settles(c, n) = [settled |-> c.settled + 1, disputed |-> c.disputed,
                       slashed |-> c.slashed, refunded |-> c.refunded,
                       volume |-> c.volume + n]
  <2> DEFINE one == [c EXCEPT !.settled = c.settled + 1]
  <2>1. one = [settled |-> c.settled + 1, disputed |-> c.disputed, slashed |-> c.slashed,
               refunded |-> c.refunded, volume |-> c.volume]
    BY <1>1 DEF CounterTypes
  <2>2. Settles(c, n) = [one EXCEPT !.volume = one.volume + n]
    BY <1>1 DEF Settles, CounterTypes
  <2> HIDE DEF one
  <2> QED BY <1>1, <2>1, <2>2
<1>3. Settles(c, n) \in CounterTypes
  BY <1>1, <1>2 DEF CounterTypes
<1>4. /\ Settles(c, n)["settled"] = c["settled"] + 1
      /\ Settles(c, n)["disputed"] = c["disputed"] /\ c["disputed"] \in Nat
      /\ Settles(c, n)["slashed"] = c["slashed"] /\ c["slashed"] \in Nat
      /\ Settles(c, n)["refunded"] = c["refunded"] /\ c["refunded"] \in Nat
  BY <1>1, <1>2
<1>5. ASSUME NEW h \in Headings
      PROVE  Settles(c, n)[h] = c[h] + (IF h = "settled" THEN 1 ELSE 0)
  BY <1>1, <1>4 DEF Headings
<1> QED BY <1>1, <1>2, <1>3, <1>5

LEMMA CountInAdds ==
    ASSUME NEW e \in Emitted, TypeInv, NEW c \in CounterTypes, shares \in [Disputes -> Int]
    PROVE  /\ CountIn(e, c) \in CounterTypes
           /\ \A h \in Headings : CountIn(e, c)[h] = c[h] + (IF h = Heading(e) THEN 1 ELSE 0)
<1>1. e \in Events /\ Happened(e)
  BY EmittedHappened
<1>2. /\ c.settled \in Nat /\ c.disputed \in Nat /\ c.slashed \in Nat /\ c.refunded \in Nat
      /\ c.volume \in Int
  BY DEF CounterTypes
<1>3. CASE e[1] = "receipt"
  <2>1. e[2] \in Txs
    BY <1>1, <1>3, EventCases
  <2>2. /\ CountIn(e, c) = Settles(c, Amount[e[2]]) /\ Amount[e[2]] \in Int
        /\ Heading(e) = "settled"
    BY <1>3, <2>1, TotalType DEF CountIn, Heading
  <2> QED BY <2>2, SettlesAdds
<1>4. CASE e[1] = "opened"
  <2>1. CountIn(e, c) = [c EXCEPT !.disputed = @ + 1]
    BY <1>4 DEF CountIn
  <2> QED BY <1>2, <1>4, <2>1 DEF Heading, Headings, CounterTypes
<1>5. CASE e[1] = "closed"
  <2> DEFINE d == e[2]
  <2>1. d \in Disputes /\ d \in DOMAIN disputes /\ disputes[d].transaction_id \in Txs
    BY <1>1, <1>5, EventCases DEF Happened, IsResolved, TypeInv, TypeOK, DisputesTypeOK
  <2>2. SettledAmount(d) \in Int
    BY <2>1, TotalType DEF SettledAmount
  <2> HIDE DEF d
  <2>3. CASE disputes[d].resolution = "slash"
    <3>1. CountIn(e, c) = [c EXCEPT !.slashed = @ + 1] /\ Heading(e) = "slashed"
      BY <1>5, <2>3 DEF CountIn, Heading, d
    <3> QED BY <1>2, <3>1 DEF Headings, CounterTypes
  <2>4. CASE disputes[d].resolution = "refund"
    <3>1. CountIn(e, c) = [c EXCEPT !.refunded = @ + 1] /\ Heading(e) = "refunded"
      BY <1>5, <2>4 DEF CountIn, Heading, d
    <3> QED BY <1>2, <3>1 DEF Headings, CounterTypes
  <2>5. CASE disputes[d].resolution \notin {"slash", "refund"}
    <3>1. CountIn(e, c) = Settles(c, SettledAmount(d)) /\ Heading(e) = "settled"
      BY <1>5, <2>5 DEF CountIn, Heading, d
    <3> QED BY <2>2, <3>1, SettlesAdds
  <2> QED BY <2>3, <2>4, <2>5
<1> QED BY <1>1, <1>3, <1>4, <1>5, EventCases

LEMMA InitSubscriberInv == Init /\ SubscribersInit => SubscriberInv
<1> SUFFICES ASSUME Init, SubscribersInit PROVE SubscriberInv
  OBVIOUS
<1>1. \A e \in Events : e \notin Emitted
  BY InitTypeInv, EmittedHappened
     DEF Init, DisputesInit, Happened, IsResolved
<1>2. SubscriberTypes
  <2>1. clashed \in BOOLEAN
    BY DEF SubscribersInit
  <2>2. counted \in [Events -> CounterTypes]
    BY CountersType DEF SubscribersInit
  <2> QED BY <2>1, <2>2 DEF SubscribersInit, SubscriberTypes, HandlerPosition
<1>3. HandlersFollow /\ RecordsMatch
  BY <1>1, NoRecordIsNoEvent DEF SubscribersInit, HandlersFollow, RecordsMatch
<1>4. CountsBounded
  BY <1>1 DEF SubscribersInit, CountsBounded
<1>5. UsageBounded
  <2>1. Billed \in SUBSET Events
    BY DEF Billed
  <2>2. Cardinality(Billed) \in Nat
    BY <2>1, EventsFinite
  <2> QED BY <2>2 DEF SubscribersInit, UsageBounded
<1> QED BY <1>2, <1>3, <1>4, <1>5 DEF SubscriberInv

\* What emit() starts, it starts for new events only.
LEMMA EmitNewStarts ==
    ASSUME TypeInv, EventsStay, SubscriberInv, EmitNew
    PROVE  /\ handler' \in [Events -> HandlerPosition]
           /\ \A e \in Events : e \in Emitted => handler'[e] = handler[e]
           /\ \A e \in Events : e \notin Emitted /\ e \in Emitted' =>
                 handler'[e] = IF e[1] = "receipt" THEN "read_usage" ELSE "find"
           /\ \A e \in Events : e \notin Emitted' => handler'[e] = "silent" /\ e \notin Emitted
<1>1. /\ handler \in [Events -> HandlerPosition] /\ Emitted \subseteq Emitted'
      /\ \A e \in Events : handler[e] = "silent" <=> e \notin Emitted
  BY DEF SubscriberInv, SubscriberTypes, HandlersFollow, EventsStay
<1>2. DOMAIN handler' = Events
  BY DEF EmitNew
<1>3. ASSUME NEW e \in Events
      PROVE  /\ e \in Emitted => handler'[e] = handler[e]
             /\ e \notin Emitted' => handler'[e] = handler[e]
             /\ e \notin Emitted /\ e \in Emitted' =>
                   handler'[e] = IF e[1] = "receipt" THEN "read_usage" ELSE "find"
  <2>1. handler'[e] = IF e \notin Emitted' \ Emitted THEN handler[e]
                      ELSE IF e[1] = "receipt" THEN "read_usage" ELSE "find"
    BY DEF EmitNew
  <2> QED BY <2>1
<1>4. \A e \in Events : handler'[e] \in HandlerPosition
  BY <1>1, <1>3 DEF HandlerPosition
<1>5. handler' \in [Events -> HandlerPosition]
  BY <1>2, <1>4 DEF EmitNew
<1> QED BY <1>1, <1>3, <1>5

\* A step of the service counts nothing.
LEMMA ServeCountsNothing ==
    ASSUME TypeInv, EventsStay, SubscriberInv, EmitNew
    PROVE  /\ \A a, h : DoneUnder(a, h)' = DoneUnder(a, h)
           /\ Billed' = Billed
<1>1. \A e \in Events : /\ handler'[e] = "done" <=> handler[e] = "done"
                        /\ handler[e] = "done" => e \in Emitted
                        /\ e[1] = "receipt" =>
                              (handler'[e] \in {"find", "create", "count", "done"}
                                  <=> handler[e] \in {"find", "create", "count", "done"})
  BY EmitNewStarts DEF SubscriberInv, HandlersFollow
<1>2. Billed' = Billed
  BY <1>1 DEF Billed
<1> QED BY <1>1, <1>2, EmittedFixed DEF DoneUnder

\* Whatever a resolution's caller has sent, a number is stored.
LEMMA ServeSharesType ==
    ASSUME TypeInv, TypeInv', shares \in [Disputes -> Int], Serve
    PROVE  shares' \in [Disputes -> Int]
<1>1. PICK asked \in ProviderAmounts \cup {0} :
          shares' = [d \in Disputes |->
                        IF Closed(d) \in Emitted' \ Emitted THEN StoredShare(d, asked)
                                                            ELSE shares[d]]
  BY DEF Serve
<1>2. ASSUME NEW d \in Disputes, Closed(d) \in Emitted' PROVE StoredShare(d, asked) \in Int
  <2>1. d \in DOMAIN disputes'
    BY <1>2 DEF Emitted, Closed, Receipt, Opened, IsResolved
  <2>2. Receiver[disputes'[d].transaction_id] \in Accounts
    BY <2>1, ParameterTypes DEF TypeInv, TypeOK, DisputesTypeOK
  <2>3. balances \in [Accounts -> Nat] /\ balances' \in [Accounts -> Nat]
    BY DEF TypeInv, TypeOK, LedgerTypeOK
  <2>4. asked \in Int
    BY ParameterTypes
  <2> QED BY <2>2, <2>3, <2>4 DEF StoredShare
<1> QED BY <1>1, <1>2

LEMMA ServeSubscriberInv ==
    ASSUME TypeInv, DecisionInv, SubscriberInv, Serve
    PROVE  SubscriberInv'
<1>0. /\ EventsStay /\ EmitNew /\ TypeInv'
      /\ UNCHANGED <<usage, usage_read, record, found, counted>>
  BY StepEmitsOne, StepTypeInv DEF Serve
<1>1. SubscriberTypes'
  <2>1. \A e \in Events : handler'[e] \in {"read_usage", "write_usage"} => e[1] = "receipt"
    BY <1>0, EmitNewStarts DEF SubscriberInv, SubscriberTypes
  <2>2. shares' \in [Disputes -> Int]
    BY <1>0, ServeSharesType DEF SubscriberInv, SubscriberTypes
  <2>3. clashed' \in BOOLEAN
    BY <1>0 DEF EmitNew
  <2> QED BY <1>0, <2>1, <2>2, <2>3, EmitNewStarts DEF SubscriberInv, SubscriberTypes
<1>2. HandlersFollow'
  BY <1>0, EmitNewStarts DEF SubscriberInv, HandlersFollow
<1>3. RecordsMatch'
  <2>1. ASSUME NEW e \in Events, handler'[e] = "count"
        PROVE  /\ found[e] # NoRecord
               /\ \A r \in Events : found[e] = r => r \in Emitted' /\ AgentOf(r)' = AgentOf(e)'
    <3>1. handler[e] = "count" /\ e \in Emitted
      BY <1>0, <2>1, EmitNewStarts DEF SubscriberInv, HandlersFollow
    <3>2. found[e] # NoRecord
      BY <3>1 DEF SubscriberInv, RecordsMatch
    <3>3. ASSUME NEW r \in Events, found[e] = r
          PROVE  r \in Emitted' /\ AgentOf(r)' = AgentOf(e)'
      <4>1. r \in Emitted /\ AgentOf(r) = AgentOf(e)
        BY <3>1, <3>3 DEF SubscriberInv, RecordsMatch
      <4> QED BY <1>0, <3>1, <4>1, EmittedFixed DEF EventsStay
    <3> QED BY <3>2, <3>3
  <2>2. ASSUME NEW a \in Accounts, NEW r \in Events, record[a] = r
        PROVE  r \in Emitted' /\ AgentOf(r)' = a
    <3>1. r \in Emitted /\ AgentOf(r) = a
      BY <2>2 DEF SubscriberInv, RecordsMatch
    <3> QED BY <1>0, <3>1, EmittedFixed DEF EventsStay
  <2> QED BY <1>0, <2>1, <2>2 DEF RecordsMatch
<1>4. CountsBounded'
  <2>1. ASSUME NEW r \in Events, r \notin Emitted' PROVE counted'[r] = Counters
    BY <1>0, <2>1 DEF SubscriberInv, CountsBounded, EventsStay
  <2>2. ASSUME NEW r \in Events, r \in Emitted', NEW a \in Accounts, NEW h \in Headings,
               AgentOf(r)' = a
        PROVE  counted'[r][h] <= Cardinality(DoneUnder(a, h)')
    <3>0. DoneUnder(a, h)' = DoneUnder(a, h)
      BY <1>0, ServeCountsNothing
    <3>1. CASE r \in Emitted
      BY <1>0, <2>2, <3>0, <3>1, EmittedFixed DEF SubscriberInv, CountsBounded
    <3>2. CASE r \notin Emitted
      <4>1. counted'[r][h] = 0
        BY <1>0, <3>2, CountersType DEF SubscriberInv, CountsBounded
      <4>2. DoneUnder(a, h) \in SUBSET Events
        BY DEF DoneUnder
      <4>3. Cardinality(DoneUnder(a, h)) \in Nat
        BY <4>2, EventsFinite
      <4> QED BY <3>0, <4>1, <4>3
    <3> QED BY <3>1, <3>2
  <2> QED BY <2>1, <2>2 DEF CountsBounded
<1>5. UsageBounded'
  BY <1>0, ServeCountsNothing DEF SubscriberInv, UsageBounded
<1> QED BY <1>1, <1>2, <1>3, <1>4, <1>5 DEF SubscriberInv

\* One handler moves on, to a position that is not an end or to "done".
Moves(e, position) ==
    /\ e \in Emitted /\ handler[e] \notin {"silent", "done"}
    /\ handler' = [handler EXCEPT ![e] = position] /\ position \in HandlerPosition
    /\ position # "silent" /\ UNCHANGED <<vars, shares, clashed>>

\* What is done before the last position stays as it is.
LEMMA MovesCountNothing ==
    ASSUME TypeInv, SubscriberInv, NEW e, NEW position, Moves(e, position)
    PROVE  /\ HandlersFollow' /\ handler' \in [Events -> HandlerPosition]
           /\ UNCHANGED Emitted
           /\ \A f \in Events : AgentOf(f)' = AgentOf(f) /\ Heading(f)' = Heading(f)
           /\ \A f \in Events : f # e => handler'[f] = handler[f]
           /\ handler'[e] = position
           /\ position # "done" => \A a, h : DoneUnder(a, h)' = DoneUnder(a, h)
           /\ position = "done" => \A a, h :
                 DoneUnder(a, h)' = DoneUnder(a, h)
                    \cup (IF AgentOf(e) = a /\ Heading(e) = h THEN {e} ELSE {})
<1>1. /\ Emitted' = Emitted
      /\ \A f \in Events : AgentOf(f)' = AgentOf(f) /\ Heading(f)' = Heading(f)
  BY QuietEvents DEF Moves
<1>2. /\ handler \in [Events -> HandlerPosition] /\ e \in Events
      /\ \A f \in Events : handler[f] = "silent" <=> f \notin Emitted
  BY EmittedHappened DEF SubscriberInv, SubscriberTypes, HandlersFollow, Moves
<1>3. /\ handler' \in [Events -> HandlerPosition] /\ handler'[e] = position
      /\ \A f \in Events : f # e => handler'[f] = handler[f]
  BY <1>2 DEF Moves
<1>4. HandlersFollow'
  BY <1>1, <1>2, <1>3 DEF HandlersFollow, Moves
<1>5. ASSUME position # "done", NEW a, NEW h PROVE DoneUnder(a, h)' = DoneUnder(a, h)
  BY <1>1, <1>2, <1>3, <1>5 DEF DoneUnder, Moves
<1>6. ASSUME position = "done", NEW a, NEW h
      PROVE  DoneUnder(a, h)' = DoneUnder(a, h)
                \cup (IF AgentOf(e) = a /\ Heading(e) = h THEN {e} ELSE {})
  <2>1. e \notin DoneUnder(a, h)
    BY DEF DoneUnder, Moves
  <2>2. ASSUME NEW f \in Events, f # e
        PROVE  f \in DoneUnder(a, h)' <=> f \in DoneUnder(a, h)
    BY <1>1, <1>3, <2>2 DEF DoneUnder
  <2>3. e \in DoneUnder(a, h)' <=> AgentOf(e) = a /\ Heading(e) = h
    BY <1>1, <1>2, <1>3, <1>6 DEF DoneUnder
  <2>4. DoneUnder(a, h) \subseteq Events /\ DoneUnder(a, h)' \subseteq Events
    BY DEF DoneUnder
  <2> QED BY <1>2, <2>1, <2>2, <2>3, <2>4
<1> QED BY <1>1, <1>3, <1>4, <1>5, <1>6

\* Counts that nobody touches stay bounded.
LEMMA CountsUntouched ==
    ASSUME TypeInv, SubscriberInv, NEW e, NEW position, Moves(e, position),
           position # "done", UNCHANGED counted
    PROVE  CountsBounded'
<1>1. ASSUME NEW r \in Events, r \notin Emitted' PROVE counted'[r] = Counters
  BY <1>1, MovesCountNothing DEF SubscriberInv, CountsBounded
<1>2. ASSUME NEW r \in Events, r \in Emitted', NEW a \in Accounts, NEW h \in Headings,
             AgentOf(r)' = a
      PROVE  counted'[r][h] <= Cardinality(DoneUnder(a, h)')
  <2>1. /\ r \in Emitted /\ AgentOf(r) = a /\ DoneUnder(a, h)' = DoneUnder(a, h)
    BY <1>2, MovesCountNothing
  <2> QED BY <2>1 DEF SubscriberInv, CountsBounded
<1> QED BY <1>1, <1>2 DEF CountsBounded

LEMMA RecordsUntouched ==
    ASSUME TypeInv, SubscriberInv, NEW e, NEW position, Moves(e, position),
           position # "count", UNCHANGED <<found, record>>
    PROVE  RecordsMatch'
<1>1. ASSUME NEW f \in Events, handler'[f] = "count" PROVE handler[f] = "count"
  BY <1>1, MovesCountNothing
<1> QED BY <1>1, MovesCountNothing DEF SubscriberInv, RecordsMatch

LEMMA BilledUntouched ==
    ASSUME TypeInv, SubscriberInv, NEW e, NEW position, Moves(e, position),
           handler[e] \in {"find", "create", "count"}, position \in {"create", "count", "done"}
    PROVE  Billed' = Billed
<1>1. e \in Events
  BY EmittedHappened DEF Moves
<1> QED BY <1>1, MovesCountNothing DEF Billed

LEMMA RunningEmitted ==
    ASSUME TypeInv, SubscriberInv, NEW e \in Events, handler[e] # "silent"
    PROVE  e \in Emitted
BY DEF SubscriberInv, HandlersFollow

LEMMA ReadUsageInv ==
    ASSUME TypeInv, SubscriberInv, NEW t \in Txs, ReadUsage(t)
    PROVE  SubscriberInv'
<1> DEFINE e == Receipt(t)
<1>1. Moves(e, "write_usage") /\ e \in Events /\ e[1] = "receipt"
  BY EventNames, RunningEmitted
     DEF ReadUsage, HandlerAt, HandlerTo, Moves, HandlerPosition
<1> HIDE DEF e
<1>2. SubscriberTypes'
  <2>1. usage_read' \in [Txs -> Nat]
    BY DEF ReadUsage, SubscriberInv, SubscriberTypes
  <2> QED BY <1>1, <2>1, MovesCountNothing
          DEF ReadUsage, SubscriberInv, SubscriberTypes
<1>3. RecordsMatch' /\ CountsBounded' /\ HandlersFollow'
  BY <1>1, CountsUntouched, RecordsUntouched, MovesCountNothing DEF ReadUsage
<1>4. UsageBounded'
  <2>1. Billed' = Billed
    <3>1. handler[e] = "read_usage"
      BY DEF ReadUsage, HandlerAt, e
    <3> QED BY <1>1, <3>1, MovesCountNothing DEF Billed
  <2> QED BY <2>1 DEF ReadUsage, SubscriberInv, SubscriberTypes, UsageBounded
<1> QED BY <1>2, <1>3, <1>4, MovesCountNothing DEF SubscriberInv

LEMMA WriteUsageInv ==
    ASSUME TypeInv, SubscriberInv, NEW t \in Txs, WriteUsage(t)
    PROVE  SubscriberInv'
<1> DEFINE e == Receipt(t)
<1>1. Moves(e, "find") /\ e \in Events /\ e[1] = "receipt"
  BY EventNames, RunningEmitted
     DEF WriteUsage, HandlerAt, HandlerTo, Moves, HandlerPosition
<1>0. handler[e] = "write_usage"
  BY DEF WriteUsage, HandlerAt
<1> HIDE DEF e
<1>2. SubscriberTypes'
  <2>1. usage_read' \in [Txs -> Nat] /\ usage' \in Nat
    BY DEF WriteUsage, SubscriberInv, SubscriberTypes
  <2> QED BY <1>1, <2>1, MovesCountNothing
          DEF WriteUsage, SubscriberInv, SubscriberTypes
<1>3. RecordsMatch' /\ CountsBounded' /\ HandlersFollow'
  BY <1>1, CountsUntouched, RecordsUntouched, MovesCountNothing DEF WriteUsage
<1>4. UsageBounded'
  <2>1. Billed' = Billed \cup {e} /\ e \notin Billed
    BY <1>0, <1>1, MovesCountNothing DEF Billed
  <2>2. Billed \in SUBSET Events
    BY DEF Billed
  <2>3. Cardinality(Billed') = Cardinality(Billed) + 1 /\ Cardinality(Billed) \in Nat
    BY <2>1, <2>2, EventsFinite, FS_AddElement
  <2> QED BY <2>3 DEF WriteUsage, SubscriberInv, SubscriberTypes, UsageBounded
<1> QED BY <1>2, <1>3, <1>4, MovesCountNothing DEF SubscriberInv

LEMMA FindRecordInv ==
    ASSUME TypeInv, SubscriberInv, NEW e \in Events, FindRecord(e)
    PROVE  SubscriberInv'
<1> DEFINE a == AgentOf(e)
           position == IF record[a] = NoRecord THEN "create" ELSE "count"
<1>1. e \in Emitted /\ handler[e] = "find"
  BY RunningEmitted DEF FindRecord, HandlerAt
<1>2. Moves(e, position) /\ position \in {"create", "count"}
  BY <1>1 DEF FindRecord, HandlerTo, Moves, HandlerPosition
<1>3. a \in Accounts
  <2>1. UNCHANGED vars
    BY DEF FindRecord
  <2> QED BY <1>1, <2>1, QuietEvents, EmittedFixed
<1> HIDE DEF position
<1>4. SubscriberTypes'
  <2>1. found' \in [Events -> Events \cup {NoRecord}]
    BY <1>3 DEF FindRecord, SubscriberInv, SubscriberTypes
  <2> QED BY <1>2, <2>1, MovesCountNothing DEF FindRecord, SubscriberInv, SubscriberTypes
<1>5. RecordsMatch'
  <2>1. ASSUME NEW f \in Events, handler'[f] = "count"
        PROVE  /\ found'[f] # NoRecord
               /\ \A r \in Events : found'[f] = r => r \in Emitted /\ AgentOf(r) = AgentOf(f)
    <3>1. CASE f = e
      <4>1. record[a] # NoRecord /\ found'[e] = record[a]
        BY <1>2, <2>1, <3>1, MovesCountNothing
           DEF position, FindRecord, SubscriberInv, SubscriberTypes
      <4> QED BY <1>3, <3>1, <4>1 DEF SubscriberInv, RecordsMatch
    <3>2. CASE f # e
      <4>1. found'[f] = found[f] /\ handler[f] = "count"
        BY <1>2, <2>1, <3>2, MovesCountNothing DEF FindRecord, SubscriberInv, SubscriberTypes
      <4> QED BY <4>1 DEF SubscriberInv, RecordsMatch
    <3> QED BY <3>1, <3>2
  <2>2. ASSUME NEW b \in Accounts, NEW r \in Events, record'[b] = r
        PROVE  r \in Emitted /\ AgentOf(r) = b
    BY <2>2 DEF FindRecord, SubscriberInv, RecordsMatch
  <2>3. Emitted' = Emitted /\ \A f \in Events : AgentOf(f)' = AgentOf(f)
    BY <1>2, MovesCountNothing
  <2> QED BY <2>1, <2>2, <2>3 DEF RecordsMatch
<1>6. CountsBounded' /\ HandlersFollow'
  BY <1>2, CountsUntouched, MovesCountNothing DEF FindRecord
<1>7. UsageBounded'
  BY <1>1, <1>2, BilledUntouched DEF FindRecord, SubscriberInv, UsageBounded
<1> QED BY <1>4, <1>5, <1>6, <1>7 DEF SubscriberInv

LEMMA CreateRecordInv ==
    ASSUME TypeInv, SubscriberInv, NEW e \in Events, CreateRecord(e)
    PROVE  SubscriberInv'
<1> DEFINE a == AgentOf(e)
<1>1. e \in Emitted /\ handler[e] = "create"
  BY RunningEmitted DEF CreateRecord, HandlerAt
<1>2. Moves(e, "count")
  BY <1>1 DEF CreateRecord, HandlerTo, Moves, HandlerPosition
<1>3. a \in Accounts
  <2>1. UNCHANGED vars
    BY DEF CreateRecord
  <2> QED BY <1>1, <2>1, QuietEvents, EmittedFixed
<1>4. /\ found' = [found EXCEPT ![e] = e] /\ record' = [record EXCEPT ![a] = e]
      /\ found \in [Events -> Events \cup {NoRecord}]
      /\ record \in [Accounts -> Events \cup {NoRecord}]
  BY DEF CreateRecord, SubscriberInv, SubscriberTypes
<1>5. SubscriberTypes'
  <2>1. /\ found' \in [Events -> Events \cup {NoRecord}]
        /\ record' \in [Accounts -> Events \cup {NoRecord}]
    BY <1>4
  <2>2. \A f \in Events : handler'[f] \in {"read_usage", "write_usage"} => f[1] = "receipt"
    BY <1>2, MovesCountNothing DEF SubscriberInv, SubscriberTypes
  <2> QED BY <1>2, <2>1, <2>2, MovesCountNothing
          DEF CreateRecord, SubscriberInv, SubscriberTypes, Moves
<1>6. RecordsMatch'
  <2>1. ASSUME NEW f \in Events, handler'[f] = "count"
        PROVE  /\ found'[f] # NoRecord
               /\ \A r \in Events : found'[f] = r => r \in Emitted /\ AgentOf(r) = AgentOf(f)
    <3>1. CASE f = e
      BY <1>1, <1>4, <3>1, NoRecordIsNoEvent
    <3>2. CASE f # e
      <4>1. found'[f] = found[f] /\ handler[f] = "count"
        BY <1>2, <1>4, <2>1, <3>2, MovesCountNothing
      <4> QED BY <4>1 DEF SubscriberInv, RecordsMatch
    <3> QED BY <3>1, <3>2
  <2>2. ASSUME NEW b \in Accounts, NEW r \in Events, record'[b] = r
        PROVE  r \in Emitted /\ AgentOf(r) = b
    <3>1. CASE b = a
      BY <1>1, <1>3, <1>4, <2>2, <3>1
    <3>2. CASE b # a
      BY <1>4, <2>2, <3>2 DEF SubscriberInv, RecordsMatch
    <3> QED BY <3>1, <3>2
  <2>3. Emitted' = Emitted /\ \A f \in Events : AgentOf(f)' = AgentOf(f)
    BY <1>2, MovesCountNothing
  <2> QED BY <2>1, <2>2, <2>3 DEF RecordsMatch
<1>7. CountsBounded' /\ HandlersFollow'
  BY <1>2, CountsUntouched, MovesCountNothing DEF CreateRecord
<1>8. UsageBounded'
  BY <1>1, <1>2, BilledUntouched DEF CreateRecord, SubscriberInv, UsageBounded
<1> QED BY <1>5, <1>6, <1>7, <1>8 DEF SubscriberInv

LEMMA CountInv ==
    ASSUME TypeInv, SubscriberInv, NEW e \in Events, Count(e)
    PROVE  SubscriberInv'
<1> DEFINE r == found[e]
<1>1. e \in Emitted /\ handler[e] = "count"
  BY RunningEmitted DEF Count, HandlerAt
<1>2. Moves(e, "done")
  BY <1>1 DEF Count, HandlerTo, Moves, HandlerPosition
<1>3. /\ r \in Emitted /\ r \in Events /\ AgentOf(r) = AgentOf(e)
      /\ counted \in [Events -> CounterTypes] /\ shares \in [Disputes -> Int]
      /\ found \in [Events -> Events \cup {NoRecord}]
  BY <1>1, EmittedHappened DEF SubscriberInv, SubscriberTypes, RecordsMatch
<1>4. /\ counted' = [counted EXCEPT ![r] = CountIn(e, counted[r])]
      /\ CountIn(e, counted[r]) \in CounterTypes
      /\ \A h \in Headings : CountIn(e, counted[r])[h]
            = counted[r][h] + (IF h = Heading(e) THEN 1 ELSE 0)
  <2>1. counted[r] \in CounterTypes
    BY <1>3
  <2> QED BY <1>1, <1>3, <2>1, CountInAdds DEF Count
<1> HIDE DEF r
<1>5. SubscriberTypes'
  <2>1. counted' \in [Events -> CounterTypes] /\ found' \in [Events -> Events \cup {NoRecord}]
    BY <1>3, <1>4 DEF Count
  <2> QED BY <1>2, <2>1, MovesCountNothing DEF Count, SubscriberInv, SubscriberTypes
<1>6. RecordsMatch'
  <2>1. ASSUME NEW f \in Events, handler'[f] = "count"
        PROVE  /\ found'[f] # NoRecord
               /\ \A q \in Events : found'[f] = q => q \in Emitted /\ AgentOf(q) = AgentOf(f)
    <3>1. f # e
      BY <1>2, <2>1, MovesCountNothing
    <3>2. found'[f] = found[f] /\ handler[f] = "count"
      BY <1>2, <1>3, <2>1, <3>1, MovesCountNothing DEF Count
    <3> QED BY <3>2 DEF SubscriberInv, RecordsMatch
  <2>2. ASSUME NEW b \in Accounts, NEW q \in Events, record'[b] = q
        PROVE  q \in Emitted /\ AgentOf(q) = b
    BY <2>2 DEF Count, SubscriberInv, RecordsMatch
  <2>3. Emitted' = Emitted /\ \A f \in Events : AgentOf(f)' = AgentOf(f)
    BY <1>2, MovesCountNothing
  <2> QED BY <2>1, <2>2, <2>3 DEF RecordsMatch
<1>7. CountsBounded'
  <2>1. ASSUME NEW q \in Events, q \notin Emitted' PROVE counted'[q] = Counters
    <3>1. q \notin Emitted /\ q # r
      BY <1>2, <1>3, <2>1, MovesCountNothing
    <3> QED BY <1>3, <1>4, <3>1 DEF SubscriberInv, CountsBounded
  <2>2. ASSUME NEW q \in Events, q \in Emitted', NEW a \in Accounts, NEW h \in Headings,
               AgentOf(q)' = a
        PROVE  counted'[q][h] <= Cardinality(DoneUnder(a, h)')
    <3>1. q \in Emitted /\ AgentOf(q) = a
      BY <1>2, <2>2, MovesCountNothing
    <3>2. counted[q][h] <= Cardinality(DoneUnder(a, h)) /\ counted[q][h] \in Nat
      BY <1>3, <3>1, CountersType DEF SubscriberInv, CountsBounded
    <3>3. DoneUnder(a, h) \in SUBSET Events /\ e \notin DoneUnder(a, h)
      BY <1>1 DEF DoneUnder
    <3>4. Cardinality(DoneUnder(a, h)) \in Nat
      BY <3>3, EventsFinite
    <3>5. CASE AgentOf(e) = a /\ Heading(e) = h
      <4>1. DoneUnder(a, h)' = DoneUnder(a, h) \cup {e}
        BY <1>2, <3>5, MovesCountNothing
      <4>2. Cardinality(DoneUnder(a, h)') = Cardinality(DoneUnder(a, h)) + 1
        BY <3>3, <4>1, EventsFinite, FS_AddElement
      <4>3. counted'[q][h] = counted[q][h] \/ counted'[q][h] = counted[q][h] + 1
        BY <1>3, <1>4, <3>5
      <4> QED BY <3>2, <3>4, <4>2, <4>3
    <3>6. CASE ~(AgentOf(e) = a /\ Heading(e) = h)
      <4>1. DoneUnder(a, h)' = DoneUnder(a, h)
        <5>1. DoneUnder(a, h)' = DoneUnder(a, h)
                 \cup (IF AgentOf(e) = a /\ Heading(e) = h THEN {e} ELSE {})
          BY <1>2, MovesCountNothing
        <5>2. (IF AgentOf(e) = a /\ Heading(e) = h THEN {e} ELSE {}) = {}
          BY <3>6
        <5> QED BY <5>1, <5>2
      <4>2. counted'[q][h] = counted[q][h]
        <5>1. CASE q # r
          BY <1>3, <1>4, <5>1
        <5>2. CASE q = r
          <6>1. Heading(e) # h
            BY <1>3, <3>1, <3>6, <5>2
          <6> QED BY <1>3, <1>4, <3>2, <5>2, <6>1
        <5> QED BY <5>1, <5>2
      <4> QED BY <3>2, <4>1, <4>2
    <3> QED BY <3>5, <3>6
  <2> QED BY <2>1, <2>2 DEF CountsBounded
<1>8. HandlersFollow'
  BY <1>2, MovesCountNothing
<1>9. UsageBounded'
  BY <1>1, <1>2, BilledUntouched DEF Count, SubscriberInv, UsageBounded
<1> QED BY <1>5, <1>6, <1>7, <1>8, <1>9 DEF SubscriberInv
-----------------------------------------------------------------------------
(* Exact counts, as long as no two handlers have run at once *)

OneHandler == \A e, f \in Events : Running(e) /\ Running(f) => e = f

UsageExact ==
    /\ usage = Cardinality(Billed)
    /\ \A t \in Txs : handler[Receipt(t)] = "write_usage" => usage_read[t] = usage

RecordsExact ==
    \A a \in Accounts, h \in Headings :
        /\ record[a] = NoRecord => DoneUnder(a, h) = {}
        /\ \A r \in Events : record[a] = r => counted[r][h] = Cardinality(DoneUnder(a, h))

\* A handler that is alone has the record of its agent in hand, or there is none.
InHand ==
    \A e \in Events, a \in Accounts : AgentOf(e) = a =>
        /\ handler[e] = "create" => record[a] = NoRecord
        /\ handler[e] = "count" => found[e] = record[a]

ExactInv == ~clashed => OneHandler /\ UsageExact /\ RecordsExact /\ InHand

LEMMA InitExactInv == Init /\ SubscribersInit => ExactInv
<1> SUFFICES ASSUME Init, SubscribersInit
             PROVE  OneHandler /\ UsageExact /\ RecordsExact /\ InHand
  BY DEF ExactInv
<1>1. \A e \in Events : handler[e] = "silent"
  BY DEF SubscribersInit
<1>2. Billed = {} /\ \A a, h : DoneUnder(a, h) = {}
  BY <1>1 DEF Billed, DoneUnder
<1>3. Cardinality({}) = 0
  BY FS_EmptySet
<1>4. \A a \in Accounts, r \in Events : record[a] # r
  BY NoRecordIsNoEvent DEF SubscribersInit
<1>5. OneHandler
  BY <1>1 DEF OneHandler, Running, Ends
<1>6. UsageExact
  BY <1>1, <1>2, <1>3, EventNames DEF UsageExact, SubscribersInit
<1>7. RecordsExact
  BY <1>2, <1>4 DEF RecordsExact
<1>8. InHand
  BY <1>1 DEF InHand
<1> QED BY <1>5, <1>6, <1>7, <1>8

LEMMA ServeExactInv ==
    ASSUME TypeInv, DecisionInv, SubscriberInv, ExactInv, Serve
    PROVE  ExactInv'
<1> SUFFICES ASSUME ~clashed' PROVE (OneHandler /\ UsageExact /\ RecordsExact /\ InHand)'
  BY DEF ExactInv
<1>1. /\ EventsStay /\ EmitsOne /\ EmitNew
      /\ UNCHANGED <<usage, usage_read, record, found, counted>>
  BY StepEmitsOne DEF Serve
<1>2. /\ ~clashed
      /\ Emitted' = Emitted \/ \A e \in Events : ~Running(e)
  BY <1>1 DEF EmitNew
<1>3. OneHandler /\ UsageExact /\ RecordsExact /\ InHand
  BY <1>2 DEF ExactInv
<1>4. Billed' = Billed /\ \A a, h : DoneUnder(a, h)' = DoneUnder(a, h)
  BY <1>1, ServeCountsNothing
<1>5. ASSUME NEW e \in Events
      PROVE  /\ e \in Emitted => handler'[e] = handler[e]
             /\ e \notin Emitted => ~Running(e)
             /\ e \notin Emitted' => ~Running(e)'
             /\ e \notin Emitted => handler'[e] \notin {"write_usage", "create", "count"}
  BY <1>1, EmitNewStarts DEF Running, Ends, SubscriberInv, HandlersFollow
<1>6. OneHandler'
  <2>1. ASSUME NEW e \in Events, NEW f \in Events, Running(e)', Running(f)'
        PROVE  e = f
    <3>1. e \in Emitted' /\ f \in Emitted'
      BY <1>5, <2>1
    <3>2. CASE Emitted' = Emitted
      <4>1. Running(e) /\ Running(f)
        BY <1>5, <2>1, <3>1, <3>2 DEF Running
      <4> QED BY <1>3, <4>1 DEF OneHandler
    <3>3. CASE \A g \in Events : ~Running(g)
      <4>1. e \notin Emitted /\ f \notin Emitted
        BY <1>5, <2>1, <3>3 DEF Running
      <4> QED BY <1>1, <3>1, <4>1 DEF EmitsOne
    <3> QED BY <1>2, <3>2, <3>3
  <2> QED BY <2>1 DEF OneHandler
<1>7. UsageExact'
  <2>1. ASSUME NEW t \in Txs, handler'[Receipt(t)] = "write_usage"
        PROVE  usage_read[t] = usage
    BY <1>3, <1>5, <2>1, EventNames DEF UsageExact
  <2> QED BY <1>1, <1>3, <1>4, <2>1 DEF UsageExact
<1>8. RecordsExact'
  BY <1>1, <1>3, <1>4 DEF RecordsExact
<1>9. InHand'
  <2>1. ASSUME NEW e \in Events, NEW a \in Accounts, AgentOf(e)' = a,
               handler'[e] \in {"create", "count"}
        PROVE  handler[e] = handler'[e] /\ AgentOf(e) = a
    <3>1. e \in Emitted
      BY <1>5, <2>1
    <3> QED BY <1>1, <1>5, <2>1, <3>1, EmittedFixed
  <2> QED BY <1>1, <1>3, <2>1 DEF InHand
<1> QED BY <1>6, <1>7, <1>8, <1>9

\* The handler that moves is the only one.
LEMMA MovesAlone ==
    ASSUME TypeInv, SubscriberInv, NEW e, NEW position, Moves(e, position), OneHandler
    PROVE  /\ OneHandler' /\ e \in Events
           /\ \A f \in Events : f # e => handler'[f] \in Ends /\ handler[f] \in Ends
<1>1. /\ e \in Events /\ Running(e)
      /\ \A f \in Events : f # e => handler'[f] = handler[f]
  BY MovesCountNothing, EmittedHappened DEF Moves, Running, Ends
<1>2. \A f \in Events : f # e => handler[f] \in Ends
  BY <1>1 DEF OneHandler, Running
<1>3. \A f \in Events : f # e => handler'[f] \in Ends
  BY <1>1, <1>2
<1>4. OneHandler'
  BY <1>3 DEF OneHandler, Running
<1> QED BY <1>1, <1>2, <1>3, <1>4

\* Parts of ExactInv that a handler's step may leave alone.
LEMMA ExactUntouched ==
    ASSUME TypeInv, SubscriberInv, ExactInv, ~clashed,
           NEW e, NEW position, Moves(e, position)
    PROVE  /\ position # "done" /\ UNCHANGED <<counted, record>> => RecordsExact'
           /\ handler[e] \in {"find", "create", "count"}
              /\ position \in {"create", "count", "done"}
              /\ UNCHANGED <<usage, usage_read>> => UsageExact'
           /\ position \notin {"create", "count"} => InHand'
<1>1. OneHandler /\ UsageExact /\ RecordsExact /\ InHand
  BY DEF ExactInv
<1>2. ASSUME position # "done", UNCHANGED <<counted, record>> PROVE RecordsExact'
  <2>1. \A a, h : DoneUnder(a, h)' = DoneUnder(a, h)
    BY <1>2, MovesCountNothing
  <2> QED BY <1>1, <1>2, <2>1 DEF RecordsExact
<1>3. ASSUME handler[e] \in {"find", "create", "count"},
             position \in {"create", "count", "done"}, UNCHANGED <<usage, usage_read>>
      PROVE  UsageExact'
  <2>1. Billed' = Billed
    BY <1>3, BilledUntouched
  <2>2. \A t \in Txs : handler'[Receipt(t)] # "write_usage"
    BY <1>1, <1>3, MovesAlone, MovesCountNothing, EventNames DEF Ends
  <2> QED BY <1>1, <1>3, <2>1, <2>2 DEF UsageExact
<1>4. ASSUME position \notin {"create", "count"} PROVE InHand'
  <2>1. \A f \in Events : handler'[f] \notin {"create", "count"}
    BY <1>1, <1>4, MovesAlone, MovesCountNothing DEF Ends
  <2> QED BY <2>1 DEF InHand
<1> QED BY <1>2, <1>3, <1>4

LEMMA ReadUsageExact ==
    ASSUME TypeInv, SubscriberInv, ExactInv, NEW t \in Txs, ReadUsage(t)
    PROVE  ExactInv'
<1> SUFFICES ASSUME ~clashed' PROVE (OneHandler /\ UsageExact /\ RecordsExact /\ InHand)'
  BY DEF ExactInv
<1> DEFINE e == Receipt(t)
<1>1. /\ Moves(e, "write_usage") /\ e \in Events /\ e[1] = "receipt"
      /\ handler[e] = "read_usage"
  BY EventNames, RunningEmitted
     DEF ReadUsage, HandlerAt, HandlerTo, Moves, HandlerPosition
<1>2. ~clashed /\ OneHandler /\ UsageExact
  BY DEF ReadUsage, ExactInv
<1>3. OneHandler' /\ \A f \in Events : f # e => handler'[f] \in Ends
  BY <1>1, <1>2, MovesAlone
<1>4. RecordsExact' /\ InHand'
  BY <1>1, <1>2, ExactUntouched DEF ReadUsage
<1>5. UsageExact'
  <2>1. Billed' = Billed
    <3> HIDE DEF e
    <3> QED BY <1>1, MovesCountNothing DEF Billed
  <2>2. ASSUME NEW u \in Txs, handler'[Receipt(u)] = "write_usage"
        PROVE  usage_read'[u] = usage
    <3>1. Receipt(u) = e
      BY <1>3, <2>2, EventNames DEF Ends
    <3>2. u = t
      BY <3>1, EventNames
    <3> QED BY <3>2 DEF ReadUsage, SubscriberInv, SubscriberTypes
  <2> QED BY <1>2, <2>1, <2>2 DEF UsageExact, ReadUsage
<1> QED BY <1>3, <1>4, <1>5

LEMMA WriteUsageExact ==
    ASSUME TypeInv, SubscriberInv, ExactInv, NEW t \in Txs, WriteUsage(t)
    PROVE  ExactInv'
<1> SUFFICES ASSUME ~clashed' PROVE (OneHandler /\ UsageExact /\ RecordsExact /\ InHand)'
  BY DEF ExactInv
<1> DEFINE e == Receipt(t)
<1>1. /\ Moves(e, "find") /\ e \in Events /\ e[1] = "receipt"
      /\ handler[e] = "write_usage"
  BY EventNames, RunningEmitted
     DEF WriteUsage, HandlerAt, HandlerTo, Moves, HandlerPosition
<1>2. ~clashed /\ OneHandler /\ UsageExact
  BY DEF WriteUsage, ExactInv
<1>3. OneHandler' /\ \A f \in Events : f # e => handler'[f] \in Ends
  BY <1>1, <1>2, MovesAlone
<1>4. RecordsExact' /\ InHand'
  BY <1>1, <1>2, ExactUntouched DEF WriteUsage
<1>5. UsageExact'
  <2>1. Cardinality(Billed') = Cardinality(Billed) + 1
    <3> HIDE DEF e
    <3>1. Billed' = Billed \cup {e} /\ e \notin Billed
      BY <1>1, MovesCountNothing DEF Billed
    <3>2. Billed \in SUBSET Events
      BY DEF Billed
    <3> QED BY <3>1, <3>2, EventsFinite, FS_AddElement
  <2>2. usage' = usage + 1
    BY <1>1, <1>2 DEF UsageExact, WriteUsage
  <2>3. \A u \in Txs : handler'[Receipt(u)] # "write_usage"
    <3> HIDE DEF e
    <3> QED BY <1>1, <1>3, MovesCountNothing, EventNames DEF Ends
  <2> QED BY <1>2, <2>1, <2>2, <2>3 DEF UsageExact
<1> QED BY <1>3, <1>4, <1>5

LEMMA FindRecordExact ==
    ASSUME TypeInv, SubscriberInv, ExactInv, NEW e \in Events, FindRecord(e)
    PROVE  ExactInv'
<1> SUFFICES ASSUME ~clashed' PROVE (OneHandler /\ UsageExact /\ RecordsExact /\ InHand)'
  BY DEF ExactInv
<1> DEFINE a == AgentOf(e)
           position == IF record[a] = NoRecord THEN "create" ELSE "count"
<1>1. e \in Emitted /\ handler[e] = "find"
  BY RunningEmitted DEF FindRecord, HandlerAt
<1>2. Moves(e, position) /\ position \in {"create", "count"}
  BY <1>1 DEF FindRecord, HandlerTo, Moves, HandlerPosition
<1>3. /\ ~clashed /\ OneHandler
      /\ found' = [found EXCEPT ![e] = record[a]] /\ UNCHANGED record
      /\ found \in [Events -> Events \cup {NoRecord}]
  BY DEF FindRecord, ExactInv, SubscriberInv, SubscriberTypes
<1>4. /\ AgentOf(e)' = a /\ handler'[e] = position
  BY <1>2, MovesCountNothing
<1>5. OneHandler' /\ \A f \in Events : f # e => handler'[f] \in Ends
  BY <1>2, <1>3, MovesAlone
<1>6. RecordsExact' /\ UsageExact'
  BY <1>1, <1>2, <1>3, ExactUntouched DEF FindRecord
<1>7. InHand'
  <2>1. ASSUME NEW f \in Events, NEW b \in Accounts, AgentOf(f)' = b,
               handler'[f] \in {"create", "count"}
        PROVE  f = e /\ b = a
    <3>1. f = e
      BY <1>5, <2>1 DEF Ends
    <3> QED BY <1>4, <2>1, <3>1
  <2>2. /\ handler'[e] = "create" => record'[a] = NoRecord
        /\ handler'[e] = "count" => found'[e] = record'[a]
    BY <1>3, <1>4
  <2> QED BY <2>1, <2>2 DEF InHand
<1> QED BY <1>5, <1>6, <1>7

LEMMA CreateRecordExact ==
    ASSUME TypeInv, SubscriberInv, ExactInv, NEW e \in Events, CreateRecord(e)
    PROVE  ExactInv'
<1> SUFFICES ASSUME ~clashed' PROVE (OneHandler /\ UsageExact /\ RecordsExact /\ InHand)'
  BY DEF ExactInv
<1> DEFINE a == AgentOf(e)
<1>1. e \in Emitted /\ handler[e] = "create"
  BY RunningEmitted DEF CreateRecord, HandlerAt
<1>2. Moves(e, "count")
  BY <1>1 DEF CreateRecord, HandlerTo, Moves, HandlerPosition
<1>3. /\ ~clashed /\ OneHandler /\ RecordsExact /\ InHand
      /\ found' = [found EXCEPT ![e] = e] /\ record' = [record EXCEPT ![a] = e]
      /\ UNCHANGED counted
      /\ found \in [Events -> Events \cup {NoRecord}]
      /\ record \in [Accounts -> Events \cup {NoRecord}]
      /\ counted \in [Events -> CounterTypes]
  BY DEF CreateRecord, ExactInv, SubscriberInv, SubscriberTypes
<1>4. AgentOf(e)' = a /\ handler'[e] = "count"
  BY <1>2, MovesCountNothing
<1>5. OneHandler' /\ \A f \in Events : f # e => handler'[f] \in Ends
  BY <1>2, <1>3, MovesAlone
<1>6. a \in Accounts
  <2>1. UNCHANGED vars
    BY DEF CreateRecord
  <2> QED BY <1>1, <2>1, QuietEvents, EmittedFixed
<1>7. UsageExact'
  BY <1>1, <1>2, <1>3, ExactUntouched DEF CreateRecord
<1>8. RecordsExact'
  <2>1. \A b, h : DoneUnder(b, h)' = DoneUnder(b, h)
    BY <1>2, MovesCountNothing
  <2>2. ASSUME NEW h \in Headings
        PROVE  DoneUnder(a, h) = {} /\ counted[e][h] = 0
    <3>1. DoneUnder(a, h) = {}
      BY <1>1, <1>3, <1>6 DEF RecordsExact, InHand
    <3>2. counted[e][h] <= Cardinality(DoneUnder(a, h)) /\ counted[e][h] \in Nat
      BY <1>1, <1>3, <1>6, CountersType DEF SubscriberInv, CountsBounded
    <3> QED BY <3>1, <3>2, FS_EmptySet
  <2>3. ASSUME NEW b \in Accounts, NEW h \in Headings
        PROVE  /\ record'[b] = NoRecord => DoneUnder(b, h) = {}
               /\ \A r \in Events : record'[b] = r =>
                     counted[r][h] = Cardinality(DoneUnder(b, h))
    <3>1. CASE b = a
      BY <1>3, <1>6, <2>2, <3>1, FS_EmptySet, NoRecordIsNoEvent
    <3>2. CASE b # a
      BY <1>3, <3>2 DEF RecordsExact
    <3> QED BY <3>1, <3>2
  <2> QED BY <1>3, <2>1, <2>3 DEF RecordsExact
<1>9. InHand'
  <2>1. ASSUME NEW f \in Events, NEW b \in Accounts, AgentOf(f)' = b,
               handler'[f] \in {"create", "count"}
        PROVE  f = e /\ b = a
    <3>1. f = e
      BY <1>5, <2>1 DEF Ends
    <3> QED BY <1>4, <2>1, <3>1
  <2>2. found'[e] = e /\ record'[a] = e
    BY <1>3, <1>6
  <2> QED BY <1>4, <2>1, <2>2 DEF InHand
<1> QED BY <1>5, <1>7, <1>8, <1>9

LEMMA CountExact ==
    ASSUME TypeInv, SubscriberInv, ExactInv, NEW e \in Events, Count(e)
    PROVE  ExactInv'
<1> SUFFICES ASSUME ~clashed' PROVE (OneHandler /\ UsageExact /\ RecordsExact /\ InHand)'
  BY DEF ExactInv
<1> DEFINE r == found[e]
           a == AgentOf(e)
<1>1. e \in Emitted /\ handler[e] = "count"
  BY RunningEmitted DEF Count, HandlerAt
<1>2. Moves(e, "done")
  BY <1>1 DEF Count, HandlerTo, Moves, HandlerPosition
<1>3. /\ ~clashed /\ OneHandler /\ RecordsExact /\ InHand /\ UNCHANGED record
      /\ counted \in [Events -> CounterTypes] /\ shares \in [Disputes -> Int]
      /\ record \in [Accounts -> Events \cup {NoRecord}]
  BY DEF Count, ExactInv, SubscriberInv, SubscriberTypes
<1>4. a \in Accounts
  <2>1. UNCHANGED vars
    BY DEF Count
  <2> QED BY <1>1, <2>1, QuietEvents, EmittedFixed
<1>5. r \in Events /\ r = record[a] /\ AgentOf(r) = a
  <2>1. r = record[a] /\ r # NoRecord
    BY <1>1, <1>3, <1>4 DEF InHand, SubscriberInv, RecordsMatch
  <2>2. r \in Events
    BY <1>3, <1>4, <2>1
  <2> QED BY <1>1, <2>1, <2>2 DEF SubscriberInv, RecordsMatch
<1>6. /\ counted' = [counted EXCEPT ![r] = CountIn(e, counted[r])]
      /\ \A h \in Headings : CountIn(e, counted[r])[h]
            = counted[r][h] + (IF h = Heading(e) THEN 1 ELSE 0)
  <2>1. counted[r] \in CounterTypes
    BY <1>3, <1>5
  <2> QED BY <1>1, <1>3, <1>5, <2>1, CountInAdds DEF Count
<1> HIDE DEF r, a
<1>7. OneHandler'
  BY <1>2, <1>3, MovesAlone
<1>8. UsageExact' /\ InHand'
  BY <1>1, <1>2, <1>3, ExactUntouched DEF Count
<1>9. RecordsExact'
  <2>1. \A b, h : DoneUnder(b, h)' = DoneUnder(b, h)
                     \cup (IF AgentOf(e) = b /\ Heading(e) = h THEN {e} ELSE {})
    BY <1>2, MovesCountNothing
  <2>2. ASSUME NEW b \in Accounts, NEW h \in Headings, b # a \/ h # Heading(e)
        PROVE  DoneUnder(b, h)' = DoneUnder(b, h)
    <3>1. (IF AgentOf(e) = b /\ Heading(e) = h THEN {e} ELSE {}) = {}
      BY <2>2 DEF a
    <3> QED BY <2>1, <3>1
  <2>3. ASSUME NEW b \in Accounts, NEW h \in Headings, b = a, h = Heading(e)
        PROVE  Cardinality(DoneUnder(b, h)') = Cardinality(DoneUnder(b, h)) + 1
    <3>1. (IF AgentOf(e) = b /\ Heading(e) = h THEN {e} ELSE {}) = {e}
      BY <2>3 DEF a
    <3>2. DoneUnder(b, h)' = DoneUnder(b, h) \cup {e}
      BY <2>1, <3>1
    <3>3. DoneUnder(b, h) \in SUBSET Events /\ e \notin DoneUnder(b, h)
      BY <1>1 DEF DoneUnder
    <3> QED BY <3>2, <3>3, EventsFinite, FS_AddElement
  <2>4. ASSUME NEW b \in Accounts, NEW h \in Headings, record[b] = NoRecord
        PROVE  DoneUnder(b, h)' = {}
    <3>1. b # a
      BY <1>5, <2>4, NoRecordIsNoEvent
    <3> QED BY <1>3, <2>2, <2>4, <3>1 DEF RecordsExact
  <2>5. ASSUME NEW b \in Accounts, NEW h \in Headings, NEW q \in Events, record[b] = q
        PROVE  counted'[q][h] = Cardinality(DoneUnder(b, h)')
    <3>1. counted[q][h] = Cardinality(DoneUnder(b, h)) /\ counted[q][h] \in Nat
      BY <1>3, <2>5, CountersType DEF RecordsExact
    <3>2. AgentOf(q) = b
      BY <2>5 DEF SubscriberInv, RecordsMatch
    <3>3. CASE b # a
      <4>1. q # r
        BY <1>5, <3>2, <3>3
      <4>2. counted'[q] = counted[q]
        BY <1>3, <1>6, <4>1
      <4> QED BY <2>2, <3>1, <3>3, <4>2
    <3>4. CASE b = a
      <4>1. q = r
        BY <1>5, <2>5, <3>4
      <4>2. counted'[q][h] = counted[q][h] + (IF h = Heading(e) THEN 1 ELSE 0)
        BY <1>3, <1>5, <1>6, <4>1
      <4>3. CASE h = Heading(e)
        BY <2>3, <3>1, <3>4, <4>2, <4>3
      <4>4. CASE h # Heading(e)
        BY <2>2, <3>1, <3>4, <4>2, <4>4
      <4> QED BY <4>3, <4>4
    <3> QED BY <3>3, <3>4
  <2> QED BY <1>3, <2>4, <2>5 DEF RecordsExact
<1> QED BY <1>7, <1>8, <1>9
-----------------------------------------------------------------------------
(* What is counted, and what the service did *)

Under(a, h) == {e \in Emitted : AgentOf(e) = a /\ Heading(e) = h}

LEMMA NamesCount ==
    /\ \A S \in SUBSET Txs : /\ IsFiniteSet(S) /\ Cardinality(S) \in Nat
                             /\ IsFiniteSet({Receipt(t) : t \in S})
                             /\ Cardinality({Receipt(t) : t \in S}) = Cardinality(S)
    /\ \A S \in SUBSET Disputes :
          /\ IsFiniteSet(S) /\ Cardinality(S) \in Nat
          /\ Cardinality({Opened(d) : d \in S}) = Cardinality(S)
          /\ IsFiniteSet({Closed(d) : d \in S})
          /\ Cardinality({Closed(d) : d \in S}) = Cardinality(S)
<1>1. ASSUME NEW S \in SUBSET Txs
      PROVE  /\ IsFiniteSet(S) /\ Cardinality(S) \in Nat
             /\ IsFiniteSet({Receipt(t) : t \in S})
             /\ Cardinality({Receipt(t) : t \in S}) = Cardinality(S)
  <2> DEFINE R == {Receipt(t) : t \in S}
             f == [t \in S |-> Receipt(t)]
  <2>1. IsFiniteSet(S)
    BY ParameterTypes, FS_Subset
  <2>2. f \in [S -> R] /\ \A t, u \in S : f[t] = f[u] => t = u
    BY EventNames
  <2>3. \A e \in R : \E t \in S : f[t] = e
    OBVIOUS
  <2>4. f \in Bijection(S, R)
    BY <2>2, <2>3, Zenon DEF Bijection, Injection, Surjection, IsInjective
  <2> QED BY <2>1, <2>4, FS_Bijection, FS_CardinalityType DEF ExistsBijection
<1>2. ASSUME NEW S \in SUBSET Disputes
      PROVE  /\ IsFiniteSet(S) /\ Cardinality(S) \in Nat
             /\ Cardinality({Opened(d) : d \in S}) = Cardinality(S)
  <2> DEFINE R == {Opened(t) : t \in S}
             f == [t \in S |-> Opened(t)]
  <2>1. IsFiniteSet(S)
    BY FiniteDisputes, FS_Subset
  <2>2. f \in [S -> R] /\ \A t, u \in S : f[t] = f[u] => t = u
    BY EventNames
  <2>3. \A e \in R : \E t \in S : f[t] = e
    OBVIOUS
  <2>4. f \in Bijection(S, R)
    BY <2>2, <2>3, Zenon DEF Bijection, Injection, Surjection, IsInjective
  <2> QED BY <2>1, <2>4, FS_Bijection, FS_CardinalityType DEF ExistsBijection
<1>3. ASSUME NEW S \in SUBSET Disputes
      PROVE  /\ IsFiniteSet({Closed(d) : d \in S})
             /\ Cardinality({Closed(d) : d \in S}) = Cardinality(S)
  <2> DEFINE R == {Closed(t) : t \in S}
             f == [t \in S |-> Closed(t)]
  <2>1. IsFiniteSet(S)
    BY FiniteDisputes, FS_Subset
  <2>2. f \in [S -> R] /\ \A t, u \in S : f[t] = f[u] => t = u
    BY EventNames
  <2>3. \A e \in R : \E t \in S : f[t] = e
    OBVIOUS
  <2>4. f \in Bijection(S, R)
    BY <2>2, <2>3, Zenon DEF Bijection, Injection, Surjection, IsInjective
  <2> QED BY <2>1, <2>4, FS_Bijection DEF ExistsBijection
<1> QED BY <1>1, <1>2, <1>3

\* The events under each heading are what the service's records say.
LEMMA HeadingsCount ==
    ASSUME TypeInv, NEW a \in Accounts
    PROVE  /\ Cardinality(Under(a, "settled"))
                 = Cardinality(Receipts(a)) + Cardinality(Decided(a, {"settle", "split"}))
           /\ Cardinality(Under(a, "disputed")) = Cardinality(Against(a))
           /\ Cardinality(Under(a, "slashed")) = Cardinality(Decided(a, {"slash"}))
           /\ Cardinality(Under(a, "refunded")) = Cardinality(Decided(a, {"refund"}))
<1>1. /\ receipts \subseteq Txs /\ DOMAIN disputes \subseteq Disputes
      /\ \A d \in DOMAIN disputes : disputes[d].resolution \in Resolution \cup {None}
  BY DEF TypeInv, TypeOK, DisputesTypeOK
<1>2. Receipts(a) \in SUBSET Txs /\ Against(a) \in SUBSET Disputes
  BY <1>1 DEF Receipts, Against
<1>3. \A R : Decided(a, R) \in SUBSET Disputes
  BY <1>2 DEF Decided
<1>4. ASSUME NEW e \in Emitted
      PROVE  \/ e[1] = "receipt" /\ e[2] \in receipts /\ e = Receipt(e[2])
                /\ AgentOf(e) = Receiver[e[2]] /\ Heading(e) = "settled"
             \/ e[1] = "opened" /\ e[2] \in DOMAIN disputes /\ e = Opened(e[2])
                /\ AgentOf(e) = Receiver[disputes[e[2]].transaction_id]
                /\ Heading(e) = "disputed"
             \/ e[1] = "closed" /\ e[2] \in DOMAIN disputes /\ e = Closed(e[2])
                /\ AgentOf(e) = Receiver[disputes[e[2]].transaction_id]
                /\ \/ disputes[e[2]].resolution = "slash" /\ Heading(e) = "slashed"
                   \/ disputes[e[2]].resolution = "refund" /\ Heading(e) = "refunded"
                   \/ /\ disputes[e[2]].resolution \in {"settle", "split"}
                      /\ Heading(e) = "settled"
  <2>1. e \in Events /\ Happened(e)
    BY EmittedHappened
  <2>2. CASE e[1] = "receipt"
    BY <2>1, <2>2, EventCases DEF Happened, AgentOf, TxOfEvent, Heading
  <2>3. CASE e[1] = "opened"
    BY <2>1, <2>3, EventCases DEF Happened, AgentOf, TxOfEvent, Heading
  <2>4. CASE e[1] = "closed"
    <3> DEFINE d == e[2]
    <3>1. /\ e = Closed(d) /\ d \in DOMAIN disputes /\ disputes[d].resolution # None
          /\ AgentOf(e) = Receiver[disputes[d].transaction_id]
      BY <2>1, <2>4, EventCases DEF Happened, IsResolved, AgentOf, TxOfEvent
    <3>2. disputes[d].resolution \in {"refund", "slash", "split", "settle"}
      BY <1>1, <3>1 DEF Resolution
    <3> QED BY <2>4, <3>1, <3>2 DEF Heading
  <2> QED BY <2>1, <2>2, <2>3, <2>4, EventCases
<1>5. /\ \A t \in receipts : Receipt(t) \in Emitted
      /\ \A d \in DOMAIN disputes : Opened(d) \in Emitted
      /\ \A d \in DOMAIN disputes : disputes[d].resolution # None => Closed(d) \in Emitted
  BY <1>1, EmittedHappened, EventNames DEF Happened, IsResolved
<1> DEFINE S == Receipts(a)
           C(R) == {Closed(d) : d \in Decided(a, R)}
<1>6. Under(a, "disputed") = {Opened(d) : d \in Against(a)}
  BY <1>2, <1>4, <1>5, EventNames DEF Under, Against
<1>7. Under(a, "slashed") = C({"slash"})
  <2>1. ASSUME NEW e \in Under(a, "slashed") PROVE e \in C({"slash"})
    <3>1. e \in Emitted /\ AgentOf(e) = a /\ Heading(e) = "slashed"
      BY DEF Under
    <3>2. /\ e[2] \in DOMAIN disputes /\ e = Closed(e[2])
          /\ Receiver[disputes[e[2]].transaction_id] = a /\ disputes[e[2]].resolution = "slash"
      BY <1>4, <3>1
    <3> QED BY <3>2 DEF Decided, Against
  <2>2. ASSUME NEW d \in Decided(a, {"slash"}) PROVE Closed(d) \in Under(a, "slashed")
    <3>1. /\ d \in DOMAIN disputes /\ d \in Disputes /\ disputes[d].resolution = "slash"
          /\ Receiver[disputes[d].transaction_id] = a
      BY <1>1 DEF Decided, Against
    <3>2. /\ Closed(d) \in Emitted /\ Closed(d)[1] = "closed" /\ Closed(d)[2] = d
      BY <1>5, <3>1, EventNames DEF None
    <3>3. AgentOf(Closed(d)) = a /\ Heading(Closed(d)) = "slashed"
      BY <1>4, <3>1, <3>2
    <3> QED BY <3>2, <3>3 DEF Under
  <2> QED BY <2>1, <2>2
<1>8. Under(a, "refunded") = C({"refund"})
  <2>1. ASSUME NEW e \in Under(a, "refunded") PROVE e \in C({"refund"})
    <3>1. e \in Emitted /\ AgentOf(e) = a /\ Heading(e) = "refunded"
      BY DEF Under
    <3>2. /\ e[2] \in DOMAIN disputes /\ e = Closed(e[2])
          /\ Receiver[disputes[e[2]].transaction_id] = a /\ disputes[e[2]].resolution = "refund"
      BY <1>4, <3>1
    <3> QED BY <3>2 DEF Decided, Against
  <2>2. ASSUME NEW d \in Decided(a, {"refund"}) PROVE Closed(d) \in Under(a, "refunded")
    <3>1. /\ d \in DOMAIN disputes /\ d \in Disputes /\ disputes[d].resolution = "refund"
          /\ Receiver[disputes[d].transaction_id] = a
      BY <1>1 DEF Decided, Against
    <3>2. /\ Closed(d) \in Emitted /\ Closed(d)[1] = "closed" /\ Closed(d)[2] = d
      BY <1>5, <3>1, EventNames DEF None
    <3>3. AgentOf(Closed(d)) = a /\ Heading(Closed(d)) = "refunded"
      BY <1>4, <3>1, <3>2
    <3> QED BY <3>2, <3>3 DEF Under
  <2> QED BY <2>1, <2>2
<1>9. Under(a, "settled") = {Receipt(t) : t \in S} \cup C({"settle", "split"})
  BY <1>2, <1>3, <1>4, <1>5, EventNames DEF Under, Receipts, Against, Decided, None
<1>10. {Receipt(t) : t \in S} \cap C({"settle", "split"}) = {}
  BY DEF Receipt, Closed
<1>11. Cardinality(Under(a, "settled"))
          = Cardinality({Receipt(t) : t \in S}) + Cardinality(C({"settle", "split"}))
  <2>1. IsFiniteSet({Receipt(t) : t \in S}) /\ IsFiniteSet(C({"settle", "split"}))
    BY <1>2, <1>3, NamesCount
  <2>2. \A A, B : IsFiniteSet(A) /\ IsFiniteSet(B) /\ A \cap B = {} =>
           Cardinality(A \cup B) = Cardinality(A) + Cardinality(B)
    <3>1. ASSUME NEW A, NEW B, IsFiniteSet(A), IsFiniteSet(B), A \cap B = {}
          PROVE  Cardinality(A \cup B) = Cardinality(A) + Cardinality(B)
      <4>1. Cardinality(A \cap B) = 0
        BY <3>1, FS_EmptySet
      <4>2. Cardinality(A \cup B) = Cardinality(A) + Cardinality(B) - Cardinality(A \cap B)
        BY <3>1, FS_Union
      <4>3. Cardinality(A) \in Nat /\ Cardinality(B) \in Nat
        BY <3>1, FS_CardinalityType
      <4> QED BY <4>1, <4>2, <4>3
    <3> QED BY <3>1
  <2> QED BY <1>9, <1>10, <2>1, <2>2
<1> QED BY <1>2, <1>3, <1>6, <1>7, <1>8, <1>11, NamesCount

\* Only what was emitted is counted and billed; when no handler runs, all of it.
LEMMA DoneIsEmitted ==
    ASSUME TypeInv, SubscriberInv
    PROVE  /\ Cardinality(Billed) <= Cardinality(receipts)
           /\ \A a, h : /\ Cardinality(DoneUnder(a, h)) <= Cardinality(Under(a, h))
                        /\ Cardinality(Under(a, h)) \in Nat
           /\ (\A e \in Events : ~Running(e)) =>
                 /\ Cardinality(Billed) = Cardinality(receipts)
                 /\ \A a, h : DoneUnder(a, h) = Under(a, h)
<1>1. /\ Emitted \subseteq Events
      /\ \A e \in Events : handler[e] = "silent" <=> e \notin Emitted
      /\ \A e \in Events : e \in Emitted <=> Happened(e)
      /\ receipts \in SUBSET Txs
  BY EmittedHappened DEF SubscriberInv, HandlersFollow, TypeInv, TypeOK
<1> DEFINE R == {Receipt(t) : t \in receipts}
<1>2. Billed \subseteq R
  BY <1>1, EventCases DEF Billed, Happened
<1>3. IsFiniteSet(R) /\ Cardinality(R) = Cardinality(receipts)
  BY <1>1, NamesCount
<1>4. Cardinality(Billed) <= Cardinality(receipts)
  BY <1>2, <1>3, FS_Subset
<1>5. ASSUME NEW a, NEW h
      PROVE  /\ Cardinality(DoneUnder(a, h)) <= Cardinality(Under(a, h))
             /\ Cardinality(Under(a, h)) \in Nat
  <2>1. DoneUnder(a, h) \subseteq Under(a, h) /\ Under(a, h) \in SUBSET Events
    BY <1>1 DEF DoneUnder, Under
  <2> QED BY <2>1, EventsFinite, FS_Subset
<1>6. ASSUME \A e \in Events : ~Running(e)
      PROVE  /\ Cardinality(Billed) = Cardinality(receipts)
             /\ \A a, h : DoneUnder(a, h) = Under(a, h)
  <2>1. \A e \in Events : e \in Emitted <=> handler[e] = "done"
    BY <1>1, <1>6 DEF Running, Ends
  <2>2. R \subseteq Billed
    BY <1>1, <2>1, EventNames DEF Billed, Happened
  <2>3. Billed = R
    BY <1>2, <2>2
  <2>4. ASSUME NEW a, NEW h PROVE DoneUnder(a, h) = Under(a, h)
    BY <1>1, <2>1 DEF DoneUnder, Under
  <2> QED BY <1>3, <2>3, <2>4
<1> QED BY <1>4, <1>5, <1>6

\* What is known of an agent, heading by heading.
LEMMA KnownCounts ==
    ASSUME TypeInv, SubscriberInv, NEW a \in Accounts, NEW h \in Headings
    PROVE  /\ Known(a)[h] <= Cardinality(Under(a, h))
           /\ ExactInv /\ Quiet => Known(a)[h] = Cardinality(Under(a, h))
<1>1. /\ record[a] \in Events \cup {NoRecord} /\ counted \in [Events -> CounterTypes]
      /\ Cardinality(Under(a, h)) \in Nat
      /\ Cardinality(DoneUnder(a, h)) <= Cardinality(Under(a, h))
      /\ Cardinality(DoneUnder(a, h)) \in Nat
  <2>1. DoneUnder(a, h) \in SUBSET Events
    BY DEF DoneUnder
  <2> QED BY <2>1, EventsFinite, DoneIsEmitted DEF SubscriberInv, SubscriberTypes
<1>2. CASE record[a] = NoRecord
  <2>1. Known(a)[h] = 0
    BY <1>2, CountersType DEF Known
  <2>2. ExactInv /\ Quiet => Under(a, h) = {}
    BY <1>2, DoneIsEmitted DEF ExactInv, RecordsExact, Quiet
  <2> QED BY <1>1, <2>1, <2>2, FS_EmptySet
<1>3. CASE record[a] # NoRecord
  <2> DEFINE r == record[a]
  <2>1. r \in Events /\ r \in Emitted /\ AgentOf(r) = a /\ Known(a) = counted[r]
    BY <1>1, <1>3 DEF SubscriberInv, RecordsMatch, Known
  <2>2. Known(a)[h] <= Cardinality(DoneUnder(a, h)) /\ Known(a)[h] \in Nat
    BY <1>1, <2>1, CountersType DEF SubscriberInv, CountsBounded
  <2>3. ExactInv /\ Quiet => Known(a)[h] = Cardinality(Under(a, h))
    BY <2>1, DoneIsEmitted DEF ExactInv, RecordsExact, Quiet
  <2> QED BY <1>1, <2>2, <2>3
<1> QED BY <1>2, <1>3

LEMMA CountsImply ==
    ASSUME TypeInv, SubscriberInv, ExactInv
    PROVE  NeverOvercounts /\ QuietCountsAreExact
<1>1. ASSUME NEW a \in Accounts
      PROVE  /\ Known(a).settled <= Cardinality(Receipts(a))
                                      + Cardinality(Decided(a, {"settle", "split"}))
             /\ Known(a).disputed <= Cardinality(Against(a))
             /\ Known(a).slashed <= Cardinality(Decided(a, {"slash"}))
             /\ Known(a).refunded <= Cardinality(Decided(a, {"refund"}))
  BY HeadingsCount, KnownCounts DEF Headings
<1>2. ASSUME Quiet, NEW a \in Accounts
      PROVE  /\ Known(a).settled = Cardinality(Receipts(a))
                                      + Cardinality(Decided(a, {"settle", "split"}))
             /\ Known(a).disputed = Cardinality(Against(a))
             /\ Known(a).slashed = Cardinality(Decided(a, {"slash"}))
             /\ Known(a).refunded = Cardinality(Decided(a, {"refund"}))
  BY <1>2, HeadingsCount, KnownCounts DEF Headings
<1>3. usage <= Cardinality(receipts)
  <2>1. /\ usage \in Nat /\ usage <= Cardinality(Billed)
        /\ Cardinality(Billed) <= Cardinality(receipts)
    BY DoneIsEmitted DEF SubscriberInv, SubscriberTypes, UsageBounded
  <2>2. Cardinality(Billed) \in Nat /\ Cardinality(receipts) \in Nat
    BY EventsFinite, NamesCount DEF Billed, TypeInv, TypeOK
  <2> QED BY <2>1, <2>2
<1>4. Quiet => usage = Cardinality(receipts)
  BY DoneIsEmitted DEF ExactInv, UsageExact, Quiet
<1> QED BY <1>1, <1>2, <1>3, <1>4 DEF NeverOvercounts, QuietCountsAreExact

LEMMA StepSubscribers ==
    ASSUME TypeInv, DecisionInv, SubscriberInv, ExactInv,
           [SubscribersNext]_<<vars, subscriberVars>>
    PROVE  TypeInv' /\ DecisionInv' /\ SubscriberInv' /\ ExactInv'
<1>1. [Next]_vars
  BY DEF SubscribersNext, Serve, ReadUsage, WriteUsage, FindRecord, CreateRecord, Count
<1>2. TypeInv' /\ DecisionInv'
  BY <1>1, StepTypeInv, StepEscrowUntilPaid, StepDisputeInv, StepCallsTell DEF DecisionInv
<1>3. CASE Serve
  BY <1>2, <1>3, ServeSubscriberInv, ServeExactInv
<1>4. ASSUME NEW t \in Txs, ReadUsage(t) \/ WriteUsage(t)
      PROVE  SubscriberInv' /\ ExactInv'
  BY <1>4, ReadUsageInv, ReadUsageExact, WriteUsageInv, WriteUsageExact
<1>5. ASSUME NEW e \in Events, FindRecord(e) \/ CreateRecord(e) \/ Count(e)
      PROVE  SubscriberInv' /\ ExactInv'
  BY <1>5, FindRecordInv, FindRecordExact, CreateRecordInv, CreateRecordExact,
     CountInv, CountExact
<1>6. CASE UNCHANGED <<vars, subscriberVars>>
  <2>1. /\ Emitted' = Emitted /\ UNCHANGED subscriberVars
        /\ \A e \in Events : AgentOf(e)' = AgentOf(e) /\ Heading(e)' = Heading(e)
    BY <1>6, QuietEvents
  <2>2. Billed' = Billed /\ \A a, h : DoneUnder(a, h)' = DoneUnder(a, h)
    BY <2>1 DEF Billed, DoneUnder, subscriberVars
  <2>3. SubscriberTypes' /\ HandlersFollow'
    BY <2>1 DEF SubscriberInv, SubscriberTypes, HandlersFollow, subscriberVars
  <2>4. RecordsMatch'
    BY <2>1 DEF SubscriberInv, RecordsMatch, subscriberVars
  <2>5. CountsBounded' /\ UsageBounded'
    BY <2>1, <2>2 DEF SubscriberInv, CountsBounded, UsageBounded, subscriberVars
  <2>6. ExactInv'
    <3>1. CASE clashed
      BY <2>1, <3>1 DEF ExactInv, subscriberVars
    <3>2. CASE ~clashed
      <4>1. OneHandler' /\ UsageExact'
        BY <2>1, <2>2, <3>2
           DEF ExactInv, OneHandler, Running, UsageExact, subscriberVars
      <4>2. RecordsExact'
        BY <2>1, <2>2, <3>2 DEF ExactInv, RecordsExact, subscriberVars
      <4>3. InHand'
        BY <2>1, <3>2 DEF ExactInv, InHand, subscriberVars
      <4> QED BY <4>1, <4>2, <4>3 DEF ExactInv
    <3> QED BY <3>1, <3>2
  <2> QED BY <1>2, <2>3, <2>4, <2>5, <2>6 DEF SubscriberInv
<1> QED BY <1>2, <1>3, <1>4, <1>5, <1>6 DEF SubscribersNext

\* Behind the gateway nothing is subscribed; at a tenant nothing is saved.
Unsubscribed == usage = 0 /\ record = [a \in Accounts |-> NoRecord]

HostingInv ==
    /\ hosting \in {"gateway", "tenant"}
    /\ hosting = "gateway" => GatewayInv /\ Unsubscribed
    /\ hosting = "tenant" => /\ TypeInv /\ DecisionInv /\ SubscriberInv /\ ExactInv
                             /\ GatewayTypeOK

LEMMA InitHostingInv == HostingInit => HostingInv
<1> SUFFICES ASSUME HostingInit PROVE HostingInv
  OBVIOUS
<1>1. GatewayInv /\ GatewayTypeOK
  BY InitGatewayInv DEF HostingInit, GatewayInv
<1>2. TypeInv /\ DecisionInv /\ SubscriberInv /\ ExactInv
  BY InitTypeInv, InitDecisionInv, InitSubscriberInv, InitExactInv DEF HostingInit
<1>3. Unsubscribed
  BY DEF HostingInit, SubscribersInit, Unsubscribed
<1> QED BY <1>1, <1>2, <1>3 DEF HostingInit, HostingInv

LEMMA StepHostingInv == HostingInv /\ [HostingNext]_hostingVars => HostingInv'
<1> SUFFICES ASSUME HostingInv, [HostingNext]_hostingVars PROVE HostingInv'
  OBVIOUS
<1>1. hosting' = hosting /\ hosting \in {"gateway", "tenant"}
  BY DEF HostingNext, hostingVars, HostingInv
<1>2. CASE hosting = "gateway"
  <2>1. [GatewayNext]_<<vars, gatewayVars>> /\ UNCHANGED subscriberVars
    BY <1>2 DEF HostingNext, hostingVars
  <2>2. GatewayInv /\ Unsubscribed
    BY <1>2 DEF HostingInv
  <2>3. GatewayInv'
    BY <2>1, <2>2, GatewayStepInv
  <2>4. Unsubscribed'
    BY <2>1, <2>2 DEF Unsubscribed, subscriberVars
  <2> QED BY <1>1, <1>2, <2>3, <2>4 DEF HostingInv
<1>3. CASE hosting = "tenant"
  <2>1. [SubscribersNext]_<<vars, subscriberVars>> /\ UNCHANGED gatewayVars
    BY <1>3 DEF HostingNext, hostingVars
  <2>2. TypeInv /\ DecisionInv /\ SubscriberInv /\ ExactInv /\ GatewayTypeOK
    BY <1>3 DEF HostingInv
  <2>3. TypeInv' /\ DecisionInv' /\ SubscriberInv' /\ ExactInv'
    BY <2>1, <2>2, StepSubscribers
  <2>4. GatewayTypeOK'
    BY <2>1, <2>2 DEF GatewayTypeOK, SnapshotOK, gatewayVars, Idle, Requests
  <2> QED BY <1>1, <1>3, <2>3, <2>4 DEF HostingInv
<1> QED BY <1>1, <1>2, <1>3

LEMMA AlwaysHostingInv == HostingSpec => []HostingInv
BY InitHostingInv, StepHostingInv, PTL DEF HostingSpec

\* The shape of the tables and of a save, and the lock is held by one request that
\* nobody has answered, through every save, timeout and crash of the gateway.
THEOREM GatewayTypeCorrect == HostingSpec => []GatewayTypeOK
<1>1. HostingInv => GatewayTypeOK
  BY DEF HostingInv, GatewayInv
<1> QED BY <1>1, AlwaysHostingInv, PTL

\* Where nothing is subscribed, nothing is counted.
LEMMA UnsubscribedCounts == TypeInv /\ Unsubscribed => NeverOvercounts
<1> SUFFICES ASSUME TypeInv, Unsubscribed PROVE NeverOvercounts
  OBVIOUS
<1>1. receipts \in SUBSET Txs /\ DOMAIN disputes \in SUBSET Disputes
  BY DEF TypeInv, TypeOK, DisputesTypeOK
<1>2. ASSUME NEW a \in Accounts
      PROVE  /\ Cardinality(Receipts(a)) \in Nat /\ Cardinality(Against(a)) \in Nat
             /\ \A R : Cardinality(Decided(a, R)) \in Nat
  <2>1. Receipts(a) \in SUBSET Txs /\ Against(a) \in SUBSET Disputes
    BY <1>1 DEF Receipts, Against
  <2>2. \A R : Decided(a, R) \in SUBSET Disputes
    BY <2>1 DEF Decided
  <2> QED BY <2>1, <2>2, NamesCount
<1>3. ASSUME NEW a \in Accounts PROVE Known(a) = Counters
  BY DEF Unsubscribed, Known
<1>4. Cardinality(receipts) \in Nat /\ usage = 0
  BY <1>1, NamesCount DEF Unsubscribed
<1>5. /\ Counters.settled = 0 /\ Counters.disputed = 0
      /\ Counters.slashed = 0 /\ Counters.refunded = 0
  BY DEF Counters
<1>6. ASSUME NEW a \in Accounts
      PROVE  /\ 0 <= Cardinality(Receipts(a)) + Cardinality(Decided(a, {"settle", "split"}))
             /\ 0 <= Cardinality(Against(a)) /\ 0 <= Cardinality(Decided(a, {"slash"}))
             /\ 0 <= Cardinality(Decided(a, {"refund"}))
  BY <1>2
<1> QED BY <1>3, <1>4, <1>5, <1>6 DEF NeverOvercounts

\* However many handlers of the event bus run at once, no agent is credited or
\* blamed for more than happened and no tenant is billed for more than it did.
THEOREM CountsNeverExceed == HostingSpec => []NeverOvercounts
<1>1. HostingInv => NeverOvercounts
  BY CountsImply, UnsubscribedCounts DEF HostingInv, GatewayInv
<1> QED BY <1>1, AlwaysHostingInv, PTL

\* Handlers that never met have lost nothing: between them a tenant's usage is the
\* number of its receipts, and each counter the number of its agent's events.
THEOREM QuietCounts == HostingSpec => []TenantCountsAreExact
<1>1. HostingInv => TenantCountsAreExact
  BY CountsImply DEF HostingInv, TenantCountsAreExact
<1> QED BY <1>1, AlwaysHostingInv, PTL
-----------------------------------------------------------------------------
(* What a crash may not undo *)

\* A step of the call t, or of a dispute on it.
StepOf(t) == ClearStep(t) \/ \E d \in Disputes \ gone : DisputeCall(d, t)

LEMMA StepOfIsNext == ASSUME NEW t \in Txs, StepOf(t) PROVE [Next]_vars
BY DEF StepOf, Next

\* Calls and disputes that no restart has forgotten stand to the money as
\* EscrowUntilPaid says; of the forgotten ones nothing is known.
LiveCalls ==
    \A t \in Txs \ gone :
        /\ t \in DOMAIN escrow <=> pc[t] \notin BeforeHold /\ payout[t] = None
        /\ pc[t] \in BeforeHold => payout[t] = None
        /\ pc[t] \in {"receipt", "returned"} => payout[t] # None
        /\ pc[t] = "returned" <=> t \in receipts

LiveDisputes ==
    \A d \in Disputes \ gone : d \in DOMAIN disputes => Subject(d) \notin gone

\* A step moves the money, the position and the receipt of its own call only.
LEMMA StepIsLocal ==
    ASSUME TypeInv, NEW t \in Txs, StepOf(t), NEW u \in Txs \ {t}
    PROVE  Untouched(u) /\ pc'[u] = pc[u] /\ (u \in receipts' <=> u \in receipts)
<1>0. pc \in [Txs -> Position] /\ DisputesTypeOK
  BY DEF TypeInv, TypeOK
<1>1. CASE ClearStep(t)
  <2>1. pc'[u] = pc[u] /\ (u \in receipts' <=> u \in receipts)
    BY <1>0, <1>1 DEF ClearStep, Submit, Reject, HoldFunds, InsufficientCredit, EmitHeld,
          CheckTransition, WriteTransition, Run, VerifyProof, ReleaseFunds, RefundFunds,
          NoFundsHeld, IssueReceipt, Goto
  <2>2. ASSUME HoldFunds(t) PROVE Untouched(u)
    BY <2>2 DEF HoldFunds, hold, Untouched, disputeVars
  <2>3. ASSUME ReleaseFunds(t) \/ RefundFunds(t) PROVE Untouched(u)
    <3>1. Take(t) /\ \E how \in Payouts : Paid(t, how)
      BY <2>3 DEF ReleaseFunds, RefundFunds, release, refund_escrow, Payouts
    <3> QED BY <1>0, <3>1, TakeIsLocal
  <2>4. ASSUME \/ Submit(t) \/ Reject(t) \/ InsufficientCredit(t) \/ EmitHeld(t)
               \/ CheckTransition(t) \/ WriteTransition(t) \/ Run(t) \/ VerifyProof(t)
               \/ NoFundsHeld(t) \/ IssueReceipt(t)
        PROVE  Untouched(u)
    BY <2>4 DEF Submit, Reject, InsufficientCredit, EmitHeld, CheckTransition,
       WriteTransition, WriteState, Run, VerifyProof, NoFundsHeld, IssueReceipt,
       Untouched, ledgerVars, moneyVars, disputeVars
  <2>5. Untouched(u)
    BY <1>1, <2>2, <2>3, <2>4 DEF ClearStep
  <2> QED BY <2>1, <2>5
<1>2. ASSUME NEW d \in Disputes, DisputeCall(d, t)
      PROVE  Untouched(u) /\ pc'[u] = pc[u] /\ (u \in receipts' <=> u \in receipts)
  <2>1. DisputeStep(d, t) /\ UNCHANGED callVars
    BY <1>2, DisputeCallIsStep
  <2>2. ASSUME OpeningStep(d, t) PROVE Untouched(u)
    BY <2>2 DEF OpeningStep, CheckDispute, WriteDispute, RecordDispute, WriteState,
                moneyVars, ledgerVars, Untouched
  <2>3. ASSUME ResolveDispute(d, t) PROVE Untouched(u)
    BY <1>0, <2>3, ResolutionShape, TakeIsLocal
  <2>4. ASSUME WriteOutcome(d, t) PROVE Untouched(u)
    BY <2>4 DEF WriteOutcome, WriteState, moneyVars, Untouched
  <2> QED BY <2>1, <2>2, <2>3, <2>4 DEF DisputeStep, callVars
<1> QED BY <1>1, <1>2 DEF StepOf

\* How a step moves its own call on: to a receipt by a payment, to the end from
\* a receipt, and never from the end or back to the start.
LEMMA StepMovesOn ==
    ASSUME TypeInv, NEW t \in Txs, StepOf(t)
    PROVE  /\ pc'[t] = "receipt" => pc[t] = "receipt" \/ ReleaseFunds(t)
           /\ pc'[t] = "returned" /\ pc[t] # "returned" =>
                 pc[t] = "receipt" /\ t \in receipts'
           /\ pc[t] = "receipt" => pc'[t] \in {"receipt", "returned"}
           /\ pc[t] = "returned" => pc'[t] = "returned"
           /\ pc'[t] = "authorize" => pc[t] = "authorize"
           /\ receipts' = receipts \/ (/\ pc[t] = "receipt" /\ pc'[t] = "returned"
                                       /\ receipts' = receipts \cup {t})
<1> DEFINE Goal ==
           /\ pc'[t] = "receipt" => pc[t] = "receipt" \/ ReleaseFunds(t)
           /\ pc'[t] = "returned" /\ pc[t] # "returned" =>
                 pc[t] = "receipt" /\ t \in receipts'
           /\ pc[t] = "receipt" => pc'[t] \in {"receipt", "returned"}
           /\ pc[t] = "returned" => pc'[t] = "returned"
           /\ pc'[t] = "authorize" => pc[t] = "authorize"
           /\ receipts' = receipts \/ (/\ pc[t] = "receipt" /\ pc'[t] = "returned"
                                       /\ receipts' = receipts \cup {t})
<1>0. pc \in [Txs -> Position]
  BY DEF TypeInv, TypeOK
<1>1. CASE ClearStep(t)
  <2>1. CASE \/ Submit(t) \/ Reject(t) \/ HoldFunds(t) \/ InsufficientCredit(t)
             \/ EmitHeld(t) \/ Run(t) \/ VerifyProof(t) \/ NoFundsHeld(t) \/ IssueReceipt(t)
    BY <1>0, <2>1 DEF Submit, Reject, HoldFunds, InsufficientCredit, EmitHeld, Run,
        VerifyProof, NoFundsHeld, IssueReceipt, At, Goto
  <2>2. CASE CheckTransition(t)
    BY <1>0, <2>2, TransitionTables DEF CheckTransition, Goto
  <2>3. CASE WriteTransition(t)
    <3>1. pc[t] \in DOMAIN Target
      BY <2>3 DEF WriteTransition, TypeInv, PendingIsTarget
    <3>2. pc'[t] = After[pc[t]] /\ UNCHANGED receipts
      BY <1>0, <2>3 DEF WriteTransition, Goto
    <3>3. /\ pc'[t] \notin {"receipt", "returned", "authorize"}
          /\ pc[t] \notin {"receipt", "returned"}
      BY <3>1, <3>2 DEF Target, After
    <3> QED BY <3>2, <3>3
  <2>4. CASE ReleaseFunds(t)
    BY <1>0, <2>4 DEF ReleaseFunds, At, Goto
  <2>5. CASE RefundFunds(t)
    BY <1>0, <2>5 DEF RefundFunds, At, Goto
  <2> QED BY <1>1, <2>1, <2>2, <2>3, <2>4, <2>5 DEF ClearStep
<1>2. ASSUME NEW d \in Disputes, DisputeCall(d, t) PROVE Goal
  BY <1>2, DisputeCallIsStep DEF callVars
<1> QED BY <1>1, <1>2 DEF StepOf

LEMMA StepLiveCalls ==
    ASSUME TypeInv, LiveCalls, NEW t \in Txs \ gone, StepOf(t), UNCHANGED gone
    PROVE  LiveCalls' /\ PayoutsStay
<1>0. t \in Txs /\ [Next]_vars
  BY StepOfIsNext
<1>1. /\ t \in DOMAIN escrow <=> pc[t] \notin BeforeHold /\ payout[t] = None
      /\ pc[t] \in BeforeHold => payout[t] = None
      /\ pc[t] \in {"receipt", "returned"} => payout[t] # None
      /\ pc[t] = "returned" <=> t \in receipts
  BY DEF LiveCalls
<1>2. /\ t \in DOMAIN escrow' <=> pc'[t] \notin BeforeHold /\ payout'[t] = None
      /\ pc'[t] \in BeforeHold => payout'[t] = None
      /\ payout[t] # None => payout'[t] = payout[t]
  <2>1. CASE Holds(t)
    BY <1>1, <2>1 DEF Holds, BeforeHold
  <2>2. CASE PaysOut(t) /\ (pc'[t] \in BeforeHold <=> pc[t] \in BeforeHold)
    BY <1>1, <2>2 DEF PaysOut
  <2>3. CASE Untouched(t) /\ (pc'[t] \in BeforeHold <=> pc[t] \in BeforeHold)
    BY <1>1, <2>3 DEF Untouched
  <2> QED BY <1>0, <2>1, <2>2, <2>3, StepKinds
<1>3. pc'[t] \in {"receipt", "returned"} => payout'[t] # None
  <2>1. ReleaseFunds(t) => payout'[t] # None
    BY DEF ReleaseFunds, Paid, TypeInv, TypeOK, DisputesTypeOK, None
  <2> QED BY <1>0, <1>1, <1>2, <2>1, StepMovesOn
<1>4. pc'[t] = "returned" <=> t \in receipts'
  BY <1>0, <1>1, StepMovesOn
<1>5. ASSUME NEW u \in Txs \ {t}
      PROVE  Untouched(u) /\ pc'[u] = pc[u] /\ (u \in receipts' <=> u \in receipts)
  BY <1>0, <1>5, StepIsLocal
<1>6. LiveCalls'
  BY <1>2, <1>3, <1>4, <1>5 DEF LiveCalls, Untouched
<1>7. PayoutsStay
  BY <1>2, <1>5 DEF PayoutsStay, Untouched
<1> QED BY <1>6, <1>7

\* Disputes stay true, live ones stay on live transactions, and what is finished
\* stays finished.
DisputesStay ==
    /\ \A d \in DOMAIN disputes : d \in DOMAIN disputes' /\ Subject(d)' = Subject(d)
    /\ \A r \in Requests : Finished(r) => Finished(r)'

LEMMA StepLiveDisputes ==
    ASSUME TypeInv, LiveCalls, DisputeInv, LiveDisputes, NEW t \in Txs \ gone, StepOf(t),
           UNCHANGED gone
    PROVE  DisputeInv' /\ LiveDisputes' /\ DisputesStay
<1>0. /\ t \in Txs /\ DisputesTypeOK /\ PayoutsStay /\ DOMAIN disputes \subseteq Disputes
      /\ payout[t] # None => t \notin DOMAIN escrow
  BY StepLiveCalls DEF TypeInv, TypeOK, DisputesTypeOK, LiveCalls
<1>1. ASSUME NEW r \in Txs, pc[r] = "returned" PROVE pc'[r] = "returned"
  BY <1>0, <1>1, StepIsLocal, StepMovesOn
<1>2. CASE ClearStep(t)
  <2>1. UNCHANGED <<opening, disputes, resolving>>
    BY <1>0, <1>2, ClearKeepsDisputes
  <2>2. DisputeInv'
    BY <1>0, <2>1, OtherStepInv
  <2> QED BY <1>1, <2>1, <2>2 DEF LiveDisputes, DisputesStay, Subject, Finished
<1>3. ASSUME NEW d \in Disputes \ gone, DisputeCall(d, t)
      PROVE  DisputeInv' /\ LiveDisputes' /\ DisputesStay
  <2>1. DisputeStep(d, t)
    BY <1>0, <1>3, DisputeCallIsStep
  <2>2. DisputeInv' /\ Changes(d)
    BY <1>0, <2>1, DisputeStepInv, DisputeStepChanges
  <2>3. \A e \in DOMAIN disputes : e \in DOMAIN disputes' /\ Subject(e)' = Subject(e)
    BY <2>2 DEF Changes, Subject
  <2>4. \A e \in DOMAIN disputes : disputes[e].resolution # None =>
                                     disputes'[e].resolution # None
    BY <2>2 DEF Changes
  <2>5. DisputesStay
    BY <1>1, <2>3, <2>4 DEF DisputesStay, Finished
  <2>6. d \notin DOMAIN disputes /\ d \in DOMAIN disputes' => Subject(d)' = t
    <3>1. CASE RecordDispute(d, t)
      <4>1. NewDispute(d, t)
        BY <3>1 DEF RecordDispute
      <4>2. disputes'[d] = [transaction_id |-> t, resolution |-> None]
        BY <1>0, <4>1, NewDisputeType
      <4> QED BY <4>2 DEF Subject
    <3>2. CASE ResolveDispute(d, t) \/ WriteOutcome(d, t)
      BY <1>0, <3>2, ResolutionShape, WriteOutcomeShape DEF Unresolved
    <3>3. CASE CheckDispute(d, t) \/ WriteDispute(d, t)
      BY <3>3 DEF CheckDispute, WriteDispute
    <3> QED BY <2>1, <3>1, <3>2, <3>3 DEF DisputeStep, OpeningStep
  <2>7. LiveDisputes'
    BY <2>2, <2>3, <2>6 DEF LiveDisputes, Changes
  <2> QED BY <2>2, <2>5, <2>7
<1> QED BY <1>2, <1>3 DEF StepOf

\* A live dispute that is resolved has paid a live transaction out.
LEMMA ResolvedIsOut ==
    ASSUME TypeInv, LiveCalls, DisputeInv, LiveDisputes,
           NEW d \in DOMAIN disputes, disputes[d].resolution # None
    PROVE  Subject(d) \in Txs /\ payout[Subject(d)] # None
<1>1. /\ disputes[d] \in [transaction_id : Txs, resolution : Resolution \cup {None}]
      /\ d \in Disputes /\ resolving[d] \in DOMAIN Outcome \cup {None}
  BY DEF TypeInv, TypeOK, DisputesTypeOK
<1>2. Decision(d) \in Resolution /\ Subject(d) \in Txs
  BY <1>1 DEF Decision, Subject, Outcome, Resolution
<1>3. payout[Subject(d)] = PayoutOf[Decision(d)]
  BY <1>2, PayoutOfType DEF DisputeInv, DecisionsTrue
<1> QED BY <1>2, <1>3, PayoutOfType

\* Nothing is known of a call that has not begun, in the service or in a table.
NewIsUnknown ==
    \A t \in Txs : pc[t] = "authorize" =>
        /\ t \notin DOMAIN escrow \cup DOMAIN stored.escrow \cup DOMAIN draft.escrow
        /\ t \notin receipts \cup stored.receipts

\* What was answered is finished, in the tables and in the service.
AnsweredKept ==
    \A r \in answered :
        /\ Finished(r)
        /\ TxOf(r) \notin DOMAIN stored.escrow \cup DOMAIN escrow
        /\ r \in Txs => r \in receipts \cap stored.receipts

\* The save in progress is a finished request's, and the escrow it has read
\* holds nothing of that request or of an answered one.
SaveKept ==
    saving # Idle =>
        /\ Finished(saving.by)
        /\ saving.next # "escrow" =>
              \A r \in answered \cup {saving.by} : TxOf(r) \notin DOMAIN draft.escrow

RecordsInv ==
    /\ LiveCalls /\ DisputeInv /\ LiveDisputes
    /\ NewIsUnknown /\ AnsweredKept /\ SaveKept

\* The transaction of a finished request.
LEMMA FinishedTx ==
    ASSUME TypeInv, NEW r \in Requests, Finished(r)
    PROVE  /\ TxOf(r) \in Txs
           /\ r \in Txs => TxOf(r) = r /\ pc[r] = "returned"
           /\ r \notin Txs => /\ r \in DOMAIN disputes /\ disputes[r].resolution # None
                              /\ TxOf(r) = Subject(r)
<1>1. DOMAIN disputes \subseteq Disputes /\ \A d \in DOMAIN disputes : Subject(d) \in Txs
  BY DEF TypeInv, TypeOK, DisputesTypeOK, Subject
<1> QED BY <1>1, TxsAreNoDisputes DEF Finished, TxOf, Subject

LEMMA FinishedIsPaid ==
    ASSUME TypeInv, LiveCalls, DisputeInv, LiveDisputes,
           NEW r \in Requests, Finished(r), r \notin gone \/ TxOf(r) \notin gone
    PROVE  /\ payout[TxOf(r)] # None /\ TxOf(r) \notin gone /\ TxOf(r) \notin DOMAIN escrow
           /\ r \in Txs => r \in receipts
<1>1. CASE r \in Txs
  BY <1>1, FinishedTx DEF LiveCalls
<1>2. CASE r \notin Txs
  <2>1. r \in DOMAIN disputes /\ disputes[r].resolution # None /\ TxOf(r) = Subject(r)
        /\ TxOf(r) \in Txs /\ r \in Disputes
    BY <1>2, FinishedTx DEF Requests
  <2>2. payout[TxOf(r)] # None
    BY <2>1, ResolvedIsOut
  <2>3. TxOf(r) \notin gone
    BY <2>1 DEF LiveDisputes
  <2> QED BY <1>2, <2>1, <2>2, <2>3 DEF LiveCalls
<1> QED BY <1>1, <1>2

\* What a step of the service leaves of the finished requests.
LEMMA FinishedStay ==
    ASSUME TypeInv, LiveCalls, DisputeInv, LiveDisputes,
           NEW t \in Txs \ gone, StepOf(t), UNCHANGED gone,
           NEW r \in Requests, Finished(r), TxOf(r) \notin DOMAIN escrow
    PROVE  Finished(r)' /\ TxOf(r)' = TxOf(r) /\ TxOf(r) \notin DOMAIN escrow'
<1>1. Finished(r)' /\ DisputesStay
  BY StepLiveDisputes DEF DisputesStay
<1>2. TxOf(r)' = TxOf(r) /\ TxOf(r) \in Txs
  BY <1>1, FinishedTx DEF DisputesStay, TxOf, Subject
<1>3. CASE TxOf(r) = t
  <2>1. payout[t] # None
    BY <1>3, FinishedIsPaid
  <2>2. payout'[t] # None /\ LiveCalls'
    BY <2>1, StepLiveCalls DEF PayoutsStay
  <2> QED BY <1>1, <1>2, <1>3, <2>2 DEF LiveCalls
<1>4. CASE TxOf(r) # t
  BY <1>1, <1>2, <1>4, StepIsLocal DEF Untouched
<1> QED BY <1>3, <1>4

LEMMA InitRecordsInv == Init /\ GatewayInit => RecordsInv
<1> SUFFICES ASSUME Init, GatewayInit PROVE RecordsInv
  OBVIOUS
<1>1. DisputeInv
  BY DisputesInitInv DEF Init
<1>2. /\ pc = [t \in Txs |-> "authorize"] /\ DOMAIN escrow = {} /\ receipts = {}
      /\ payout = [t \in Txs |-> None] /\ DOMAIN disputes = {}
      /\ stored.escrow = escrow /\ stored.receipts = {} /\ draft = stored
      /\ saving = Idle /\ answered = {}
  BY DEF Init, LedgerInit, DisputesInit, GatewayInit
<1> QED BY <1>1, <1>2 DEF RecordsInv, LiveCalls, LiveDisputes, NewIsUnknown, AnsweredKept,
       SaveKept, BeforeHold

LEMMA ServiceKeepsRecords ==
    ASSUME GatewayInv, RecordsInv, NEW t \in Txs \ gone, StepOf(t), ServiceStep
    PROVE  RecordsInv'
<1>0. /\ TypeInv /\ LiveCalls /\ DisputeInv /\ LiveDisputes
      /\ answered \subseteq Requests /\ draft \in Tables
      /\ saving = Idle \/ /\ saving.by \in Requests \ gone
                          /\ saving.next \in {"escrow", "pool", "receipts"}
  BY DEF GatewayInv, GatewayTypeOK, RecordsInv
<1>1. /\ UNCHANGED <<stored, saving, answered, gone>>
      /\ draft'.escrow = draft.escrow
  BY <1>0 DEF ServiceStep, Tables
<1>2. /\ LiveCalls' /\ DisputeInv' /\ LiveDisputes'
  BY <1>0, <1>1, StepLiveCalls, StepLiveDisputes
<1>3. NewIsUnknown'
  <2>1. ASSUME NEW u \in Txs, pc'[u] = "authorize"
        PROVE  /\ pc[u] = "authorize"
               /\ u \notin DOMAIN escrow' /\ u \notin receipts'
    <3>1. pc[u] = "authorize" /\ (u # t => Untouched(u) /\ (u \in receipts' <=> u \in receipts))
      BY <1>0, <2>1, StepMovesOn, StepIsLocal
    <3>2. u \notin DOMAIN escrow /\ u \notin receipts
      BY <3>1 DEF RecordsInv, NewIsUnknown
    <3>3. CASE u = t
      BY <1>1, <1>2, <2>1, <3>1, <3>3 DEF LiveCalls, BeforeHold
    <3> QED BY <3>1, <3>2, <3>3 DEF Untouched
  <2> QED BY <1>1, <2>1 DEF RecordsInv, NewIsUnknown
<1>4. AnsweredKept'
  <2>1. ASSUME NEW r \in answered
        PROVE  /\ Finished(r)' /\ TxOf(r)' \notin DOMAIN stored.escrow \cup DOMAIN escrow'
               /\ r \in Txs => r \in receipts' \cap stored.receipts
    <3>1. /\ r \in Requests /\ Finished(r)
          /\ TxOf(r) \notin DOMAIN stored.escrow \cup DOMAIN escrow
          /\ r \in Txs => r \in receipts \cap stored.receipts
      BY <1>0 DEF RecordsInv, AnsweredKept
    <3>2. Finished(r)' /\ TxOf(r)' = TxOf(r) /\ TxOf(r) \notin DOMAIN escrow'
      BY <1>0, <1>1, <3>1, FinishedStay
    <3>3. receipts \subseteq receipts'
      BY <1>0, StepMovesOn
    <3> QED BY <3>1, <3>2, <3>3
  <2> QED BY <1>1, <2>1 DEF AnsweredKept
<1>5. SaveKept'
  <2>1. ASSUME NEW r \in Requests, Finished(r),
               r \in answered \/ (saving # Idle /\ r = saving.by)
        PROVE  Finished(r)' /\ TxOf(r)' = TxOf(r)
    <3>1. TxOf(r) \notin DOMAIN escrow
      BY <1>0, <2>1, FinishedIsPaid DEF RecordsInv, AnsweredKept
    <3> QED BY <1>0, <1>1, <2>1, <3>1, FinishedStay
  <2>2. ASSUME NEW r \in answered PROVE r \in Requests /\ Finished(r)
    BY <1>0 DEF RecordsInv, AnsweredKept
  <2> QED BY <1>0, <1>1, <2>1, <2>2 DEF RecordsInv, SaveKept
<1> QED BY <1>2, <1>3, <1>4, <1>5 DEF RecordsInv

\* The parts of the invariant that concern the service alone.
LEMMA ServiceRecordsSame ==
    ASSUME RecordsInv, UNCHANGED <<vars, gone>>
    PROVE  /\ LiveCalls' /\ DisputeInv' /\ LiveDisputes'
           /\ \A r : (Finished(r)' <=> Finished(r)) /\ TxOf(r)' = TxOf(r)
<1> USE DEF vars, ledgerVars, disputeVars, callVars, RecordsInv
<1>1. LiveCalls' /\ LiveDisputes'
  BY DEF LiveCalls, LiveDisputes, Subject
<1>2. DisputeInv'
  BY DEF DisputeInv, OpeningIsNew, WrittenOnce, DecisionsTrue, DecisionsOnce, Decision, Subject
<1>3. \A r : (Finished(r)' <=> Finished(r)) /\ TxOf(r)' = TxOf(r)
  BY DEF Finished, TxOf
<1> QED BY <1>1, <1>2, <1>3

LEMMA SaveKeepsRecords ==
    ASSUME GatewayInv, RecordsInv,
           \/ \E r \in Requests : BeginSave(r) \/ LockTimeout(r)
           \/ SaveEscrow \/ SavePool \/ CommitSave
           \/ UNCHANGED <<vars, gatewayVars>>
    PROVE  RecordsInv'
<1>0. /\ TypeInv /\ LiveCalls /\ DisputeInv /\ LiveDisputes
      /\ answered \subseteq Requests /\ draft \in Tables /\ stored \in Tables
      /\ saving \in [by : Requests \cup {None}, next : {None, "escrow", "pool", "receipts"}]
      /\ saving = Idle \/ /\ saving.by \in Requests \ gone
                          /\ saving.next \in {"escrow", "pool", "receipts"}
      /\ Idle.next = None /\ None \notin {"escrow", "pool", "receipts"}
  BY DEF GatewayInv, GatewayTypeOK, RecordsInv, Idle, None
<1>1. UNCHANGED <<vars, gone>>
  BY DEF BeginSave, LockTimeout, SaveEscrow, SavePool, CommitSave, gatewayVars
<1>2. /\ LiveCalls' /\ DisputeInv' /\ LiveDisputes'
      /\ \A r : (Finished(r)' <=> Finished(r)) /\ TxOf(r)' = TxOf(r)
      /\ pc' = pc /\ escrow' = escrow /\ receipts' = receipts
  BY <1>1, ServiceRecordsSame DEF vars, ledgerVars, callVars
<1>3. ASSUME NEW r \in Requests, BeginSave(r) PROVE RecordsInv'
  <2>1. /\ draft'.escrow = stored.escrow /\ UNCHANGED <<stored, answered>>
        /\ saving' = [by |-> r, next |-> "escrow"] /\ Finished(r)
    BY <1>0, <1>3 DEF BeginSave, Waiting, Tables
  <2> QED BY <1>2, <2>1 DEF RecordsInv, NewIsUnknown, AnsweredKept, SaveKept
<1>4. ASSUME NEW r \in Requests, LockTimeout(r) PROVE RecordsInv'
  BY <1>2, <1>4 DEF LockTimeout, RecordsInv, NewIsUnknown, AnsweredKept, SaveKept
<1>5. CASE SaveEscrow
  <2>1. /\ draft'.escrow = escrow /\ UNCHANGED <<stored, answered>>
        /\ saving # Idle /\ saving'.by = saving.by
    BY <1>0, <1>5 DEF SaveEscrow, Tables
  <2>2. Finished(saving.by) /\ TxOf(saving.by) \notin DOMAIN escrow
    BY <1>0, <2>1, FinishedIsPaid DEF RecordsInv, SaveKept
  <2> QED BY <1>2, <2>1, <2>2 DEF RecordsInv, NewIsUnknown, AnsweredKept, SaveKept
<1>6. CASE SavePool
  <2>1. /\ draft'.escrow = draft.escrow /\ UNCHANGED <<stored, answered>>
        /\ saving # Idle /\ saving'.by = saving.by /\ saving.next = "pool"
    BY <1>0, <1>6 DEF SavePool, Tables
  <2> QED BY <1>2, <2>1 DEF RecordsInv, NewIsUnknown, AnsweredKept, SaveKept
<1>7. CASE CommitSave
  <2>1. /\ draft' = stored' /\ stored'.escrow = draft.escrow /\ stored'.receipts = receipts
        /\ answered' = answered \cup {saving.by} /\ saving' = Idle
        /\ saving # Idle /\ saving.next = "receipts" /\ saving.by \in Requests \ gone
    BY <1>0, <1>7 DEF CommitSave, Tables
  <2>2. /\ Finished(saving.by) /\ TxOf(saving.by) \notin DOMAIN escrow
        /\ saving.by \in Txs => saving.by \in receipts
    BY <1>0, <2>1, FinishedIsPaid DEF RecordsInv, SaveKept
  <2>3. \A r \in answered \cup {saving.by} : TxOf(r) \notin DOMAIN draft.escrow
    BY <2>1 DEF RecordsInv, SaveKept
  <2>4. AnsweredKept'
    BY <1>2, <2>1, <2>2, <2>3 DEF RecordsInv, AnsweredKept
  <2>5. NewIsUnknown'
    BY <1>2, <2>1 DEF RecordsInv, NewIsUnknown
  <2> QED BY <1>2, <2>1, <2>4, <2>5 DEF RecordsInv, SaveKept
<1>8. CASE UNCHANGED <<vars, gatewayVars>>
  BY <1>2, <1>8 DEF gatewayVars, RecordsInv, NewIsUnknown, AnsweredKept, SaveKept
<1> QED BY <1>3, <1>4, <1>5, <1>6, <1>7, <1>8

LEMMA RestartKeepsRecords ==
    ASSUME GatewayInv, RecordsInv, Restart
    PROVE  RecordsInv'
<1>0. /\ TypeInv /\ LiveCalls /\ DisputeInv /\ answered \subseteq Requests
      /\ DisputesTypeOK
  BY DEF GatewayInv, GatewayTypeOK, RecordsInv, TypeInv, TypeOK
<1>1. /\ escrow' = stored.escrow /\ receipts' = stored.receipts
      /\ UNCHANGED <<pc, opening, marked, disputes, resolving, payout, stored, answered>>
      /\ saving' = Idle /\ draft' = stored
      /\ gone' = gone \cup {t \in Txs : pc[t] # "authorize"}
                      \cup {d \in Disputes : d \in DOMAIN disputes \/ opening[d] # None}
  BY DEF Restart, disputeVars
<1>2. \A r : (Finished(r)' <=> Finished(r)) /\ TxOf(r)' = TxOf(r)
  BY <1>1 DEF Finished, TxOf
<1>3. LiveCalls'
  <2>1. ASSUME NEW t \in Txs \ gone'
        PROVE  /\ pc[t] = "authorize" /\ payout[t] = None
               /\ t \notin DOMAIN stored.escrow /\ t \notin stored.receipts
    <3>1. t \in Txs \ gone /\ pc[t] = "authorize"
      BY <1>1
    <3>2. payout[t] = None
      BY <3>1 DEF RecordsInv, LiveCalls, BeforeHold
    <3> QED BY <3>1, <3>2 DEF RecordsInv, NewIsUnknown
  <2> QED BY <1>1, <2>1 DEF LiveCalls, BeforeHold
<1>4. DisputeInv'
  BY <1>0, <1>1, OtherStepInv DEF PayoutsStay
<1>5. LiveDisputes'
  BY <1>1 DEF LiveDisputes
<1>6. NewIsUnknown'
  BY <1>1 DEF RecordsInv, NewIsUnknown
<1>7. AnsweredKept'
  BY <1>1, <1>2 DEF RecordsInv, AnsweredKept
<1> QED BY <1>1, <1>3, <1>4, <1>5, <1>6, <1>7 DEF RecordsInv, SaveKept

\* What the calls pay an account depends on them only, and grows with them.
LEMMA PaidToType ==
    ASSUME NEW a \in Accounts, NEW C
    PROVE  PaidTo(a, C) \in Int
<1>1. [t \in Txs |-> IF t \in C /\ Receiver[t] = a THEN Amount[t] ELSE 0] \in [Txs -> Int]
  BY TotalType
<1> QED BY <1>1, SumType, ParameterTypes DEF PaidTo

LEMMA PaidToGrows ==
    ASSUME NEW a \in Accounts, NEW C, NEW D, C \cap Txs \subseteq D
    PROVE  PaidTo(a, C) <= PaidTo(a, D)
<1> DEFINE f == [t \in Txs |-> IF t \in C /\ Receiver[t] = a THEN Amount[t] ELSE 0]
           e == [t \in Txs |-> IF t \in D /\ Receiver[t] = a THEN Amount[t] ELSE 0]
<1>1. f \in [Txs -> Int] /\ e \in [Txs -> Int] /\ \A t \in Txs : f[t] <= e[t]
  BY TotalType
<1> HIDE DEF f, e
<1>2. SumFunctionOnSet(f, Txs) <= SumFunctionOnSet(e, Txs)
  BY <1>1, SumMonotone, ParameterTypes
<1> QED BY <1>2 DEF PaidTo, f, e

LEMMA PaidToOneMore ==
    ASSUME NEW a \in Accounts, NEW C, NEW t \in Txs
    PROVE  PaidTo(a, C \cup {t}) <=
               PaidTo(a, C) + (IF Receiver[t] = a THEN Amount[t] ELSE 0)
<1> DEFINE f == [u \in Txs |-> IF u \in C /\ Receiver[u] = a THEN Amount[u] ELSE 0]
           e == [u \in Txs |-> IF u \in C \cup {t} /\ Receiver[u] = a THEN Amount[u] ELSE 0]
           n == IF Receiver[t] = a THEN Amount[t] ELSE 0
<1>1. /\ f \in [Txs -> Int] /\ e \in [Txs -> Int] /\ \A u \in Txs \ {t} : e[u] = f[u]
      /\ n \in Nat /\ f[t] \in Nat /\ e[t] = n
  BY TotalType
<1>2. /\ PaidTo(a, C) = SumFunctionOnSet(f, Txs)
      /\ PaidTo(a, C \cup {t}) = SumFunctionOnSet(e, Txs)
  BY DEF PaidTo
<1> HIDE DEF f, e, n
<1>3. SumFunctionOnSet(e, Txs) = SumFunctionOnSet(f, Txs) - f[t] + e[t]
  BY <1>1, SumUpdate, ParameterTypes
<1>4. SumFunctionOnSet(f, Txs) \in Int
  BY <1>1, SumType, ParameterTypes
<1>5. PaidTo(a, C \cup {t}) <= PaidTo(a, C) + n
  BY <1>1, <1>2, <1>3, <1>4
<1> QED BY <1>5 DEF n

\* With no less money, or fewer calls to be paid for, an account stays paid for.
LEMMA PaidForFewer ==
    ASSUME NEW a \in Accounts, NEW k \in [Accounts -> Nat], NEW l \in [Accounts -> Nat],
           NEW C, NEW D, PaidFor(a, k, D), C \cap Txs \subseteq D,
           ~ (\E t \in Txs : Sender[t] = a) => l[a] >= k[a]
    PROVE  PaidFor(a, l, C)
<1>1. PaidTo(a, C) <= PaidTo(a, D) /\ PaidTo(a, C) \in Int /\ PaidTo(a, D) \in Int
  BY PaidToGrows, PaidToType
<1>2. k[a] \in Int /\ l[a] \in Int /\ Opening[a] \in Int
  BY ParameterTypes
<1> QED BY <1>1, <1>2 DEF PaidFor

LEMMA PaidForOneMore ==
    ASSUME NEW a \in Accounts, NEW k \in [Accounts -> Nat], NEW l \in [Accounts -> Nat],
           NEW C, NEW D, NEW t \in Txs, PaidFor(a, k, D), C \cap Txs \subseteq D \cup {t},
           l[a] = k[a] + (IF Receiver[t] = a THEN Amount[t] ELSE 0)
    PROVE  PaidFor(a, l, C)
<1>1. /\ PaidTo(a, C) <= PaidTo(a, D \cup {t})
      /\ PaidTo(a, D \cup {t}) <= PaidTo(a, D) + (IF Receiver[t] = a THEN Amount[t] ELSE 0)
      /\ PaidTo(a, C) \in Int /\ PaidTo(a, D) \in Int /\ PaidTo(a, D \cup {t}) \in Int
  BY PaidToGrows, PaidToOneMore, PaidToType
<1>2. k[a] \in Int /\ l[a] \in Int /\ Opening[a] \in Int /\ Amount[t] \in Nat
  BY ParameterTypes
<1> QED BY <1>1, <1>2 DEF PaidFor

LEMMA NothingOwed ==
    ASSUME NEW a \in Accounts
    PROVE  PaidFor(a, Opening, {})
<1>1. [t \in Txs |-> IF t \in {} /\ Receiver[t] = a THEN Amount[t] ELSE 0] = [t \in Txs |-> 0]
  OBVIOUS
<1>2. PaidTo(a, {}) = 0
  BY <1>1, SumZero, ParameterTypes DEF PaidTo
<1> QED BY <1>2, ParameterTypes DEF PaidFor

\* No ledger method takes from an account that buys nothing.
LEMMA SellersNeverPay ==
    ASSUME LedgerInv, [LedgerNext]_ledgerVars, NEW a \in Accounts,
           ~ \E t \in Txs : Sender[t] = a
    PROVE  balances'[a] >= balances[a]
<1>0. balances \in [Accounts -> Nat] /\ balances[a] \in Nat
  BY DEF LedgerInv, LedgerTypeOK
<1>1. ASSUME NEW t \in Txs, hold(t) PROVE balances'[a] >= balances[a]
  BY <1>0, <1>1, TotalType DEF hold, Credit
<1>2. ASSUME NEW t \in Txs, release(t) PROVE balances'[a] >= balances[a]
  BY <1>0, <1>2, TotalType DEF release, Credit
<1>3. ASSUME NEW t \in Txs, refund_escrow(t) PROVE balances'[a] >= balances[a]
  BY <1>0, <1>3, TotalType DEF refund_escrow, Credit
<1>4. ASSUME NEW t \in Txs, NEW p \in ProviderAmounts, split_escrow(t, p)
      PROVE  balances'[a] >= balances[a]
  <2>1. CASE InRange(t, p)
    <3>1. p \in Nat /\ Sender[t] # a
      BY <2>1, TotalType DEF InRange
    <3>2. balances'[a] = balances[a] + (IF Receiver[t] = a THEN p ELSE 0)
      BY <1>0, <1>4, <2>1, <3>1, TotalType DEF split_escrow
    <3> QED BY <1>0, <3>1, <3>2
  <2>2. CASE ~InRange(t, p)
    BY <1>0, <1>4, <2>2 DEF split_escrow
  <2> QED BY <2>1, <2>2
<1>5. ASSUME \/ UNCHANGED ledgerVars
             \/ \E t \in Txs : slash_escrow(t) \/ \E s \in TransactionState : WriteState(t, s)
      PROVE  balances'[a] >= balances[a]
  BY <1>0, <1>5 DEF ledgerVars, slash_escrow, WriteState, moneyVars
<1> QED BY <1>1, <1>2, <1>3, <1>4, <1>5 DEF LedgerNext

\* What the service owes the sellers: the calls that were answered, those that have
\* been paid and not forgotten, and the receipts, unless they were loaded from a
\* snapshot of more than one moment.
LiveGuaranteed ==
    (answered \cap Txs) \cup {t \in Txs \ gone : pc[t] \in {"receipt", "returned"}}
                        \cup (IF tainted THEN {} ELSE receipts)
StoredGuaranteed == (answered \cap Txs) \cup (IF stored.torn THEN {} ELSE stored.receipts)

MoneyPaid ==
    /\ \A a \in Accounts : /\ PaidFor(a, balances, LiveGuaranteed)
                           /\ PaidFor(a, stored.balances, StoredGuaranteed)
    /\ ~tainted => receipts \cap DOMAIN escrow = {}
    /\ ~stored.torn => stored.receipts \cap DOMAIN stored.escrow = {}

\* The balances of the save in progress pay for what it will have answered; and as
\* long as it is not torn, what it has read is still so.
SavePaid ==
    saving # Idle =>
        /\ \A a \in Accounts : PaidFor(a, draft.balances, (answered \cup {saving.by}) \cap Txs)
        /\ ~draft.torn => /\ ~tainted /\ draft.balances = balances
                          /\ saving.next # "escrow" => draft.escrow = escrow
                          /\ saving.next = "receipts" => draft.pool = fee_pool

MoneyInv == MoneyPaid /\ SavePaid

LEMMA InitMoneyInv == Init /\ GatewayInit => MoneyInv
<1> SUFFICES ASSUME Init, GatewayInit PROVE MoneyInv
  OBVIOUS
<1>1. /\ pc = [t \in Txs |-> "authorize"] /\ receipts = {} /\ balances = Opening
      /\ stored.receipts = {} /\ stored.balances = Opening
      /\ saving = Idle /\ answered = {}
  BY DEF Init, LedgerInit, GatewayInit
<1>2. LiveGuaranteed = {} /\ StoredGuaranteed = {}
  BY <1>1 DEF LiveGuaranteed, StoredGuaranteed
<1> QED BY <1>1, <1>2, NothingOwed DEF MoneyInv, MoneyPaid, SavePaid

\* The service's step in terms of what it owes.
LEMMA GuaranteedGrows ==
    ASSUME TypeInv, NEW t \in Txs \ gone, StepOf(t), UNCHANGED <<answered, gone, tainted>>
    PROVE  /\ LiveGuaranteed' \subseteq LiveGuaranteed \cup {t}
           /\ LiveGuaranteed' \subseteq LiveGuaranteed \/ ReleaseFunds(t)
<1>1. \A u \in Txs \ {t} : pc'[u] = pc[u]
  BY StepIsLocal
<1>2. /\ pc'[t] \in {"receipt", "returned"} =>
            pc[t] \in {"receipt", "returned"} \/ ReleaseFunds(t)
      /\ receipts' = receipts \/ (pc[t] = "receipt" /\ receipts' = receipts \cup {t})
  BY StepMovesOn
<1> QED BY <1>1, <1>2 DEF LiveGuaranteed

LEMMA ServiceKeepsMoney ==
    ASSUME GatewayInv, RecordsInv, MoneyInv, NEW t \in Txs \ gone, StepOf(t), ServiceStep
    PROVE  MoneyInv'
<1>0. /\ TypeInv /\ LiveCalls /\ DisputeInv /\ LiveDisputes /\ LedgerInv
      /\ draft \in Tables /\ stored \in Tables /\ balances \in [Accounts -> Nat]
  BY LiveTables DEF GatewayInv, RecordsInv, TypeInv, TypeOK, LedgerInv
<1>1. UNCHANGED <<stored, saving, answered, gone, tainted>>
  BY DEF ServiceStep
<1>2. /\ draft' = [draft EXCEPT !.torn = @ \/ (saving # Idle /\ moneyVars' # moneyVars)]
  BY DEF ServiceStep
<1>3. LiveCalls' /\ balances' \in [Accounts -> Nat] /\ [LedgerNext]_ledgerVars
  <2>1. [Next]_vars
    BY StepOfIsNext
  <2>2. TypeInv'
    BY <1>0, <2>1, StepTypeInv
  <2>3. balances' \in [Accounts -> Nat]
    BY <2>2 DEF TypeInv, TypeOK, LedgerTypeOK
  <2> QED BY <1>0, <1>1, <2>1, <2>3, StepLiveCalls, ServiceStepIsLedgerStep
<1>4. ASSUME NEW a \in Accounts PROVE PaidFor(a, balances', LiveGuaranteed')
  <2>0. PaidFor(a, balances, LiveGuaranteed)
    BY DEF MoneyInv, MoneyPaid
  <2>1. CASE \E u \in Txs : Sender[u] = a
    BY <2>1 DEF PaidFor
  <2>2. CASE ReleaseFunds(t)
    <3>1. balances'[a] = balances[a] + (IF Receiver[t] = a THEN Amount[t] ELSE 0)
      BY <1>0, <2>2, TotalType DEF ReleaseFunds, release, Credit
    <3>2. LiveGuaranteed' \cap Txs \subseteq LiveGuaranteed \cup {t}
      BY <1>0, <1>1, GuaranteedGrows
    <3> QED BY <1>0, <1>3, <2>0, <3>1, <3>2, PaidForOneMore
  <2>3. CASE ~ (\E u \in Txs : Sender[u] = a) /\ ~ReleaseFunds(t)
    <3>1. balances'[a] >= balances[a]
      BY <1>0, <1>3, <2>3, SellersNeverPay
    <3>2. LiveGuaranteed' \cap Txs \subseteq LiveGuaranteed
      BY <1>0, <1>1, <2>3, GuaranteedGrows
    <3> QED BY <1>0, <1>3, <2>0, <3>1, <3>2, PaidForFewer
  <2> QED BY <2>1, <2>2, <2>3
<1>5. ASSUME NEW a \in Accounts PROVE PaidFor(a, stored'.balances, StoredGuaranteed')
  <2>1. StoredGuaranteed' = StoredGuaranteed
    BY <1>1 DEF StoredGuaranteed
  <2> QED BY <1>1, <2>1 DEF MoneyInv, MoneyPaid
<1>6. ~tainted => receipts' \cap DOMAIN escrow' = {}
  <2>1. ~(t \in receipts' /\ t \in DOMAIN escrow')
    BY <1>1, <1>3 DEF LiveCalls
  <2>2. \A u \in Txs \ {t} : (u \in receipts' <=> u \in receipts) /\ Untouched(u)
    BY <1>0, StepIsLocal
  <2>3. receipts' \subseteq Txs
    BY <1>0, StepMovesOn DEF TypeInv, TypeOK
  <2> QED BY <2>1, <2>2, <2>3 DEF MoneyInv, MoneyPaid, Untouched
<1>7. MoneyPaid'
  BY <1>1, <1>4, <1>5, <1>6 DEF MoneyInv, MoneyPaid
<1>8. SavePaid'
  <2>1. /\ draft'.balances = draft.balances /\ draft'.escrow = draft.escrow
        /\ draft'.pool = draft.pool
    BY <1>0, <1>2 DEF Tables
  <2>2. saving # Idle /\ ~draft'.torn => ~draft.torn /\ moneyVars' = moneyVars
    BY <1>0, <1>2 DEF Tables
  <2>3. saving # Idle /\ ~draft'.torn =>
           ~draft.torn /\ balances' = balances /\ escrow' = escrow /\ fee_pool' = fee_pool
    BY <2>2 DEF moneyVars
  <2> QED BY <1>1, <2>1, <2>3 DEF MoneyInv, SavePaid
<1> QED BY <1>7, <1>8 DEF MoneyInv

LEMMA SaveKeepsMoney ==
    ASSUME GatewayInv, RecordsInv, MoneyInv,
           \/ \E r \in Requests : BeginSave(r) \/ LockTimeout(r)
           \/ SaveEscrow \/ SavePool \/ CommitSave
           \/ UNCHANGED <<vars, gatewayVars>>
    PROVE  MoneyInv'
<1>0. /\ TypeInv /\ LiveCalls /\ DisputeInv /\ LiveDisputes
      /\ draft \in Tables /\ stored \in Tables /\ balances \in [Accounts -> Nat]
      /\ saving \in [by : Requests \cup {None}, next : {None, "escrow", "pool", "receipts"}]
      /\ saving = Idle \/ /\ saving.by \in Requests \ gone
                          /\ saving.next \in {"escrow", "pool", "receipts"}
      /\ Idle.next = None /\ None \notin {"escrow", "pool", "receipts"}
  BY LiveTables DEF GatewayInv, GatewayTypeOK, RecordsInv, Idle, None
<1>1. UNCHANGED <<vars, gone, tainted>>
  BY DEF BeginSave, LockTimeout, SaveEscrow, SavePool, CommitSave, gatewayVars
<1>2. UNCHANGED <<pc, balances, escrow, fee_pool, receipts>>
  BY <1>1 DEF vars, ledgerVars, callVars
<1>3. ASSUME UNCHANGED <<stored, answered>> PROVE MoneyPaid'
  <2>1. LiveGuaranteed' = LiveGuaranteed /\ StoredGuaranteed' = StoredGuaranteed
    BY <1>1, <1>2, <1>3 DEF LiveGuaranteed, StoredGuaranteed
  <2> QED BY <1>1, <1>2, <1>3, <2>1 DEF MoneyInv, MoneyPaid
<1>4. ASSUME NEW r \in Requests, BeginSave(r) PROVE MoneyInv'
  <2>1. /\ draft'.balances = balances /\ draft'.torn = tainted
        /\ UNCHANGED <<stored, answered>>
        /\ saving' = [by |-> r, next |-> "escrow"] /\ Finished(r) /\ r \notin gone
    BY <1>0, <1>4 DEF BeginSave, Waiting, Tables
  <2>2. (answered \cup {r}) \cap Txs \subseteq LiveGuaranteed
    BY <1>0, <2>1, FinishedTx DEF LiveGuaranteed
  <2>3. ASSUME NEW a \in Accounts PROVE PaidFor(a, balances, (answered \cup {r}) \cap Txs)
    <3>1. /\ PaidFor(a, balances, LiveGuaranteed)
          /\ ((answered \cup {r}) \cap Txs) \cap Txs \subseteq LiveGuaranteed
          /\ balances[a] >= balances[a]
      BY <1>0, <2>2 DEF MoneyInv, MoneyPaid
    <3> QED BY <1>0, <3>1, PaidForFewer
  <2> QED BY <1>1, <1>2, <1>3, <2>1, <2>3 DEF MoneyInv, SavePaid
<1>5. ASSUME NEW r \in Requests, LockTimeout(r) PROVE MoneyInv'
  BY <1>1, <1>2, <1>3, <1>5 DEF LockTimeout, MoneyInv, SavePaid
<1>6. CASE SaveEscrow
  <2>1. /\ draft'.escrow = escrow /\ draft'.balances = draft.balances
        /\ draft'.torn = draft.torn /\ UNCHANGED <<stored, answered>>
        /\ saving # Idle /\ saving'.by = saving.by /\ saving'.next = "pool"
    BY <1>0, <1>6 DEF SaveEscrow, Tables
  <2> QED BY <1>1, <1>2, <1>3, <2>1 DEF MoneyInv, SavePaid
<1>7. CASE SavePool
  <2>1. /\ draft'.escrow = draft.escrow /\ draft'.balances = draft.balances
        /\ draft'.torn = draft.torn /\ draft'.pool = fee_pool /\ UNCHANGED <<stored, answered>>
        /\ saving # Idle /\ saving'.by = saving.by /\ saving.next = "pool"
    BY <1>0, <1>7 DEF SavePool, Tables
  <2> QED BY <1>1, <1>2, <1>3, <2>1 DEF MoneyInv, SavePaid
<1>8. CASE CommitSave
  <2>1. /\ saving # Idle /\ saving.next = "receipts" /\ saving.by \in Requests \ gone
        /\ saving' = Idle /\ answered' = answered \cup {saving.by}
        /\ stored'.balances = draft.balances /\ stored'.escrow = draft.escrow
        /\ stored'.torn = draft.torn /\ stored'.receipts = receipts
    BY <1>0, <1>8 DEF CommitSave, Tables
  <2>2. Finished(saving.by)
    BY <2>1 DEF RecordsInv, SaveKept
  <2>3. LiveGuaranteed' = LiveGuaranteed
    BY <1>0, <1>1, <1>2, <2>1, <2>2, FinishedTx DEF LiveGuaranteed
  <2>4. ~draft.torn => /\ ~tainted /\ draft.balances = balances /\ draft.escrow = escrow
    BY <2>1 DEF MoneyInv, SavePaid
  <2>5. ASSUME NEW a \in Accounts PROVE PaidFor(a, draft.balances, StoredGuaranteed')
    <3>1. CASE draft.torn
      <4>1. StoredGuaranteed' = (answered \cup {saving.by}) \cap Txs
        BY <2>1, <3>1 DEF StoredGuaranteed
      <4> QED BY <2>1, <4>1 DEF MoneyInv, SavePaid
    <3>2. CASE ~draft.torn
      <4>1. StoredGuaranteed' = ((answered \cup {saving.by}) \cap Txs) \cup receipts
        BY <2>1, <3>2 DEF StoredGuaranteed
      <4>2. StoredGuaranteed' \cap Txs \subseteq LiveGuaranteed
        BY <1>0, <2>1, <2>2, <2>4, <3>2, <4>1, FinishedTx DEF LiveGuaranteed
      <4>3. PaidFor(a, balances, LiveGuaranteed) /\ balances[a] >= balances[a]
        BY <1>0 DEF MoneyInv, MoneyPaid
      <4> QED BY <1>0, <2>4, <3>2, <4>2, <4>3, PaidForFewer
    <3> QED BY <3>1, <3>2
  <2>6. MoneyPaid'
    BY <1>1, <1>2, <2>1, <2>3, <2>4, <2>5 DEF MoneyInv, MoneyPaid
  <2> QED BY <2>1, <2>6 DEF MoneyInv, SavePaid
<1>9. CASE UNCHANGED <<vars, gatewayVars>>
  BY <1>1, <1>2, <1>3, <1>9 DEF gatewayVars, MoneyInv, SavePaid
<1> QED BY <1>4, <1>5, <1>6, <1>7, <1>8, <1>9

LEMMA RestartKeepsMoney ==
    ASSUME GatewayInv, RecordsInv, MoneyInv, Restart
    PROVE  MoneyInv'
<1>1. /\ balances' = stored.balances /\ escrow' = stored.escrow /\ receipts' = stored.receipts
      /\ UNCHANGED <<pc, stored, answered>>
      /\ saving' = Idle /\ tainted' = stored.torn
      /\ gone' = gone \cup {t \in Txs : pc[t] # "authorize"}
                      \cup {d \in Disputes : d \in DOMAIN disputes \/ opening[d] # None}
  BY DEF Restart
<1>2. LiveGuaranteed' = StoredGuaranteed /\ StoredGuaranteed' = StoredGuaranteed
  BY <1>1 DEF LiveGuaranteed, StoredGuaranteed
<1> QED BY <1>1, <1>2 DEF MoneyInv, MoneyPaid, SavePaid

\* A snapshot's escrow adds up to what it holds for every transaction.
LEMMA EscrowSum ==
    ASSUME NEW held \in FullEscrows
    PROVE  SumFunctionOnSet(held, DOMAIN held) =
               SumFunctionOnSet([t \in Txs |-> IF t \in DOMAIN held THEN held[t] ELSE 0], Txs)
<1>1. PICK S \in SUBSET Txs : held = [t \in S |-> Total(t)]
  BY DEF FullEscrows
<1> DEFINE f == [t \in Txs |-> IF t \in DOMAIN held THEN held[t] ELSE 0]
<1>2. /\ DOMAIN held = S /\ held \in [S -> Int] /\ f \in [Txs -> Int]
      /\ (\A t \in S : held[t] = f[t]) /\ (\A t \in Txs \ S : f[t] = 0)
  BY <1>1, TotalType
<1> HIDE DEF f
<1>3. SumFunctionOnSet(f, Txs) = SumFunctionOnSet(held, S)
  BY <1>2, SumPadded, ParameterTypes
<1> QED BY <1>2, <1>3 DEF f

LEMMA LiveSupply ==
    ASSUME TypeInv
    PROVE  SupplyIn(balances, escrow, fee_pool) <=> ZeroSum
<1>1. SumFunctionOnSet(escrow, DOMAIN escrow) = escrow_total
  BY LiveTables, EscrowSum DEF escrow_total, HeldAmounts, ledger_held
<1>2. /\ SumFunctionOnSet(balances, Accounts) \in Int
      /\ fee_pool \in Int /\ escrow_total \in Int
  BY TotalIsInt DEF TypeInv, TypeOK, LedgerInv
<1> QED BY <1>1, <1>2 DEF SupplyIn, ZeroSum, LedgerTotal

\* Whatever is not a mixture of moments adds up to the supply.
SupplyInv ==
    /\ ~tainted => SupplyIn(balances, escrow, fee_pool)
    /\ ~stored.torn => SupplyIn(stored.balances, stored.escrow, stored.pool)

LEMMA InitSupplyInv == Init /\ GatewayInit => SupplyInv
<1> SUFFICES ASSUME Init, GatewayInit PROVE SupplyInv
  OBVIOUS
<1>1. SupplyIn(balances, escrow, fee_pool)
  BY InitTypeInv, InitialTotal, LiveSupply DEF Init, ZeroSum
<1>2. /\ stored.balances = balances /\ stored.escrow = escrow /\ stored.pool = fee_pool
  BY DEF GatewayInit, Init, LedgerInit
<1> QED BY <1>1, <1>2 DEF SupplyInv

LEMMA StepSupplyInv ==
    ASSUME SplitsInRange, GatewayInv, MoneyInv, SupplyInv,
           [GatewayNext]_<<vars, gatewayVars>>
    PROVE  SupplyInv'
<1>0. /\ TypeInv /\ draft \in Tables /\ stored \in Tables
      /\ Idle.next = None /\ None # "receipts"
      /\ total_supply' = total_supply
  BY DEF GatewayInv, Idle, None, total_supply
<1>1. CASE ServiceStep
  <2>1. [Next]_vars /\ UNCHANGED <<stored, tainted>>
    BY <1>1, ServiceStepIsNext DEF ServiceStep
  <2>2. TypeInv' /\ [LedgerNext]_ledgerVars /\ LedgerInv
    BY <1>0, <2>1, StepTypeInv, ServiceStepIsLedgerStep DEF TypeInv, TypeOK, LedgerInv
  <2>3. LedgerTotal' = LedgerTotal
    BY <2>2, StepMovesTotal, SplitsInRange DEF SplitsInRange
  <2>4. ZeroSum => ZeroSum'
    BY <1>0, <2>3 DEF ZeroSum
  <2>5. SupplyIn(balances, escrow, fee_pool) => SupplyIn(balances, escrow, fee_pool)'
    BY <1>0, <2>2, <2>4, LiveSupply, PTL
  <2> QED BY <2>1, <2>5 DEF SupplyInv, SupplyIn, total_supply
<1>2. CASE CommitSave
  <2>1. /\ saving # Idle /\ saving.next = "receipts"
        /\ stored'.balances = draft.balances /\ stored'.escrow = draft.escrow
        /\ stored'.pool = draft.pool /\ stored'.torn = draft.torn
        /\ UNCHANGED <<balances, escrow, fee_pool, tainted>>
    BY <1>0, <1>2 DEF CommitSave, Tables, vars, ledgerVars
  <2>2. ~draft.torn => /\ ~tainted /\ draft.balances = balances /\ draft.escrow = escrow
                       /\ draft.pool = fee_pool
    BY <2>1 DEF MoneyInv, SavePaid
  <2> QED BY <2>1, <2>2 DEF SupplyInv, SupplyIn, total_supply
<1>3. CASE Restart
  <2>1. /\ balances' = stored.balances /\ escrow' = stored.escrow
        /\ fee_pool' = stored.pool /\ tainted' = stored.torn /\ UNCHANGED stored
    BY <1>3 DEF Restart
  <2> QED BY <2>1 DEF SupplyInv, SupplyIn, total_supply
<1>4. ASSUME \/ \E r \in Requests : BeginSave(r) \/ LockTimeout(r)
             \/ SaveEscrow \/ SavePool
             \/ UNCHANGED <<vars, gatewayVars>>
      PROVE  SupplyInv'
  <2>1. UNCHANGED <<balances, escrow, fee_pool, tainted, stored>>
    BY <1>4 DEF BeginSave, LockTimeout, SaveEscrow, SavePool, vars, ledgerVars, gatewayVars
  <2> QED BY <2>1 DEF SupplyInv, SupplyIn, total_supply
<1> QED BY <1>1, <1>2, <1>3, <1>4 DEF GatewayNext

\* Hosted at a tenant the service runs as behind a gateway that never saves.
CrashInv ==
    /\ GatewayInv /\ RecordsInv /\ MoneyInv
    /\ hosting = "tenant" => gone = {} /\ saving = Idle

LEMMA HostingStepIsGatewayStep ==
    ASSUME CrashInv, [HostingNext]_hostingVars
    PROVE  [GatewayNext]_<<vars, gatewayVars>>
<1>1. CASE hosting = "tenant" /\ SubscribersNext /\ UNCHANGED <<gatewayVars, hosting>>
  <2>1. gone = {} /\ saving = Idle /\ UNCHANGED gatewayVars /\ draft \in Tables
    BY <1>1 DEF CrashInv, GatewayInv
  <2>2. CASE Serve
    <3>1. \E t \in Txs \ gone :
             ClearStep(t) \/ \E d \in Disputes \ gone : DisputeCall(d, t)
      BY <2>1, <2>2 DEF Serve, Next
    <3>2. draft' = [draft EXCEPT !.torn = @ \/ (saving # Idle /\ moneyVars' # moneyVars)]
      BY <2>1, TornTable DEF gatewayVars
    <3> QED BY <2>1, <3>1, <3>2 DEF gatewayVars, GatewayNext, ServiceStep
  <2>3. CASE ~Serve
    BY <1>1, <2>1, <2>3 DEF SubscribersNext, ReadUsage, WriteUsage, FindRecord, CreateRecord,
       Count
  <2> QED BY <2>2, <2>3
<1> QED BY <1>1 DEF HostingNext, hostingVars

LEMMA InitCrashInv == HostingInit => CrashInv
BY InitGatewayInv, InitRecordsInv, InitMoneyInv DEF HostingInit, GatewayInit, CrashInv

LEMMA StepCrashInv == CrashInv /\ [HostingNext]_hostingVars => CrashInv'
<1> SUFFICES ASSUME CrashInv, [HostingNext]_hostingVars PROVE CrashInv'
  OBVIOUS
<1>0. [GatewayNext]_<<vars, gatewayVars>>
  BY HostingStepIsGatewayStep
<1>1. GatewayInv'
  BY <1>0, GatewayStepInv DEF CrashInv
<1>2. RecordsInv' /\ MoneyInv'
  <2>1. CASE ServiceStep
    <3>1. PICK t \in Txs \ gone : StepOf(t)
      BY <2>1 DEF ServiceStep, StepOf
    <3> QED BY <2>1, <3>1, ServiceKeepsRecords, ServiceKeepsMoney DEF CrashInv
  <2>2. CASE Restart
    BY <2>2, RestartKeepsRecords, RestartKeepsMoney DEF CrashInv
  <2>3. CASE \/ \E r \in Requests : BeginSave(r) \/ LockTimeout(r)
             \/ SaveEscrow \/ SavePool \/ CommitSave
             \/ UNCHANGED <<vars, gatewayVars>>
    BY <2>3, SaveKeepsRecords, SaveKeepsMoney DEF CrashInv
  <2> QED BY <1>0, <2>1, <2>2, <2>3 DEF GatewayNext
<1>3. hosting' = "tenant" => gone' = {} /\ saving' = Idle
  BY DEF CrashInv, HostingNext, hostingVars, gatewayVars
<1> QED BY <1>1, <1>2, <1>3 DEF CrashInv

LEMMA AlwaysCrashInv == HostingSpec => []CrashInv
BY InitCrashInv, StepCrashInv, PTL DEF HostingSpec

\* What a client was answered survives every crash, whatever the other threads
\* were doing when the tables were read or the process died: the receipt, the
\* payment of the provider, and that the funds have left escrow.
THEOREM AnswersSurvive == HostingSpec => []AnsweredIsDurable
<1>1. CrashInv => AnsweredIsDurable
  <2> SUFFICES ASSUME CrashInv PROVE AnsweredIsDurable
    OBVIOUS
  <2>1. ASSUME NEW a \in Accounts
        PROVE  /\ PaidFor(a, stored.balances, answered \cap Txs)
               /\ PaidFor(a, balances, answered \cap Txs)
    <3>1. /\ PaidFor(a, balances, LiveGuaranteed)
          /\ PaidFor(a, stored.balances, StoredGuaranteed)
      BY DEF CrashInv, MoneyInv, MoneyPaid
    <3>2. /\ balances \in [Accounts -> Nat] /\ stored.balances \in [Accounts -> Nat]
      BY LiveTables DEF CrashInv, GatewayInv, Tables
    <3>3. /\ (answered \cap Txs) \cap Txs \subseteq LiveGuaranteed
          /\ (answered \cap Txs) \cap Txs \subseteq StoredGuaranteed
          /\ balances[a] >= balances[a] /\ stored.balances[a] >= stored.balances[a]
      BY <3>2 DEF LiveGuaranteed, StoredGuaranteed
    <3> QED BY <3>1, <3>2, <3>3, PaidForFewer
  <2> QED BY <2>1 DEF CrashInv, RecordsInv, AnsweredKept, AnsweredIsDurable
<1> QED BY <1>1, AlwaysCrashInv, PTL

\* A snapshot during which no money moved adds up to the supply, and every receipt in
\* it is paid and out of escrow; and what is loaded from it adds up as well. As for
\* ZeroSum, no split may be asked for above its price.
THEOREM SnapshotsAddUp ==
    ASSUME SplitsInRange
    PROVE  HostingSpec => []SnapshotIsConsistent
<1>1. HostingInit => SupplyInv
  BY InitSupplyInv DEF HostingInit
<1>2. CrashInv /\ SupplyInv /\ [HostingNext]_hostingVars => SupplyInv'
  BY HostingStepIsGatewayStep, StepSupplyInv DEF CrashInv
<1>3. HostingSpec => []SupplyInv
  BY <1>1, <1>2, AlwaysCrashInv, PTL DEF HostingSpec
<1>4. CrashInv /\ SupplyInv => SnapshotIsConsistent
  <2> SUFFICES ASSUME CrashInv, SupplyInv PROVE SnapshotIsConsistent
    OBVIOUS
  <2>1. ASSUME NEW a \in Accounts, ~stored.torn
        PROVE  PaidFor(a, stored.balances, stored.receipts)
    <3>1. PaidFor(a, stored.balances, StoredGuaranteed)
      BY DEF CrashInv, MoneyInv, MoneyPaid
    <3>2. stored.balances \in [Accounts -> Nat] /\ stored.balances[a] >= stored.balances[a]
      BY DEF CrashInv, GatewayInv, Tables
    <3>3. stored.receipts \cap Txs \subseteq StoredGuaranteed
      BY <2>1 DEF StoredGuaranteed
    <3> QED BY <3>1, <3>2, <3>3, PaidForFewer
  <2> QED BY <2>1 DEF CrashInv, MoneyInv, MoneyPaid, SupplyInv, SnapshotIsConsistent
<1> QED BY <1>3, <1>4, AlwaysCrashInv, PTL
-----------------------------------------------------------------------------
(* What an agent has earned *)

\* What an agent has earned so far: the price of every call that was paid without a
\* dispute, and what a resolved dispute gave it.
CallIncome(a) ==
    [t \in Txs |-> IF Receiver[t] = a /\ pc[t] \in {"receipt", "returned"}
                   THEN Amount[t] ELSE 0]
DisputeGain(a, d) ==
    IF d \notin Decided(a, {"settle", "split"}) THEN 0
    ELSE IF disputes[d].resolution = "split" THEN shares[d] ELSE Amount[Subject(d)]
DisputeIncome(a) == [d \in Disputes |-> DisputeGain(a, d)]

Sellers == Accounts \ {Sender[t] : t \in Txs}

IncomeInv ==
    /\ \A t \in Txs : pc[t] = "returned" => t \in receipts
    /\ \A a \in Sellers :
          balances[a] = Opening[a] + SumFunctionOnSet(CallIncome(a), Txs)
                                   + SumFunctionOnSet(DisputeIncome(a), Disputes)

LEMMA DecidedParts ==
    ASSUME TypeInv, NEW a, NEW R, NEW d \in Decided(a, R)
    PROVE  /\ d \in DOMAIN disputes /\ d \in Disputes /\ Subject(d) \in Txs
           /\ Receiver[Subject(d)] = a /\ disputes[d].resolution \in R
           /\ Amount[Subject(d)] \in Nat
BY TotalType DEF Decided, Against, Subject, TypeInv, TypeOK, DisputesTypeOK

LEMMA IncomeTypes ==
    ASSUME TypeInv, shares \in [Disputes -> Int], NEW a
    PROVE  /\ CallIncome(a) \in [Txs -> Int] /\ DisputeIncome(a) \in [Disputes -> Int]
           /\ SumFunctionOnSet(CallIncome(a), Txs) \in Int
           /\ SumFunctionOnSet(DisputeIncome(a), Disputes) \in Int
<1>1. CallIncome(a) \in [Txs -> Int]
  BY TotalType DEF CallIncome
<1>2. DisputeIncome(a) \in [Disputes -> Int]
  BY DecidedParts DEF DisputeIncome, DisputeGain
<1> QED BY <1>1, <1>2, SumType, ParameterTypes, FiniteDisputes

LEMMA InitIncomeInv == Init => IncomeInv
<1> SUFFICES ASSUME Init PROVE IncomeInv
  OBVIOUS
<1>1. /\ \A t \in Txs : pc[t] = "authorize"
      /\ DOMAIN disputes = {} /\ balances = Opening
  BY DEF Init, LedgerInit, DisputesInit
<1>2. ASSUME NEW a \in Sellers
      PROVE  /\ CallIncome(a) = [t \in Txs |-> 0]
             /\ DisputeIncome(a) = [d \in Disputes |-> 0]
  BY <1>1 DEF CallIncome, DisputeIncome, DisputeGain, Decided, Against
<1>3. ASSUME NEW a \in Sellers
      PROVE  /\ SumFunctionOnSet(CallIncome(a), Txs) = 0
             /\ SumFunctionOnSet(DisputeIncome(a), Disputes) = 0 /\ Opening[a] \in Int
  BY <1>2, SumZero, ParameterTypes, FiniteDisputes DEF Sellers
<1> QED BY <1>1, <1>3 DEF IncomeInv

\* What a step of clear() adds to the income is what it pays.
LEMMA ClearPaysIncome ==
    ASSUME TypeInv, NEW t \in Txs, ClearStep(t), NEW a \in Sellers
    PROVE  /\ \A u \in Txs \ {t} : CallIncome(a)'[u] = CallIncome(a)[u]
           /\ CallIncome(a)'[t] - CallIncome(a)[t] = balances'[a] - balances[a]
<1>0. /\ a \in Accounts /\ Sender[t] # a /\ Amount[t] \in Nat
      /\ balances \in [Accounts -> Nat] /\ pc \in [Txs -> Position]
  BY TotalType DEF Sellers, TypeInv, TypeOK, LedgerTypeOK
<1>1. \A u \in Txs \ {t} : pc'[u] = pc[u]
  BY StepIsLocal DEF StepOf
<1>2. \A u \in Txs \ {t} : CallIncome(a)'[u] = CallIncome(a)[u]
  BY <1>1 DEF CallIncome
<1>3. CASE ReleaseFunds(t)
  <2>1. /\ pc[t] \notin {"receipt", "returned"} /\ pc'[t] = "receipt"
        /\ balances' = [balances EXCEPT ![Receiver[t]] = balances[Receiver[t]] + Amount[t]]
    BY <1>0, <1>3 DEF ReleaseFunds, release, Credit, At, Goto
  <2>2. CallIncome(a)[t] = 0 /\ CallIncome(a)'[t] = IF Receiver[t] = a THEN Amount[t] ELSE 0
    BY <2>1 DEF CallIncome
  <2> QED BY <1>0, <1>2, <2>1, <2>2
<1>4. CASE ~ReleaseFunds(t)
  <2>1. pc'[t] \in {"receipt", "returned"} <=> pc[t] \in {"receipt", "returned"}
    BY <1>4, StepMovesOn DEF StepOf
  <2>2. CallIncome(a)'[t] = CallIncome(a)[t] /\ CallIncome(a)[t] \in Int
    BY <1>0, <2>1 DEF CallIncome
  <2>3. balances'[a] = balances[a]
    <3>1. CASE HoldFunds(t)
      BY <1>0, <3>1 DEF HoldFunds, hold, Credit
    <3>2. CASE RefundFunds(t)
      BY <1>0, <3>2 DEF RefundFunds, refund_escrow, Credit
    <3>3. CASE \/ Submit(t) \/ Reject(t) \/ InsufficientCredit(t) \/ EmitHeld(t)
               \/ CheckTransition(t) \/ WriteTransition(t) \/ Run(t) \/ VerifyProof(t)
               \/ NoFundsHeld(t) \/ IssueReceipt(t)
      BY <3>3 DEF Submit, Reject, InsufficientCredit, EmitHeld, CheckTransition,
         WriteTransition, WriteState, Run, VerifyProof, NoFundsHeld, IssueReceipt,
         ledgerVars, moneyVars
    <3> QED BY <1>4, <3>1, <3>2, <3>3 DEF ClearStep
  <2> QED BY <1>0, <1>2, <2>2, <2>3
<1> QED BY <1>3, <1>4

\* A dispute's number is stored when it is resolved, and of a split it is the share.
SharesFollow ==
    \A d \in Disputes :
        LET provider == Receiver[disputes'[d].transaction_id]
        IN  IF IsResolved(d)' /\ ~IsResolved(d)
            THEN disputes'[d].resolution = "split" =>
                     shares'[d] = balances'[provider] - balances[provider]
            ELSE shares'[d] = shares[d]

LEMMA ServeShares ==
    ASSUME TypeInv, Serve
    PROVE  SharesFollow
<1>1. \A d \in Disputes : (Closed(d) \in Emitted <=> IsResolved(d))
                          /\ (Closed(d) \in Emitted' <=> IsResolved(d)')
  BY DEF Emitted, Receipt, Opened, Closed
<1>2. PICK asked \in ProviderAmounts \cup {0} :
          shares' = [d \in Disputes |->
                        IF Closed(d) \in Emitted' \ Emitted THEN StoredShare(d, asked)
                                                            ELSE shares[d]]
  BY DEF Serve
<1> QED BY <1>1, <1>2 DEF SharesFollow, StoredShare

\* A dispute's step leaves the other disputes' part of the income alone, and adds to
\* its own what it pays.
LEMMA DisputePaysIncome ==
    ASSUME TypeInv, DecisionInv, shares \in [Disputes -> Int], SharesFollow,
           NEW t \in Txs, NEW d \in Disputes, DisputeCall(d, t), NEW a \in Sellers
    PROVE  /\ \A e \in Disputes \ {d} : DisputeGain(a, e)' = DisputeGain(a, e)
           /\ DisputeGain(a, d)' - DisputeGain(a, d) = balances'[a] - balances[a]
<1>0. /\ a \in Accounts /\ Sender[t] # a /\ Receiver[t] \in Accounts /\ Amount[t] \in Nat
      /\ Receiver[t] # Sender[t] /\ Fee[t] \in Nat
      /\ balances \in [Accounts -> Nat] /\ DisputesTypeOK /\ DisputeInv
      /\ HeldInFull
  BY TotalType, ParameterTypes, PartiesDiffer
     DEF Sellers, TypeInv, TypeOK, LedgerTypeOK, DecisionInv, EscrowUntilPaid
<1>1. DisputeStep(d, t) /\ Changes(d)
  BY <1>0, DisputeCallIsStep, DisputeStepChanges
<1>2. ASSUME NEW e \in Disputes \ {d} PROVE DisputeGain(a, e)' = DisputeGain(a, e)
  <2>1. CASE e \in DOMAIN disputes
    <3>1. e \in DOMAIN disputes' /\ disputes'[e] = disputes[e]
      BY <1>1, <2>1 DEF Changes
    <3>2. shares'[e] = shares[e]
      BY <2>1, <3>1 DEF SharesFollow, IsResolved
    <3> QED BY <2>1, <3>1, <3>2 DEF DisputeGain, Decided, Against, Subject
  <2>2. CASE e \notin DOMAIN disputes
    <3>1. e \notin DOMAIN disputes'
      BY <1>1, <2>2 DEF Changes
    <3> QED BY <2>2, <3>1 DEF DisputeGain, Decided, Against
  <2> QED BY <2>1, <2>2
\* Where nothing is paid and nothing resolved in the provider's favour.
<1>3. ASSUME balances'[a] = balances[a],
             d \in DOMAIN disputes => disputes[d].resolution = None \/ UNCHANGED disputes,
             d \in DOMAIN disputes' =>
                 disputes'[d].resolution \notin {"settle", "split"} \/ UNCHANGED disputes
      PROVE  DisputeGain(a, d)' - DisputeGain(a, d) = balances'[a] - balances[a]
  <2>1. CASE UNCHANGED disputes
    <3>1. shares'[d] = shares[d]
      BY <2>1 DEF SharesFollow, IsResolved
    <3>2. DisputeGain(a, d)' = DisputeGain(a, d)
      BY <2>1, <3>1 DEF DisputeGain, Decided, Against, Subject
    <3>3. DisputeGain(a, d) \in Int
      BY DecidedParts DEF DisputeGain
    <3> QED BY <1>0, <1>3, <3>2, <3>3
  <2>2. CASE ~UNCHANGED disputes
    <3>1. DisputeGain(a, d)' = 0 /\ DisputeGain(a, d) = 0
      BY <1>3, <2>2 DEF DisputeGain, Decided, Against, None
    <3> QED BY <1>0, <1>3, <3>1
  <2> QED BY <2>1, <2>2
\* Where the dispute is resolved for the provider, who gets n.
<1>4. ASSUME NEW r \in {"settle", "split"}, Unresolved(d, t), Resolve(d, r),
             balances'[Receiver[t]] \in Int,
             a # Receiver[t] => balances'[a] = balances[a],
             r = "settle" => balances'[Receiver[t]] = balances[Receiver[t]] + Amount[t]
      PROVE  DisputeGain(a, d)' - DisputeGain(a, d) = balances'[a] - balances[a]
  <2>1. /\ d \in DOMAIN disputes /\ d \in DOMAIN disputes'
        /\ disputes[d].transaction_id = t /\ disputes[d].resolution = None
        /\ disputes'[d].transaction_id = t /\ disputes'[d].resolution = r
    BY <1>0, <1>4, ResolveType DEF Unresolved, Resolution
  <2>2. DisputeGain(a, d) = 0
    BY <2>1 DEF DisputeGain, Decided, Against, None
  <2>3. r = "split" => shares'[d] = balances'[Receiver[t]] - balances[Receiver[t]]
    BY <2>1 DEF SharesFollow, IsResolved, None
  <2>4. CASE a = Receiver[t]
    <3>1. DisputeGain(a, d)' = IF r = "split" THEN shares'[d] ELSE Amount[t]
      BY <2>1, <2>4 DEF DisputeGain, Decided, Against, Subject
    <3> QED BY <1>0, <1>4, <2>2, <2>3, <2>4, <3>1
  <2>5. CASE a # Receiver[t]
    <3>1. DisputeGain(a, d)' = 0
      BY <2>1, <2>5 DEF DisputeGain, Decided, Against
    <3> QED BY <1>0, <1>4, <2>2, <2>5, <3>1
  <2> QED BY <2>4, <2>5
<1>5. DisputeGain(a, d)' - DisputeGain(a, d) = balances'[a] - balances[a]
  <2>1. CASE CheckDispute(d, t) \/ WriteDispute(d, t)
    <3>1. UNCHANGED <<balances, disputes>>
      BY <2>1 DEF CheckDispute, WriteDispute, WriteState, ledgerVars, moneyVars
    <3> QED BY <1>3, <3>1
  <2>2. CASE RecordDispute(d, t)
    <3>1. d \notin DOMAIN disputes /\ UNCHANGED balances
      BY <1>0, <2>2, NoneIsNoTx
         DEF RecordDispute, DisputeInv, OpeningIsNew, ledgerVars
    <3>2. d \in DOMAIN disputes' => disputes'[d].resolution = None
      BY <1>1, <3>1 DEF Changes
    <3> QED BY <1>3, <3>1, <3>2 DEF None
  <2>3. CASE WriteOutcome(d, t)
    <3>1. d \in DOMAIN disputes /\ resolving[d] \in DOMAIN Outcome /\ Resolve(d, resolving[d])
      BY <1>0, <2>3 DEF WriteOutcome, DisputesTypeOK
    <3>2. disputes[d].resolution = None
      BY <1>0, <2>3, <3>1 DEF WriteOutcome, DisputeInv, WrittenOnce
    <3>3. disputes'[d].resolution = resolving[d]
      BY <1>0, <3>1, ResolveType DEF Outcome, Resolution
    <3>4. UNCHANGED balances
      BY <2>3 DEF WriteOutcome, WriteState, moneyVars
    <3> QED BY <1>3, <3>1, <3>2, <3>3, <3>4 DEF Outcome
  <2>4. CASE ResolveRefund(d, t)
    <3>1. UNCHANGED disputes /\ balances'[a] = balances[a]
      BY <1>0, <2>4 DEF ResolveRefund, refund_escrow, Credit
    <3> QED BY <1>3, <3>1
  <2>5. CASE ResolveSlash(d, t)
    <3>1. UNCHANGED disputes /\ balances'[a] = balances[a]
      BY <2>5 DEF ResolveSlash, slash_escrow
    <3> QED BY <1>3, <3>1
  <2>6. ASSUME NEW p \in ProviderAmounts, ResolveSplit(d, t, p)
        PROVE  DisputeGain(a, d)' - DisputeGain(a, d) = balances'[a] - balances[a]
    <3>1. CASE InRange(t, p)
      <4>1. p \in Nat /\ Unresolved(d, t) /\ Resolve(d, "split")
        BY <1>0, <2>6, <3>1 DEF ResolveSplit, InRange
      <4>2. balances' = [balances EXCEPT ![Receiver[t]] = @ + p,
                                         ![Sender[t]] = @ + (escrow[t] - p - Fee[t])]
        BY <2>6, <3>1 DEF ResolveSplit, split_escrow
      <4>3. /\ balances'[Receiver[t]] = balances[Receiver[t]] + p
            /\ a # Receiver[t] => balances'[a] = balances[a]
        BY <1>0, <4>2
      <4>4. balances'[Receiver[t]] \in Int
        BY <1>0, <4>1, <4>3
      <4> QED BY <1>4, <4>1, <4>3, <4>4
    <3>2. CASE ~InRange(t, p)
      <4>1. UNCHANGED <<disputes, balances>>
        BY <2>6, <3>2 DEF ResolveSplit, split_escrow
      <4> QED BY <1>3, <4>1
    <3> QED BY <3>1, <3>2
  <2>7. CASE ResolveSettle(d, t)
    <3>1. Unresolved(d, t) /\ Resolve(d, "settle")
      BY <2>7 DEF ResolveSettle
    <3>2. balances' = [balances EXCEPT ![Receiver[t]] = balances[Receiver[t]] + Amount[t]]
      BY <2>7 DEF ResolveSettle, release, Credit
    <3>3. /\ balances'[Receiver[t]] = balances[Receiver[t]] + Amount[t]
          /\ balances'[Receiver[t]] \in Int
          /\ a # Receiver[t] => balances'[a] = balances[a]
      BY <1>0, <3>2
    <3> QED BY <1>4, <3>1, <3>3
  <2> QED BY <1>1, <2>1, <2>2, <2>3, <2>4, <2>5, <2>6, <2>7
          DEF DisputeStep, OpeningStep, ResolveDispute
<1> QED BY <1>2, <1>5

\* A balance that moves as a sum does stays ahead of it by the same amount.
LEMMA MovesAlike ==
    ASSUME NEW b \in Int, NEW n \in Int, NEW o \in Int, NEW s \in Int, NEW r \in Int,
           NEW x \in Int, NEW y \in Int, b = o + s + r, y - x = n - b
    PROVE  n = o + (s - x + y) + r
OBVIOUS

LEMMA ServeIncomeInv ==
    ASSUME TypeInv, DecisionInv, shares \in [Disputes -> Int], IncomeInv, Serve
    PROVE  IncomeInv'
<1>0. TypeInv' /\ SharesFollow /\ Next
  BY StepTypeInv, ServeShares DEF Serve
<1>1. ASSUME NEW t \in Txs, ClearStep(t) PROVE IncomeInv'
  <2>1. UNCHANGED disputes
    BY <1>1, ClearKeepsDisputes
  <2>2. \A e \in Disputes : shares'[e] = shares[e]
    BY <1>0, <2>1 DEF SharesFollow, IsResolved
  <2>3. \A a : DisputeIncome(a)' = DisputeIncome(a)
    BY <2>1, <2>2 DEF DisputeIncome, DisputeGain, Decided, Against, Subject
  <2>4. ASSUME NEW u \in Txs, pc'[u] = "returned" PROVE u \in receipts'
    <3>1. CASE u = t
      <4>1. receipts \subseteq receipts'
        BY <1>1, StepMovesOn DEF StepOf
      <4> QED BY <1>1, <2>4, <3>1, <4>1, StepMovesOn DEF StepOf, IncomeInv
    <3>2. CASE u # t
      BY <1>1, <2>4, <3>2, StepIsLocal DEF StepOf, IncomeInv
    <3> QED BY <3>1, <3>2
  <2>5. ASSUME NEW a \in Sellers
        PROVE  balances'[a] = Opening[a] + SumFunctionOnSet(CallIncome(a)', Txs)
                                         + SumFunctionOnSet(DisputeIncome(a)', Disputes)
    <3> DEFINE f == CallIncome(a)
               e == CallIncome(a)'
               D == SumFunctionOnSet(DisputeIncome(a), Disputes)
    <3>1. f \in [Txs -> Int] /\ SumFunctionOnSet(f, Txs) \in Int /\ D \in Int
      BY IncomeTypes
    <3>2. e \in [Txs -> Int]
      BY TotalType DEF CallIncome
    <3>3. /\ \A u \in Txs \ {t} : e[u] = f[u]
          /\ e[t] - f[t] = balances'[a] - balances[a]
      BY <1>1, ClearPaysIncome
    <3>4. SumFunctionOnSet(e, Txs) = SumFunctionOnSet(f, Txs) - f[t] + e[t]
      <4> HIDE DEF f, e
      <4> QED BY <3>1, <3>2, <3>3, SumUpdate, ParameterTypes
    <3>5. balances[a] = Opening[a] + SumFunctionOnSet(f, Txs) + D
      BY DEF IncomeInv
    <3>6. balances[a] \in Int /\ balances'[a] \in Int /\ Opening[a] \in Int
      BY <1>0, ParameterTypes DEF TypeInv, TypeOK, LedgerTypeOK, Sellers
    <3>7. f[t] \in Int /\ e[t] \in Int
      BY <3>1, <3>2
    <3>8. SumFunctionOnSet(DisputeIncome(a)', Disputes) = D
      BY <2>3
    <3> HIDE DEF f, e, D
    <3>9. balances'[a] = Opening[a] + SumFunctionOnSet(e, Txs) + D
      <4>1. e[t] - f[t] = balances'[a] - balances[a] /\ SumFunctionOnSet(f, Txs) \in Int
        BY <3>1, <3>3
      <4>2. D \in Int
        BY <3>1
      <4>3. balances'[a] = Opening[a] + (SumFunctionOnSet(f, Txs) - f[t] + e[t]) + D
        BY <3>5, <3>6, <3>7, <4>1, <4>2, MovesAlike
      <4> QED BY <3>4, <4>3
    <3> QED BY <3>8, <3>9 DEF e
  <2> QED BY <2>4, <2>5 DEF IncomeInv
<1>2. ASSUME NEW t \in Txs, NEW d \in Disputes, DisputeCall(d, t) PROVE IncomeInv'
  <2>1. UNCHANGED <<pc, receipts>>
    BY <1>2, DisputeCallIsStep DEF callVars
  <2>2. \A a : CallIncome(a)' = CallIncome(a)
    BY <2>1 DEF CallIncome
  <2>3. ASSUME NEW a \in Sellers
        PROVE  balances'[a] = Opening[a] + SumFunctionOnSet(CallIncome(a)', Txs)
                                         + SumFunctionOnSet(DisputeIncome(a)', Disputes)
    <3> DEFINE f == DisputeIncome(a)
               e == DisputeIncome(a)'
               C == SumFunctionOnSet(CallIncome(a), Txs)
    <3>1. f \in [Disputes -> Int] /\ SumFunctionOnSet(f, Disputes) \in Int /\ C \in Int
      BY IncomeTypes
    <3>2. /\ \A u \in Disputes \ {d} : e[u] = f[u]
          /\ e[d] - f[d] = balances'[a] - balances[a]
      BY <1>0, <1>2, DisputePaysIncome DEF DisputeIncome
    <3>3. balances[a] \in Int /\ balances'[a] \in Int /\ Opening[a] \in Int
      BY <1>0, ParameterTypes DEF TypeInv, TypeOK, LedgerTypeOK, Sellers
    <3>4. e \in [Disputes -> Int]
      <4>1. DisputeGain(a, d)' \in Int
        <5>1. \A u \in Disputes : shares'[u] \in Int
          BY <1>0, ServeSharesType
        <5>2. ASSUME d \in DOMAIN disputes' PROVE Amount[disputes'[d].transaction_id] \in Int
          BY <1>0, <5>2, TotalType DEF TypeInv, TypeOK, DisputesTypeOK
        <5> QED BY <5>1, <5>2 DEF DisputeGain, Decided, Against, Subject
      <4>2. \A u \in Disputes : e[u] = DisputeGain(a, u)' /\ f[u] \in Int
        BY <3>1 DEF DisputeIncome
      <4>3. \A u \in Disputes : e[u] \in Int
        BY <3>2, <4>1, <4>2
      <4> QED BY <4>3 DEF DisputeIncome
    <3>5. SumFunctionOnSet(e, Disputes) = SumFunctionOnSet(f, Disputes) - f[d] + e[d]
      <4> HIDE DEF f, e
      <4> QED BY <3>1, <3>2, <3>4, SumUpdate, FiniteDisputes
    <3>6. balances[a] = Opening[a] + C + SumFunctionOnSet(f, Disputes)
      BY DEF IncomeInv
    <3>7. f[d] \in Int /\ e[d] \in Int
      BY <3>1, <3>4
    <3>8. SumFunctionOnSet(CallIncome(a)', Txs) = C
      BY <2>2
    <3> HIDE DEF f, e, C
    <3>9. balances'[a] = Opening[a] + C + SumFunctionOnSet(e, Disputes)
      <4>1. e[d] - f[d] = balances'[a] - balances[a] /\ SumFunctionOnSet(f, Disputes) \in Int
        BY <3>1, <3>2
      <4>2. balances[a] = Opening[a] + SumFunctionOnSet(f, Disputes) + C
        BY <3>1, <3>3, <3>6
      <4>3. balances'[a] = Opening[a] + SumFunctionOnSet(e, Disputes) + C
        BY <3>1, <3>3, <3>5, <3>7, <4>1, <4>2, MovesAlike
      <4>4. SumFunctionOnSet(e, Disputes) \in Int
        BY <3>1, <3>5, <3>7
      <4> QED BY <3>1, <3>3, <4>3, <4>4
    <3> QED BY <3>8, <3>9 DEF e
  <2> QED BY <2>1, <2>3 DEF IncomeInv
<1> QED BY <1>0, <1>1, <1>2 DEF Next
-----------------------------------------------------------------------------
(* What its volume says *)

\* What is counted of it so far: receipts, resolved disputes, and what their numbers
\* misreport.
MisreportOf(a, d) == IF d \in Against(a) THEN Misreport(d) ELSE 0
CountedCalls(a) ==
    [t \in Txs |-> IF Receiver[t] = a /\ handler[Receipt(t)] = "done" THEN Amount[t] ELSE 0]
CountedGain(a) ==
    [d \in Disputes |-> IF handler[Closed(d)] = "done" THEN DisputeGain(a, d) ELSE 0]
CountedMisreports(a) ==
    [d \in Disputes |-> IF handler[Closed(d)] = "done" THEN MisreportOf(a, d) ELSE 0]
CountedVolume(a) ==
    SumFunctionOnSet(CountedCalls(a), Txs) + SumFunctionOnSet(CountedGain(a), Disputes)
                                           + SumFunctionOnSet(CountedMisreports(a), Disputes)

NoVolumeYet == \A r \in Events : counted[r].settled = 0 => counted[r].volume = 0
VolumeExact == ~clashed => \A a \in Accounts : Known(a).volume = CountedVolume(a)

LEMMA AmountTypes ==
    ASSUME TypeInv, shares \in [Disputes -> Int], NEW a, NEW d
    PROVE  /\ MisreportOf(a, d) \in Int
           /\ d \in Disputes => DisputeGain(a, d) \in Int
<1>1. d \in Disputes => DisputeGain(a, d) \in Int
  BY DecidedParts DEF DisputeGain
<1>2. ASSUME d \in Against(a) PROVE Misreport(d) \in Int
  <2>1. d \in Disputes /\ disputes[d].transaction_id \in Txs
    BY <1>2 DEF Against, TypeInv, TypeOK, DisputesTypeOK
  <2>2. Amount[disputes[d].transaction_id] \in Int /\ shares[d] \in Int
    BY <2>1, TotalType
  <2> QED BY <2>2 DEF Misreport
<1> QED BY <1>1, <1>2 DEF MisreportOf

LEMMA CountedTypes ==
    ASSUME TypeInv, shares \in [Disputes -> Int], NEW a
    PROVE  /\ CountedCalls(a) \in [Txs -> Int]
           /\ CountedGain(a) \in [Disputes -> Int] /\ CountedMisreports(a) \in [Disputes -> Int]
           /\ SumFunctionOnSet(CountedCalls(a), Txs) \in Int
           /\ SumFunctionOnSet(CountedGain(a), Disputes) \in Int
           /\ SumFunctionOnSet(CountedMisreports(a), Disputes) \in Int
<1>1. CountedCalls(a) \in [Txs -> Int]
  BY TotalType DEF CountedCalls
<1>2. CountedGain(a) \in [Disputes -> Int] /\ CountedMisreports(a) \in [Disputes -> Int]
  BY AmountTypes DEF CountedGain, CountedMisreports
<1> QED BY <1>1, <1>2, SumType, ParameterTypes, FiniteDisputes

LEMMA InitVolume == Init /\ SubscribersInit => NoVolumeYet /\ VolumeExact
<1> SUFFICES ASSUME Init, SubscribersInit PROVE NoVolumeYet /\ VolumeExact
  OBVIOUS
<1>1. /\ \A e \in Events : handler[e] = "silent" /\ counted[e] = Counters
      /\ \A a \in Accounts : Known(a) = Counters
  BY DEF SubscribersInit, Known
<1>2. ASSUME NEW a \in Accounts
      PROVE  /\ CountedCalls(a) = [t \in Txs |-> 0]
             /\ CountedGain(a) = [d \in Disputes |-> 0]
             /\ CountedMisreports(a) = [d \in Disputes |-> 0]
  BY <1>1, EventNames DEF CountedCalls, CountedGain, CountedMisreports
<1>3. ASSUME NEW a \in Accounts PROVE CountedVolume(a) = 0
  BY <1>2, SumZero, ParameterTypes, FiniteDisputes DEF CountedVolume
<1> QED BY <1>1, <1>3 DEF NoVolumeYet, VolumeExact, Counters

\* As long as no event is newly counted, what is counted is the same.
LEMMA SameVolume ==
    ASSUME TypeInv, EventsStay, HandlersFollow, NEW a,
           \A e \in Events : handler'[e] = "done" <=> handler[e] = "done",
           \A d \in Disputes : IsResolved(d) => shares'[d] = shares[d]
    PROVE  CountedVolume(a)' = CountedVolume(a)
<1>1. CountedCalls(a)' = CountedCalls(a)
  BY EventNames DEF CountedCalls
<1>2. ASSUME NEW d \in Disputes, handler[Closed(d)] = "done"
      PROVE  DisputeGain(a, d)' = DisputeGain(a, d) /\ MisreportOf(a, d)' = MisreportOf(a, d)
  <2>1. Closed(d) \in Emitted
    BY <1>2, EventNames DEF HandlersFollow
  <2>2. IsResolved(d)
    BY <2>1, EmittedHappened, EventNames DEF Happened
  <2>3. /\ d \in DOMAIN disputes /\ d \in DOMAIN disputes' /\ shares'[d] = shares[d]
        /\ disputes'[d].resolution = disputes[d].resolution
    BY <2>2 DEF EventsStay, IsResolved
  <2>4. disputes'[d].transaction_id = disputes[d].transaction_id
    BY <2>1, EventNames DEF EventsStay, TxOfEvent
  <2> QED BY <2>3, <2>4 DEF DisputeGain, MisreportOf, Misreport, Decided, Against, Subject
<1>3. CountedGain(a)' = CountedGain(a) /\ CountedMisreports(a)' = CountedMisreports(a)
  BY <1>2, EventNames DEF CountedGain, CountedMisreports
<1> QED BY <1>1, <1>3 DEF CountedVolume

LEMMA ServeVolume ==
    ASSUME TypeInv, DecisionInv, SubscriberInv, NoVolumeYet, VolumeExact, Serve
    PROVE  NoVolumeYet' /\ VolumeExact'
<1>1. /\ EventsStay /\ EmitNew /\ SharesFollow
      /\ UNCHANGED <<record, counted>>
  BY StepEmitsOne, ServeShares DEF Serve
<1>2. \A e \in Events : handler'[e] = "done" <=> handler[e] = "done"
  BY <1>1, EmitNewStarts DEF SubscriberInv, HandlersFollow
<1>3. \A d \in Disputes : IsResolved(d) => shares'[d] = shares[d]
  BY <1>1 DEF SharesFollow
<1>4. \A a : CountedVolume(a)' = CountedVolume(a)
  BY <1>1, <1>2, <1>3, SameVolume DEF SubscriberInv
<1>5. \A a \in Accounts : Known(a)' = Known(a)
  BY <1>1 DEF Known
<1>6. clashed => clashed'
  BY <1>1 DEF EmitNew
<1> QED BY <1>1, <1>4, <1>5, <1>6 DEF NoVolumeYet, VolumeExact

\* A handler's step before the last one counts nothing.
LEMMA MovesVolume ==
    ASSUME TypeInv, SubscriberInv, NEW e, NEW position, Moves(e, position),
           position # "done", NEW a
    PROVE  CountedVolume(a)' = CountedVolume(a)
<1>1. EventsStay /\ UNCHANGED shares
  BY QuietEvents DEF Moves
<1>2. \A f \in Events : handler'[f] = "done" <=> handler[f] = "done"
  BY MovesCountNothing DEF Moves
<1> QED BY <1>1, <1>2, SameVolume DEF SubscriberInv

LEMMA CreateVolume ==
    ASSUME TypeInv, SubscriberInv, ExactInv, NoVolumeYet, VolumeExact,
           NEW e \in Events, CreateRecord(e)
    PROVE  NoVolumeYet' /\ VolumeExact'
<1> DEFINE a == AgentOf(e)
<1>1. e \in Emitted /\ handler[e] = "create"
  BY RunningEmitted DEF CreateRecord, HandlerAt
<1>2. Moves(e, "count")
  BY <1>1 DEF CreateRecord, HandlerTo, Moves, HandlerPosition
<1>3. NoVolumeYet' /\ UNCHANGED <<counted, clashed>> /\ record' = [record EXCEPT ![a] = e]
  BY DEF CreateRecord, NoVolumeYet
<1>4. ASSUME ~clashed, NEW b \in Accounts PROVE Known(b)'.volume = Known(b).volume
  <2>1. RecordsExact /\ InHand /\ record \in [Accounts -> Events \cup {NoRecord}]
    BY <1>4 DEF ExactInv, SubscriberInv, SubscriberTypes
  <2>2. CASE b # a
    BY <1>3, <2>1, <2>2 DEF Known
  <2>3. CASE b = a
    <3>1. record[a] = NoRecord /\ DoneUnder(a, "settled") = {}
      BY <1>1, <1>4, <2>1, <2>3 DEF InHand, RecordsExact, Headings
    <3>2. /\ counted[e]["settled"] <= Cardinality(DoneUnder(a, "settled"))
          /\ counted[e]["settled"] \in Nat
      BY <1>1, <1>4, <2>3, CountersType
         DEF SubscriberInv, SubscriberTypes, CountsBounded, Headings
    <3>3. counted[e].settled = 0
      BY <3>1, <3>2, FS_EmptySet
    <3>4. counted[e].volume = 0
      BY <3>3 DEF NoVolumeYet
    <3>5. Known(b)' = counted[e]
      BY <1>3, <1>4, <2>1, <2>3, NoRecordIsNoEvent DEF Known
    <3>6. Known(b).volume = 0
      BY <2>3, <3>1 DEF Known, Counters
    <3> QED BY <3>4, <3>5, <3>6
  <2> QED BY <2>2, <2>3
<1>5. \A b : CountedVolume(b)' = CountedVolume(b)
  BY <1>2, MovesVolume
<1> QED BY <1>3, <1>4, <1>5 DEF VolumeExact

\* What an event adds to the volume of its agent.
Worth(e) ==
    IF e[1] = "receipt" THEN Amount[e[2]]
    ELSE IF e[1] = "closed" THEN DisputeGain(AgentOf(e), e[2]) + MisreportOf(AgentOf(e), e[2])
    ELSE 0

LEMMA VolumeAdds ==
    ASSUME TypeInv, shares \in [Disputes -> Int], NEW e \in Emitted, NEW c \in CounterTypes
    PROVE  /\ CountIn(e, c).volume = c.volume + Worth(e)
           /\ Heading(e) # "settled" => CountIn(e, c).volume = c.volume
<1>1. e \in Events /\ Happened(e)
  BY EmittedHappened
<1>2. c.volume \in Int /\ c = [c EXCEPT !.settled = c.settled]
  BY DEF CounterTypes
<1>3. CASE e[1] = "receipt"
  <2>1. Amount[e[2]] \in Int
    BY <1>1, <1>3, EventCases, TotalType
  <2>2. CountIn(e, c) = Settles(c, Amount[e[2]]) /\ Heading(e) = "settled"
    BY <1>3 DEF CountIn, Heading
  <2> QED BY <1>3, <2>1, <2>2, SettlesAdds DEF Worth
<1>4. CASE e[1] = "opened"
  <2>1. CountIn(e, c) = [c EXCEPT !.disputed = @ + 1]
    BY <1>4 DEF CountIn
  <2>2. CountIn(e, c).volume = c.volume
    BY <2>1 DEF CounterTypes
  <2> QED BY <1>2, <1>4, <2>2 DEF Worth
<1>5. CASE e[1] = "closed"
  <2> DEFINE d == e[2]
             a == AgentOf(e)
             r == disputes[d].resolution
  <2>1. /\ d \in Disputes /\ d \in DOMAIN disputes /\ disputes[d].transaction_id \in Txs
        /\ r \in {"refund", "slash", "split", "settle"}
        /\ a = Receiver[disputes[d].transaction_id]
    BY <1>1, <1>5, EventCases
       DEF Happened, IsResolved, TypeInv, TypeOK, DisputesTypeOK, Resolution, AgentOf, TxOfEvent
  <2>2. Amount[disputes[d].transaction_id] \in Int /\ shares[d] \in Int
    BY <2>1, TotalType
  <2>3. Worth(e) = DisputeGain(a, d) + MisreportOf(a, d)
    BY <1>5 DEF Worth
  <2>4. /\ d \in Decided(a, {"settle", "split"}) <=> r \in {"settle", "split"}
        /\ d \in Against(a)
    BY <2>1 DEF Decided, Against
  <2>5. CASE r = "slash"
    <3>1. CountIn(e, c) = [c EXCEPT !.slashed = @ + 1]
      BY <1>5, <2>5 DEF CountIn
    <3>2. CountIn(e, c).volume = c.volume
      BY <3>1 DEF CounterTypes
    <3>3. Worth(e) = 0
      BY <2>3, <2>4, <2>5 DEF DisputeGain, MisreportOf, Misreport
    <3> QED BY <1>2, <3>2, <3>3
  <2>6. CASE r = "refund"
    <3>1. CountIn(e, c) = [c EXCEPT !.refunded = @ + 1]
      BY <1>5, <2>6 DEF CountIn
    <3>2. CountIn(e, c).volume = c.volume
      BY <3>1 DEF CounterTypes
    <3>3. Worth(e) = 0
      BY <2>3, <2>4, <2>6 DEF DisputeGain, MisreportOf, Misreport
    <3> QED BY <1>2, <3>2, <3>3
  <2>7. CASE r \in {"settle", "split"}
    <3>1. CountIn(e, c) = Settles(c, SettledAmount(d)) /\ Heading(e) = "settled"
      BY <1>5, <2>7 DEF CountIn, Heading
    <3>2. SettledAmount(d) \in Int
      BY <2>2 DEF SettledAmount
    <3>3. Worth(e) = SettledAmount(d)
      <4>1. CASE r = "settle"
        <5>1. DisputeGain(a, d) = Amount[disputes[d].transaction_id]
          BY <2>4, <4>1 DEF DisputeGain, Subject
        <5>2. MisreportOf(a, d) = IF shares[d] = 0 THEN 0
                                  ELSE shares[d] - Amount[disputes[d].transaction_id]
          BY <2>4, <4>1 DEF MisreportOf, Misreport
        <5> QED BY <2>2, <2>3, <5>1, <5>2 DEF SettledAmount
      <4>2. CASE r = "split"
        <5>1. DisputeGain(a, d) = shares[d]
          BY <2>4, <4>2 DEF DisputeGain
        <5>2. MisreportOf(a, d) = IF shares[d] = 0 THEN Amount[disputes[d].transaction_id]
                                  ELSE 0
          BY <2>4, <4>2 DEF MisreportOf, Misreport
        <5> QED BY <2>2, <2>3, <5>1, <5>2 DEF SettledAmount
      <4> QED BY <2>7, <4>1, <4>2
    <3> QED BY <3>1, <3>2, <3>3, SettlesAdds
  <2> QED BY <2>1, <2>5, <2>6, <2>7
<1> QED BY <1>1, <1>3, <1>4, <1>5, EventCases

\* An event that is newly counted adds its worth, to its agent's volume alone.
LEMMA DoneAddsVolume ==
    ASSUME TypeInv, SubscriberInv, NEW e \in Events, Moves(e, "done"), NEW a \in Accounts
    PROVE  CountedVolume(a)' = CountedVolume(a) + (IF AgentOf(e) = a THEN Worth(e) ELSE 0)
<1>0. /\ UNCHANGED <<disputes, shares>> /\ shares \in [Disputes -> Int]
      /\ shares' \in [Disputes -> Int] /\ e \in Emitted
  BY DEF Moves, vars, disputeVars, SubscriberInv, SubscriberTypes
<1>1. /\ \A f \in Events \ {e} : handler'[f] = handler[f]
      /\ handler'[e] = "done" /\ handler[e] # "done" /\ Happened(e)
  BY <1>0, MovesCountNothing, EmittedHappened DEF Moves
<1>2. /\ \A b, d : DisputeGain(b, d)' = DisputeGain(b, d)
      /\ \A b, d : MisreportOf(b, d)' = MisreportOf(b, d)
  BY <1>0 DEF DisputeGain, MisreportOf, Misreport, Decided, Against, Subject
<1> DEFINE C == CountedCalls(a)
           G == CountedGain(a)
           E == CountedMisreports(a)
<1>3. /\ C \in [Txs -> Int] /\ G \in [Disputes -> Int] /\ E \in [Disputes -> Int]
      /\ SumFunctionOnSet(C, Txs) \in Int /\ SumFunctionOnSet(G, Disputes) \in Int
      /\ SumFunctionOnSet(E, Disputes) \in Int
  BY <1>0, CountedTypes
<1>4. /\ C' \in [Txs -> Int] /\ G' \in [Disputes -> Int] /\ E' \in [Disputes -> Int]
  <2>1. \A d \in Disputes : DisputeGain(a, d)' \in Int /\ MisreportOf(a, d)' \in Int
    BY <1>0, <1>2, AmountTypes
  <2> QED BY <2>1, TotalType DEF CountedCalls, CountedGain, CountedMisreports
<1>5. CountedVolume(a) = SumFunctionOnSet(C, Txs) + SumFunctionOnSet(G, Disputes)
                            + SumFunctionOnSet(E, Disputes)
  BY DEF CountedVolume
<1>6. CountedVolume(a)' = SumFunctionOnSet(C', Txs) + SumFunctionOnSet(G', Disputes)
                            + SumFunctionOnSet(E', Disputes)
  BY DEF CountedVolume
<1>7. ASSUME \A d \in Disputes : e # Closed(d) PROVE G' = G /\ E' = E
  <2>1. \A d \in Disputes : handler'[Closed(d)] = handler[Closed(d)]
    BY <1>1, <1>7, EventNames
  <2> QED BY <1>2, <2>1 DEF CountedGain, CountedMisreports
<1>8. ASSUME \A t \in Txs : e # Receipt(t) PROVE C' = C
  <2>1. \A t \in Txs : handler'[Receipt(t)] = handler[Receipt(t)]
    BY <1>1, <1>8, EventNames
  <2> QED BY <2>1 DEF CountedCalls
<1>9. CASE e[1] = "receipt"
  <2> DEFINE t == e[2]
  <2>1. t \in Txs /\ e = Receipt(t) /\ AgentOf(e) = Receiver[t] /\ Worth(e) = Amount[t]
    BY <1>9, EventCases DEF AgentOf, TxOfEvent, Worth
  <2>2. G' = G /\ E' = E
    BY <1>7, <1>9, EventNames
  <2>3. \A u \in Txs \ {t} : C'[u] = C[u]
    BY <1>1, <2>1, EventNames DEF CountedCalls
  <2>4. C[t] = 0 /\ C'[t] = IF AgentOf(e) = a THEN Worth(e) ELSE 0
    BY <1>1, <2>1 DEF CountedCalls
  <2> HIDE DEF t, C, G, E
  <2>5. SumFunctionOnSet(C', Txs) = SumFunctionOnSet(C, Txs) - C[t] + C'[t]
    BY <1>3, <1>4, <2>1, <2>3, SumUpdate, ParameterTypes
  <2>6. C'[t] \in Int
    BY <1>4, <2>1
  <2> QED BY <1>3, <1>5, <1>6, <2>2, <2>4, <2>5, <2>6
<1>10. CASE e[1] = "opened"
  <2>1. C' = C /\ G' = G /\ E' = E
    BY <1>7, <1>8, <1>10, EventNames
  <2>2. Worth(e) = 0
    BY <1>10 DEF Worth
  <2> HIDE DEF C, G, E
  <2> QED BY <1>3, <1>5, <1>6, <2>1, <2>2
<1>11. CASE e[1] = "closed"
  <2> DEFINE d == e[2]
  <2>1. /\ d \in Disputes /\ e = Closed(d)
        /\ AgentOf(e) = Receiver[disputes[d].transaction_id]
        /\ Worth(e) = DisputeGain(AgentOf(e), d) + MisreportOf(AgentOf(e), d)
    BY <1>11, EventCases DEF AgentOf, TxOfEvent, Worth
  <2>2. C' = C
    BY <1>8, <1>11, EventNames
  <2>3. \A u \in Disputes \ {d} : G'[u] = G[u] /\ E'[u] = E[u]
    BY <1>1, <1>2, <2>1, EventNames DEF CountedGain, CountedMisreports
  <2>4. /\ G[d] = 0 /\ E[d] = 0
        /\ G'[d] = DisputeGain(a, d) /\ E'[d] = MisreportOf(a, d)
    BY <1>1, <1>2, <2>1 DEF CountedGain, CountedMisreports
  <2>5. AgentOf(e) # a => DisputeGain(a, d) = 0 /\ MisreportOf(a, d) = 0
    BY <2>1 DEF DisputeGain, MisreportOf, Decided, Against
  <2>6. DisputeGain(a, d) \in Int /\ MisreportOf(a, d) \in Int
    BY <1>0, <2>1, AmountTypes
  <2> HIDE DEF d, C, G, E
  <2>7. /\ SumFunctionOnSet(G', Disputes) = SumFunctionOnSet(G, Disputes) - G[d] + G'[d]
        /\ SumFunctionOnSet(E', Disputes) = SumFunctionOnSet(E, Disputes) - E[d] + E'[d]
    BY <1>3, <1>4, <2>1, <2>3, SumUpdate, FiniteDisputes
  <2>8. CountedVolume(a)' = CountedVolume(a) + DisputeGain(a, d) + MisreportOf(a, d)
    BY <1>3, <1>5, <1>6, <2>2, <2>4, <2>6, <2>7
  <2>9. CountedVolume(a) \in Int
    BY <1>3, <1>5
  <2> QED BY <2>1, <2>5, <2>6, <2>8, <2>9
<1> QED BY <1>9, <1>10, <1>11, EventCases

LEMMA CountVolume ==
    ASSUME TypeInv, SubscriberInv, ExactInv, NoVolumeYet, VolumeExact,
           NEW e \in Events, Count(e)
    PROVE  NoVolumeYet' /\ VolumeExact'
<1> DEFINE r == found[e]
           a == AgentOf(e)
<1>1. e \in Emitted /\ handler[e] = "count"
  BY RunningEmitted DEF Count, HandlerAt
<1>2. Moves(e, "done")
  BY <1>1 DEF Count, HandlerTo, Moves, HandlerPosition
<1>3. /\ r \in Events /\ AgentOf(r) = a
      /\ counted \in [Events -> CounterTypes] /\ shares \in [Disputes -> Int]
      /\ record \in [Accounts -> Events \cup {NoRecord}]
      /\ UNCHANGED <<record, clashed>>
  BY <1>1, EmittedHappened DEF SubscriberInv, SubscriberTypes, RecordsMatch, Count
<1>4. /\ counted' = [counted EXCEPT ![r] = CountIn(e, counted[r])]
      /\ counted[r] \in CounterTypes
  BY <1>3 DEF Count
<1>5. /\ CountIn(e, counted[r]).volume = counted[r].volume + Worth(e)
      /\ Heading(e) # "settled" => CountIn(e, counted[r]).volume = counted[r].volume
      /\ CountIn(e, counted[r])["settled"]
            = counted[r]["settled"] + (IF "settled" = Heading(e) THEN 1 ELSE 0)
      /\ counted[r]["settled"] \in Nat
  BY <1>1, <1>3, <1>4, VolumeAdds, CountInAdds, CountersType DEF Headings
<1>6. a \in Accounts
  <2>1. UNCHANGED vars
    BY DEF Count
  <2> QED BY <1>1, <2>1, QuietEvents, EmittedFixed
<1>7. NoVolumeYet'
  <2>1. ASSUME NEW q \in Events, counted'[q].settled = 0 PROVE counted'[q].volume = 0
    <3>1. CASE q # r
      <4>1. counted'[q] = counted[q]
        BY <1>3, <1>4, <3>1
      <4> QED BY <2>1, <4>1 DEF NoVolumeYet
    <3>2. CASE q = r
      <4>1. counted'[q] = CountIn(e, counted[r])
        BY <1>3, <1>4, <3>2
      <4>2. counted[r].settled = 0 /\ Heading(e) # "settled"
        BY <1>5, <2>1, <4>1
      <4> QED BY <1>3, <1>5, <4>1, <4>2 DEF NoVolumeYet
    <3> QED BY <3>1, <3>2
  <2> QED BY <2>1 DEF NoVolumeYet
<1>8. ASSUME ~clashed, NEW b \in Accounts PROVE Known(b)'.volume = CountedVolume(b)'
  <2>1. InHand /\ Known(b).volume = CountedVolume(b)
    BY <1>8 DEF ExactInv, VolumeExact
  <2>2. CountedVolume(b)' = CountedVolume(b) + (IF a = b THEN Worth(e) ELSE 0)
    BY <1>2, <1>8, DoneAddsVolume
  <2>3. CASE b = a
    <3>1. record[b] = r
      BY <1>1, <1>8, <2>1, <2>3 DEF InHand
    <3>2. Known(b) = counted[r] /\ Known(b)' = CountIn(e, counted[r])
      BY <1>3, <1>4, <3>1, NoRecordIsNoEvent DEF Known
    <3> QED BY <1>5, <2>1, <2>2, <2>3, <3>2
  <2>4. CASE b # a
    <3>1. record[b] # r
      BY <1>3, <1>8, <2>4 DEF SubscriberInv, RecordsMatch
    <3>2. Known(b)' = Known(b)
      BY <1>3, <1>4, <1>8, <3>1 DEF Known
    <3>3. CountedVolume(b) \in Int
      BY <1>3, CountedTypes DEF CountedVolume
    <3> QED BY <2>1, <2>2, <2>4, <3>2, <3>3
  <2> QED BY <2>3, <2>4
<1> QED BY <1>3, <1>7, <1>8 DEF VolumeExact

VolumeInv == IncomeInv /\ NoVolumeYet /\ VolumeExact

LEMMA StepVolumeInv ==
    ASSUME TypeInv, DecisionInv, SubscriberInv, ExactInv, VolumeInv,
           [SubscribersNext]_<<vars, subscriberVars>>
    PROVE  VolumeInv'
<1>0. /\ IncomeInv /\ NoVolumeYet /\ VolumeExact /\ shares \in [Disputes -> Int]
  BY DEF VolumeInv, SubscriberInv, SubscriberTypes
<1>1. CASE Serve
  BY <1>0, <1>1, ServeIncomeInv, ServeVolume DEF VolumeInv
<1>2. ASSUME UNCHANGED <<vars, shares>> PROVE IncomeInv'
  <2>1. UNCHANGED <<pc, receipts, balances, disputes, shares>>
    BY <1>2 DEF vars, ledgerVars, disputeVars, callVars
  <2>2. \A a : CallIncome(a)' = CallIncome(a) /\ DisputeIncome(a)' = DisputeIncome(a)
    BY <2>1 DEF CallIncome, DisputeIncome, DisputeGain, Decided, Against, Subject
  <2> QED BY <1>0, <2>1, <2>2 DEF IncomeInv
<1>3. ASSUME UNCHANGED <<record, counted, clashed>>,
             \A a \in Accounts : CountedVolume(a)' = CountedVolume(a)
      PROVE  NoVolumeYet' /\ VolumeExact'
  BY <1>0, <1>3 DEF NoVolumeYet, VolumeExact, Known
<1>4. ASSUME NEW t \in Txs, ReadUsage(t) PROVE VolumeInv'
  <2>1. Moves(Receipt(t), "write_usage")
    BY <1>4, EventNames, RunningEmitted
       DEF ReadUsage, HandlerAt, HandlerTo, Moves, HandlerPosition
  <2>2. \A a \in Accounts : CountedVolume(a)' = CountedVolume(a)
    BY <2>1, MovesVolume
  <2> QED BY <1>2, <1>3, <1>4, <2>2 DEF ReadUsage, VolumeInv
<1>5. ASSUME NEW t \in Txs, WriteUsage(t) PROVE VolumeInv'
  <2>1. Moves(Receipt(t), "find")
    BY <1>5, EventNames, RunningEmitted
       DEF WriteUsage, HandlerAt, HandlerTo, Moves, HandlerPosition
  <2>2. \A a \in Accounts : CountedVolume(a)' = CountedVolume(a)
    BY <2>1, MovesVolume
  <2> QED BY <1>2, <1>3, <1>5, <2>2 DEF WriteUsage, VolumeInv
<1>6. ASSUME NEW e \in Events, FindRecord(e) PROVE VolumeInv'
  <2>1. e \in Emitted /\ handler[e] = "find"
    BY <1>6, RunningEmitted DEF FindRecord, HandlerAt
  <2>2. \E position \in {"create", "count"} : Moves(e, position)
    BY <1>6, <2>1 DEF FindRecord, HandlerTo, Moves, HandlerPosition
  <2>3. \A a \in Accounts : CountedVolume(a)' = CountedVolume(a)
    BY <2>2, MovesVolume
  <2> QED BY <1>2, <1>3, <1>6, <2>3 DEF FindRecord, VolumeInv
<1>7. ASSUME NEW e \in Events, CreateRecord(e) PROVE VolumeInv'
  BY <1>0, <1>2, <1>7, CreateVolume DEF CreateRecord, VolumeInv
<1>8. ASSUME NEW e \in Events, Count(e) PROVE VolumeInv'
  BY <1>0, <1>2, <1>8, CountVolume DEF Count, VolumeInv
<1>9. CASE UNCHANGED <<vars, subscriberVars>>
  <2>1. UNCHANGED <<record, counted, clashed, shares, handler>> /\ EventsStay
    BY <1>9, QuietEvents DEF subscriberVars
  <2>2. \A a \in Accounts : CountedVolume(a)' = CountedVolume(a)
    BY <2>1, SameVolume DEF SubscriberInv
  <2> QED BY <1>2, <1>3, <1>9, <2>1, <2>2 DEF VolumeInv
<1> QED BY <1>1, <1>4, <1>5, <1>6, <1>7, <1>8, <1>9 DEF SubscribersNext

LEMMA VolumeImplies ==
    ASSUME TypeInv, DecisionInv, SubscriberInv, VolumeInv
    PROVE  VolumeIsIncome
<1> SUFFICES ASSUME Quiet, \A t \in Txs : pc[t] # "receipt", NEW a \in Sellers
             PROVE  Known(a).volume - Misreported(a) = balances[a] - Opening[a]
  BY DEF VolumeIsIncome, Sellers
<1>1. /\ Known(a).volume = CountedVolume(a) /\ a \in Accounts
      /\ shares \in [Disputes -> Int]
  BY DEF VolumeInv, VolumeExact, Quiet, Sellers, SubscriberInv, SubscriberTypes
<1>2. \A e \in Events : handler[e] = "done" <=> Happened(e)
  BY EmittedHappened DEF Quiet, Running, Ends, SubscriberInv, HandlersFollow
<1>3. \A t \in Txs : handler[Receipt(t)] = "done" <=> pc[t] = "returned"
  <2>1. \A t \in Txs : handler[Receipt(t)] = "done" <=> t \in receipts
    BY <1>2, EventNames DEF Happened
  <2> QED BY <2>1 DEF DecisionInv, CallsTell, VolumeInv, IncomeInv
<1>4. CountedCalls(a) = CallIncome(a)
  BY <1>3 DEF CountedCalls, CallIncome
<1>5. ASSUME NEW d \in Disputes, handler[Closed(d)] # "done"
      PROVE  DisputeGain(a, d) = 0 /\ MisreportOf(a, d) = 0
  <2>1. ~IsResolved(d)
    BY <1>2, <1>5, EventNames DEF Happened
  <2> QED BY <2>1 DEF IsResolved, DisputeGain, MisreportOf, Misreport, Decided, Against, None
<1>6. CountedGain(a) = DisputeIncome(a)
  BY <1>5 DEF CountedGain, DisputeIncome
<1>7. SumFunctionOnSet(CountedMisreports(a), Disputes) = Misreported(a)
  <2>1. CountedMisreports(a) = [d \in Disputes |-> MisreportOf(a, d)]
    BY <1>5 DEF CountedMisreports
  <2> QED BY <2>1 DEF Misreported, MisreportOf
<1>8. balances[a] = Opening[a] + SumFunctionOnSet(CallIncome(a), Txs)
                               + SumFunctionOnSet(DisputeIncome(a), Disputes)
  BY DEF VolumeInv, IncomeInv
<1>9. /\ SumFunctionOnSet(CallIncome(a), Txs) \in Int
      /\ SumFunctionOnSet(DisputeIncome(a), Disputes) \in Int
      /\ Misreported(a) \in Int /\ Opening[a] \in Int
  BY <1>1, <1>7, IncomeTypes, CountedTypes, ParameterTypes
<1> QED BY <1>1, <1>4, <1>6, <1>7, <1>8, <1>9 DEF CountedVolume

\* Handlers that never met have the volume right too, but for what the disputes tell
\* them: what reputation takes an agent that buys nothing to have settled is what its
\* balance has grown by, plus the price of the splits at 0 and less or more by as much
\* as the number sent along with a settle is off the price.
THEOREM VolumesAreIncome == HostingSpec => []TenantVolumeIsIncome
<1> DEFINE V == hosting = "tenant" => VolumeInv
<1>1. HostingInit => V
  BY InitIncomeInv, InitVolume DEF HostingInit, VolumeInv
<1>2. HostingInv /\ V /\ [HostingNext]_hostingVars => V'
  <2> SUFFICES ASSUME HostingInv, V, [HostingNext]_hostingVars, hosting' = "tenant"
               PROVE  VolumeInv'
    OBVIOUS
  <2>1. hosting = "tenant"
    BY DEF HostingNext, hostingVars
  <2>2. [SubscribersNext]_<<vars, subscriberVars>>
    BY <2>1 DEF HostingNext, hostingVars
  <2>3. TypeInv /\ DecisionInv /\ SubscriberInv /\ ExactInv /\ VolumeInv
    BY <2>1 DEF HostingInv
  <2> QED BY <2>2, <2>3, StepVolumeInv
<1>3. HostingInv /\ V => TenantVolumeIsIncome
  BY VolumeImplies DEF HostingInv, TenantVolumeIsIncome
<1> QED BY <1>1, <1>2, <1>3, AlwaysHostingInv, PTL DEF HostingSpec
=============================================================================
