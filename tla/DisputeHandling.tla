--------------------------- MODULE DisputeHandling ---------------------------
(***************************************************************************)
(* neuralclear/clearing.py: ClearingService.open_dispute() and             *)
(* resolve_dispute(), which any thread may call on any transaction it      *)
(* knows, whichever service created it.                                    *)
(*                                                                         *)
(* open_dispute() takes no lock: the state is read, then written, then the *)
(* dispute is stored, in three steps. resolve_dispute() moves the funds in *)
(* one step: of two callers that both find a dispute unresolved only one   *)
(* finds the funds, and the other raises without a change. A refund and a  *)
(* slash write the state in a second step, after transition()'s check.     *)
(***************************************************************************)
EXTENDS EscrowLedger

CONSTANTS
    Disputes         \* dispute ids, a bound on open_dispute() calls

VARIABLES
    opening,         \* the transaction of each open_dispute() call in progress
    marked,          \* those of them that have seen or written DISPUTED
    disputes,        \* ClearingService.disputes
    resolving,       \* refunds and slashes that have yet to write the state
    payout           \* history only: where a transaction's escrow went

disputeVars == <<opening, marked, disputes, resolving, payout>>

None == "none"
ASSUME NoneIsNoTx == None \notin Txs

Resolution == {"refund", "slash", "split", "settle"}
Outcome == [refund |-> "REFUNDED", slash |-> "SLASHED"]
Payouts == {"paid", "refunded", "slashed", "split", "destroyed"}

DisputesInit ==
    /\ opening = [d \in Disputes |-> None]
    /\ marked = {}
    /\ disputes = [d \in {} |-> None]
    /\ resolving = [d \in Disputes |-> None]
    /\ payout = [t \in Txs |-> None]

Paid(t, how) == payout' = [payout EXCEPT ![t] = how]
-----------------------------------------------------------------------------
\* A call on a known transaction: it goes on to record the dispute when the
\* transaction is DISPUTED already, and to write DISPUTED when transition()
\* finds that it may.
CheckDispute(d, t) ==
    /\ d \notin DOMAIN disputes /\ opening[d] = None
    /\ opening' = [opening EXCEPT ![d] = t]
    /\ \/ state[t] = "DISPUTED" /\ marked' = marked \cup {d}
       \/ CanTransition(state[t], "DISPUTED") /\ UNCHANGED marked
    /\ UNCHANGED <<ledgerVars, disputes, resolving, payout>>

WriteDispute(d, t) ==
    /\ opening[d] = t /\ d \notin marked
    /\ WriteState(t, "DISPUTED")
    /\ marked' = marked \cup {d}
    /\ UNCHANGED <<opening, disputes, resolving, payout>>

\* BUG, for a mutant: the state is written and the dispute never recorded.
ForgetDispute(d, t) ==
    /\ opening[d] = t /\ d \in marked
    /\ opening' = [opening EXCEPT ![d] = None]
    /\ marked' = marked \ {d}
    /\ UNCHANGED <<ledgerVars, disputes, resolving, payout>>

NewDispute(d, t) ==
    disputes' = [e \in DOMAIN disputes \cup {d} |->
                    IF e = d THEN [transaction_id |-> t, resolution |-> None]
                             ELSE disputes[e]]

RecordDispute(d, t) ==
    /\ opening[d] = t /\ d \in marked
    /\ NewDispute(d, t)
    /\ opening' = [opening EXCEPT ![d] = None]
    /\ marked' = marked \ {d}
    /\ UNCHANGED <<ledgerVars, resolving, payout>>

Unresolved(d, t) ==
    /\ d \in DOMAIN disputes
    /\ disputes[d].transaction_id = t
    /\ disputes[d].resolution = None

Resolve(d, resolution) ==
    disputes' = [disputes EXCEPT ![d].resolution = resolution]

\* transition() in refund_escrow() and slash_escrow(): its check, and the raise
\* that leaves the dispute unresolved with the funds gone.
CheckOutcome(d, t, resolution) ==
    IF CanTransition(state[t], Outcome[resolution])
    THEN resolving' = [resolving EXCEPT ![d] = resolution]
    ELSE UNCHANGED resolving

ResolveRefund(d, t) ==
    /\ Unresolved(d, t)
    /\ refund_escrow(t)
    /\ Paid(t, "refunded")
    /\ CheckOutcome(d, t, "refund")
    /\ UNCHANGED <<opening, marked, disputes>>

\* BUG, for a mutant: a slashed escrow is recorded as a refund.
SlashAsRefund(d, t) ==
    /\ Unresolved(d, t)
    /\ slash_escrow(t)
    /\ Paid(t, "slashed")
    /\ CheckOutcome(d, t, "refund")
    /\ UNCHANGED <<opening, marked, disputes>>

ResolveSlash(d, t) ==
    /\ Unresolved(d, t)
    /\ slash_escrow(t)
    /\ Paid(t, "slashed")
    /\ CheckOutcome(d, t, "slash")
    /\ UNCHANGED <<opening, marked, disputes>>

\* The assignment of the state, whatever it has become, and the resolution.
WriteOutcome(d, t) ==
    /\ resolving[d] # None
    /\ disputes[d].transaction_id = t
    /\ WriteState(t, Outcome[resolving[d]])
    /\ Resolve(d, resolving[d])
    /\ resolving' = [resolving EXCEPT ![d] = None]
    /\ UNCHANGED <<opening, marked, payout>>

ResolveSplit(d, t, p) ==
    /\ Unresolved(d, t)
    /\ split_escrow(t, p)
    /\ IF InRange(t, p) THEN Resolve(d, "split") /\ Paid(t, "split")
                        ELSE UNCHANGED disputes /\ Paid(t, "destroyed")
    /\ UNCHANGED <<opening, marked, resolving>>

ResolveSettle(d, t) ==
    /\ Unresolved(d, t)
    /\ release(t)
    /\ Paid(t, "paid")
    /\ Resolve(d, "settle")
    /\ UNCHANGED <<opening, marked, resolving>>

ResolveDispute(d, t) ==
    \/ ResolveRefund(d, t)
    \/ ResolveSlash(d, t)
    \/ \E p \in ProviderAmounts : ResolveSplit(d, t, p)
    \/ ResolveSettle(d, t)
-----------------------------------------------------------------------------
DisputesTypeOK ==
    /\ opening \in [Disputes -> Txs \cup {None}] /\ marked \subseteq Disputes
    /\ DOMAIN disputes \subseteq Disputes
    /\ disputes \in [DOMAIN disputes ->
                        [transaction_id : Txs, resolution : Resolution \cup {None}]]
    /\ resolving \in [Disputes -> DOMAIN Outcome \cup {None}]
    /\ \A d \in Disputes : resolving[d] # None => d \in DOMAIN disputes
    /\ payout \in [Txs -> Payouts \cup {None}]

Resolved(d, t) ==
    /\ d \in DOMAIN disputes
    /\ disputes[d].transaction_id = t
    /\ disputes[d].resolution # None

\* The payout each resolution stands for.
PayoutOf == [refund |-> "refunded", slash |-> "slashed", split |-> "split", settle |-> "paid"]

\* Somebody is in charge of the transaction's funds, or about to be.
Contested(t) == \E d \in Disputes : opening[d] = t \/ Unresolved(d, t)
=============================================================================
