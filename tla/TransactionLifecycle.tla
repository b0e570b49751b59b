------------------------ MODULE TransactionLifecycle ------------------------
(***************************************************************************)
(* neuralclear/core.py: the states of a Transaction and the table that     *)
(* Transaction.transition() consults before it writes a new state.         *)
(***************************************************************************)

TransactionState ==
    {"QUOTE_REQUESTED", "QUOTE_ACCEPTED", "TASK_SUBMITTED", "TASK_RUNNING",
     "RESULT_DELIVERED", "PROOF_VERIFIED", "SETTLED", "DISPUTED",
     "REFUNDED", "SLASHED", "EXPIRED"}

ALLOWED_TRANSITIONS ==
    [s \in TransactionState |->
        CASE s = "QUOTE_REQUESTED"  -> {"QUOTE_ACCEPTED", "EXPIRED"}
          [] s = "QUOTE_ACCEPTED"   -> {"TASK_SUBMITTED", "EXPIRED"}
          [] s = "TASK_SUBMITTED"   -> {"TASK_RUNNING", "DISPUTED"}
          [] s = "TASK_RUNNING"     -> {"RESULT_DELIVERED", "DISPUTED"}
          [] s = "RESULT_DELIVERED" -> {"PROOF_VERIFIED", "DISPUTED"}
          [] s = "PROOF_VERIFIED"   -> {"SETTLED", "DISPUTED"}
          [] s = "SETTLED"          -> {"DISPUTED"}
          [] s = "DISPUTED"         -> {"REFUNDED", "SLASHED", "SETTLED"}
          [] OTHER                  -> {}]

\* The check of transition(); its raise is the negation. The write is left to
\* the caller's action, because nothing holds a lock between the two.
CanTransition(from, to) == to \in ALLOWED_TRANSITIONS[from]
=============================================================================
