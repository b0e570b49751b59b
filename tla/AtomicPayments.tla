--------------------------- MODULE AtomicPayments ---------------------------
(***************************************************************************)
(* What clearing promises, without escrow: every transaction is decided at *)
(* most once, in one indivisible transfer, and what it takes from the      *)
(* buyer is what the provider and the fee pool receive. A buyer's credits  *)
(* in escrow still belong to the buyer's wealth until that step.           *)
(***************************************************************************)
EXTENDS Integers

CONSTANTS Accounts, Txs, Sender, Receiver, Amount, Fee, Opening

VARIABLES
    wealth,   \* what each account owns, escrowed credits included
    pool,     \* the fees and penalties collected
    outcome   \* how each transaction was decided

paymentVars == <<wealth, pool, outcome>>

Undecided == "none"

Init ==
    /\ wealth = Opening
    /\ pool = 0
    /\ outcome = [t \in Txs |-> Undecided]

Decide(t, how) ==
    /\ outcome[t] = Undecided
    /\ outcome' = [outcome EXCEPT ![t] = how]

\* The buyer parts with n + m: n to the provider, m to the pool.
Transfer(t, n, m) ==
    /\ wealth[Sender[t]] >= n + m
    /\ wealth' = [wealth EXCEPT ![Sender[t]] = @ - (n + m), ![Receiver[t]] = @ + n]
    /\ pool' = pool + m

Pay(t) == Decide(t, "paid") /\ Transfer(t, Amount[t], Fee[t])

Refund(t) == Decide(t, "refunded") /\ UNCHANGED <<wealth, pool>>

Slash(t) == Decide(t, "slashed") /\ Transfer(t, 0, Amount[t] + Fee[t])

Split(t) == Decide(t, "split") /\ \E p \in 0..Amount[t] : Transfer(t, p, Fee[t])

Next == \E t \in Txs : Pay(t) \/ Refund(t) \/ Slash(t) \/ Split(t)

Spec == Init /\ [][Next]_paymentVars
=============================================================================
