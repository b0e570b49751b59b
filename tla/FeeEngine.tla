----------------------------- MODULE FeeEngine -----------------------------
(***************************************************************************)
(* neuralclear/clearing.py, class FeePolicy: the protocol fee of one       *)
(* settlement, in whole credits.                                           *)
(***************************************************************************)
EXTENDS Integers

BasisPoints == 10000

\* The policies __post_init__ accepts.
FeePolicies == [bps : 0..BasisPoints, flat : Nat, minimum : Nat]

\* The proportional part, rounded down to a whole credit.
Proportional(policy, amount) == (amount * policy.bps) \div BasisPoints

\* BUG, for a mutant: the minimum is taken of the proportional part alone.
MinimumBeforeFlat(policy, amount) ==
    LET share == Proportional(policy, amount)
    IN  policy.flat + (IF share < policy.minimum THEN policy.minimum ELSE share)

\* BUG, for a mutant: the flat part is charged only beside a proportional one.
FlatOnlyWithShare(policy, amount) ==
    LET share == Proportional(policy, amount)
        fee == IF share = 0 THEN 0 ELSE share + policy.flat
    IN  IF fee < policy.minimum THEN policy.minimum ELSE fee

fee_for(policy, amount) ==
    LET fee == Proportional(policy, amount) + policy.flat
    IN  IF fee < policy.minimum THEN policy.minimum ELSE fee

\* fee_for() raises: "fee would consume the entire settlement amount".
FeeRefused(policy, amount) ==
    fee_for(policy, amount) >= amount /\ amount > 0

\* The fee with every fraction kept, in ten-thousandths of a credit: what
\* fee_for() rounds.
ExactFee(policy, amount) ==
    LET exact == amount * policy.bps + policy.flat * BasisPoints
    IN  IF exact < policy.minimum * BasisPoints THEN policy.minimum * BasisPoints
                                                ELSE exact
=============================================================================
