----------------------------- MODULE FeeProofs -----------------------------
(***************************************************************************)
(* The rounding of FeePolicy.fee_for() for every policy and every price:   *)
(* the sample of MCFees may be any set of policies, its prices any numbers.*)
(***************************************************************************)
EXTENDS MCFees, TLAPS

FeeInv == policy \in FeePolicies /\ price \in Nat

LEMMA PolicyType ==
    ASSUME NEW p \in FeePolicies
    PROVE  p.bps \in Nat /\ p.bps <= BasisPoints /\ p.flat \in Nat /\ p.minimum \in Nat
<1>1. p.bps \in 0..BasisPoints /\ p.flat \in Nat /\ p.minimum \in Nat
  BY DEF FeePolicies
<1>2. BasisPoints \in Nat
  BY DEF BasisPoints
<1> QED BY <1>1, <1>2

\* The proportional part is the exact share, less a fraction of a credit.
LEMMA ShareRoundsDown ==
    ASSUME NEW p \in FeePolicies, NEW n \in Nat
    PROVE  /\ n * p.bps \in Nat /\ Proportional(p, n) \in Nat
           /\ BasisPoints * Proportional(p, n) <= n * p.bps
           /\ n * p.bps < BasisPoints * Proportional(p, n) + BasisPoints
<1>1. n * p.bps \in Nat
  BY PolicyType
<1>2. \A x \in Nat : /\ x \div 10000 \in Nat
                     /\ 10000 * (x \div 10000) <= x
                     /\ x < 10000 * (x \div 10000) + 10000
  OBVIOUS
<1> QED BY <1>1, <1>2 DEF Proportional, BasisPoints

\* One credit more adds one credit at most to the proportional part, because no
\* policy takes more than the whole.
LEMMA ShareStep ==
    ASSUME NEW p \in FeePolicies, NEW n \in Nat
    PROVE  Proportional(p, n + 1) \in Proportional(p, n) .. Proportional(p, n) + 1
<1> DEFINE b == p.bps
<1>0. b \in Nat /\ b <= 10000
  BY PolicyType DEF BasisPoints
<1>1. (n + 1) * b = n * b + b
  <2> HIDE DEF b
  <2> QED BY <1>0
<1>2. \A x, y, q, r \in Nat :
         /\ x <= y /\ y <= x + 10000
         /\ 10000 * q <= x /\ x < 10000 * q + 10000
         /\ 10000 * r <= y /\ y < 10000 * r + 10000
         => r \in q .. q + 1
  OBVIOUS
<1>3. n + 1 \in Nat
  OBVIOUS
<1>4. /\ n * b \in Nat /\ Proportional(p, n) \in Nat
      /\ 10000 * Proportional(p, n) <= n * b
      /\ n * b < 10000 * Proportional(p, n) + 10000
  BY ShareRoundsDown DEF BasisPoints
<1>5. /\ (n + 1) * b \in Nat /\ Proportional(p, n + 1) \in Nat
      /\ 10000 * Proportional(p, n + 1) <= (n + 1) * b
      /\ (n + 1) * b < 10000 * Proportional(p, n + 1) + 10000
  BY <1>3, ShareRoundsDown DEF BasisPoints
<1> HIDE DEF b
<1>6. n * b <= (n + 1) * b /\ (n + 1) * b <= n * b + 10000
  BY <1>0, <1>1, <1>4
<1> QED BY <1>2, <1>4, <1>5, <1>6

LEMMA FeeStep ==
    ASSUME NEW p \in FeePolicies, NEW n \in Nat
    PROVE  /\ fee_for(p, n) \in Nat
           /\ fee_for(p, n + 1) \in fee_for(p, n) .. fee_for(p, n) + 1
<1>1. Proportional(p, n) \in Nat
  BY ShareRoundsDown
<1> QED BY <1>1, ShareStep, PolicyType DEF fee_for

LEMMA AlwaysFeeInv == Spec => []FeeInv
<1>1. Init => FeeInv
  <2> SUFFICES ASSUME Init PROVE FeeInv
    OBVIOUS
  <2>1. policy \in FeePolicies
    BY SampleParameters DEF Init, FeePolicies
  <2> QED BY <2>1 DEF Init, FeeInv
<1>2. FeeInv /\ [Raise]_vars => FeeInv'
  BY DEF FeeInv, Raise, vars
<1> QED BY <1>1, <1>2, PTL DEF Spec
-----------------------------------------------------------------------------
\* fee_for() rounds the exact fee down to a whole credit and loses less than
\* one, under every policy and at every price, minimum and flat part included.
THEOREM FeesRoundDown == Spec => []FeeRoundsDown
<1>1. FeeInv => FeeRoundsDown
  <2> SUFFICES ASSUME FeeInv PROVE FeeRoundsDown
    OBVIOUS
  <2> DEFINE share == Proportional(policy, price)
             exact == price * policy.bps
  <2>1. /\ share \in Nat /\ exact \in Nat
        /\ 10000 * share <= exact /\ exact < 10000 * share + 10000
    BY ShareRoundsDown DEF FeeInv, BasisPoints
  <2>2. policy.flat \in Nat /\ policy.minimum \in Nat
    BY PolicyType DEF FeeInv
  <2>3. fee_for(policy, price) = IF share + policy.flat < policy.minimum
                                 THEN policy.minimum ELSE share + policy.flat
    BY DEF fee_for
  <2>4. ExactFee(policy, price) =
           IF exact + policy.flat * 10000 < policy.minimum * 10000
           THEN policy.minimum * 10000 ELSE exact + policy.flat * 10000
    BY DEF ExactFee, BasisPoints
  <2> HIDE DEF share, exact
  <2> QED BY <2>1, <2>2, <2>3, <2>4 DEF FeeRoundsDown, BasisPoints
<1> QED BY <1>1, AlwaysFeeInv, PTL

\* A dearer task never costs a smaller fee, under any policy.
THEOREM FeesNeverFall == Spec => FeeNeverFalls
<1>1. FeeInv /\ [Raise]_vars
        => [fee_for(policy, price') >= fee_for(policy, price)]_vars
  BY FeeStep DEF FeeInv, Raise, vars
<1> QED BY <1>1, AlwaysFeeInv, PTL DEF Spec, FeeNeverFalls

\* A price that carries its fee is never below one that does not: a credit more
\* of price adds a credit at most to the fee.
THEOREM AcceptanceGoesUpward == Spec => AcceptanceIsUpward
<1>1. FeeInv /\ [Raise]_vars
        => [price > 0 /\ ~FeeRefused(policy, price) => ~FeeRefused(policy, price')]_vars
  BY FeeStep DEF FeeInv, Raise, vars, FeeRefused
<1> QED BY <1>1, AlwaysFeeInv, PTL DEF Spec, AcceptanceIsUpward
=============================================================================
