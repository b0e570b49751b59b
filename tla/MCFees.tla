------------------------------- MODULE MCFees -------------------------------
(***************************************************************************)
(* Walks the price up one credit at a time under every policy of a sample, *)
(* so that properties relate the fees of two neighbouring prices.          *)
(***************************************************************************)
EXTENDS FeeEngine

CONSTANTS MaxPrice, SampleBps, SampleFlat, SampleMinimum

\* The sample is of policies that __post_init__ accepts.
ASSUME SampleParameters ==
    /\ SampleBps \subseteq 0..BasisPoints
    /\ SampleFlat \subseteq Nat /\ SampleMinimum \subseteq Nat

VARIABLES policy, price

vars == <<policy, price>>

Init ==
    /\ policy \in [bps : SampleBps, flat : SampleFlat, minimum : SampleMinimum]
    /\ price = 0

Raise ==
    /\ price < MaxPrice
    /\ price' = price + 1
    /\ UNCHANGED policy

Spec == Init /\ [][Raise]_vars
-----------------------------------------------------------------------------
\* The fee is the exact fee rounded down, as FeePolicy's docstring describes it
\* ("integer credits round down, then floor"), for minimum, flat and bps alike.
FeeRoundsDown ==
    LET fee == fee_for(policy, price) * BasisPoints
        exact == ExactFee(policy, price)
    IN  fee <= exact /\ exact < fee + BasisPoints

\* A dearer task never costs a smaller fee, across the minimum as well.
FeeNeverFalls ==
    [][fee_for(policy, price') >= fee_for(policy, price)]_vars

\* Once a price is high enough to carry its fee, every higher price is: no
\* rounding step makes fee_for() refuse a dearer task than one it accepted.
AcceptanceIsUpward ==
    [][price > 0 /\ ~FeeRefused(policy, price) => ~FeeRefused(policy, price')]_vars
=============================================================================
