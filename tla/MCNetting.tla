------------------------------ MODULE MCNetting ------------------------------
(***************************************************************************)
(* One channel with a deposit of 4 and a fee of 1, two meter() calls that  *)
(* fit one by one and not together, two settle() calls, one dispute() and  *)
(* one open_dispute() on its transaction. A second deposit is as small as  *)
(* its fee, and refused.                                                   *)
(***************************************************************************)
EXTENDS NettingChannel, TLC

CONSTANTS buyer, provider, ch, tiny, d1, m1, m2, s1, s2, f1, w1, w2

MCAccounts == {buyer, provider}
MCTxs == {ch, tiny}
MCDisputes == {d1}
MCSender == [t \in MCTxs |-> buyer]
MCReceiver == [t \in MCTxs |-> provider]
MCDeposit == (ch :> 4) @@ (tiny :> 1)
MCPolicy == [bps |-> 2500, flat |-> 0, minimum |-> 1]
MCFee == [t \in MCTxs |-> fee_for(MCPolicy, MCDeposit[t])]
MCAmount == [t \in MCTxs |-> MCDeposit[t] - MCFee[t]]
MCOpening == (buyer :> 5) @@ (provider :> 0)
MCSplits == {2}
MCMeterCalls == {m1, m2}
MCMeterOn == [m \in MCMeterCalls |-> ch]
MCMeterAmount == (m1 :> 1) @@ (m2 :> 3)
MCOneThread == [m \in MCMeterCalls |-> w1]
MCTwoThreads == (m1 :> w1) @@ (m2 :> w2)
MCSettles == {s1, s2}
MCFreezes == {f1}
MCCloserOn == [c \in MCSettles \cup MCFreezes |-> ch]
=============================================================================
