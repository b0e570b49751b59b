----------------------------- MODULE MCHosting -----------------------------
(***************************************************************************)
(* Two clear() calls of a buyer who can pay for both, one dispute that may *)
(* fall on either, and one restart of the gateway.                         *)
(***************************************************************************)
EXTENDS Hosting, TLC

CONSTANTS buyer, provider, t1, t2, d1

MCAccounts == {buyer, provider}
MCTxs == {t1, t2}
MCSender == [t \in MCTxs |-> buyer]
MCReceiver == [t \in MCTxs |-> provider]
MCAmount == (t1 :> 3) @@ (t2 :> 2)
MCPolicy == [t \in MCTxs |-> [bps |-> 250, flat |-> 0, minimum |-> 1]]
MCFee == [t \in MCTxs |-> fee_for(MCPolicy[t], MCAmount[t])]
MCOpening == (buyer :> 8) @@ (provider :> 0)
=============================================================================
