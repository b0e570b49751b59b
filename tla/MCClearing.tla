----------------------------- MODULE MCClearing -----------------------------
(***************************************************************************)
(* Two clear() calls of one buyer who cannot pay for both at once, and two *)
(* disputes that may fall on either transaction or both on one.            *)
(***************************************************************************)
EXTENDS ClearingService, TLC

CONSTANTS buyer, provider, t1, t2, d1, d2

MCAccounts == {buyer, provider}
MCTxs == {t1, t2}
MCDisputes == {d1, d2}
MCSender == [t \in MCTxs |-> buyer]
MCReceiver == [t \in MCTxs |-> provider]
MCAmount == (t1 :> 3) @@ (t2 :> 2)
MCPolicy == (t1 :> [bps |-> 4000, flat |-> 0, minimum |-> 0])
         @@ (t2 :> [bps |-> 250, flat |-> 0, minimum |-> 1])
MCFee == [t \in MCTxs |-> fee_for(MCPolicy[t], MCAmount[t])]
MCOpening == (buyer :> 5) @@ (provider :> 0)
MCAmpleOpening == (buyer :> 9) @@ (provider :> 0)
MCSplits == {0, 2}
=============================================================================
