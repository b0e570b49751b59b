---------------------------- MODULE MCPurchasing ----------------------------
(***************************************************************************)
(* Two purchases from remote providers, one from a local one and one       *)
(* through the SDK. Balance and mandate refuse some combinations of them.  *)
(***************************************************************************)
EXTENDS Purchasing, TLC

CONSTANTS buyer, near, far, p1, p2, p3, p4

MCAccounts == {buyer, near, far}
MCTxs == {p1, p2, p3, p4}
MCKindOf == (p1 :> "remote") @@ (p2 :> "local") @@ (p3 :> "sdk") @@ (p4 :> "remote")
MCSender == [t \in MCTxs |-> buyer]
MCReceiver == (p1 :> far) @@ (p2 :> near) @@ (p3 :> near) @@ (p4 :> far)
MCAmount == (p1 :> 3) @@ (p2 :> 2) @@ (p3 :> 4) @@ (p4 :> 1)
MCFee == [t \in MCTxs |-> 0]
MCOpening == (buyer :> 6) @@ (near :> 0) @@ (far :> 1)
=============================================================================
