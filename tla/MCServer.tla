------------------------------ MODULE MCServer ------------------------------
(***************************************************************************)
(* A submission, its retry under the same key with a new task id, and      *)
(* another request that reuses the key and the first task id; two quotes,  *)
(* two threads and one restart. The buyer cannot pay for everything.       *)
(***************************************************************************)
EXTENDS ReferenceServer, TLC

CONSTANTS buyer, provider, c1, c2, c3, q1, q2, k1, r1, r2, i1, i2

MCAccounts == {buyer, provider}
MCTxs == {c1, c2, c3}
MCSender == [c \in MCTxs |-> buyer]
MCReceiver == [c \in MCTxs |-> provider]
MCQuoteOf == (c1 :> q1) @@ (c2 :> q1) @@ (c3 :> q2)
MCTaskOf == (c1 :> i1) @@ (c2 :> i2) @@ (c3 :> i1)
MCKeyOf == (c1 :> k1) @@ (c2 :> k1) @@ (c3 :> k1)
MCRequestOf == (c1 :> r1) @@ (c2 :> r1) @@ (c3 :> r2)
MCAmount == (c1 :> 3) @@ (c2 :> 3) @@ (c3 :> 5)
MCFee == [c \in MCTxs |-> platform_fee(MCAmount[c])]
MCOpening == (buyer :> 9) @@ (provider :> 0)
=============================================================================
