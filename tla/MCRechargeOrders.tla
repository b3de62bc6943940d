-------------------------- MODULE MCRechargeOrders --------------------------
(* Instances of RechargeOrders for TLC.                                    *)
EXTENDS RechargeOrders, TLC

AnyWorker == Permutations(Workers)

Interchangeable == AnyWorker \cup Permutations(Orders) \cup Permutations(RefundNos)
=============================================================================
