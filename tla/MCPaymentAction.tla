--------------------------- MODULE MCPaymentAction ---------------------------
(***************************************************************************)
(* Instances of PaymentAction for TLC: deliveries spread over two worker   *)
(* processes.                                                              *)
(***************************************************************************)
EXTENDS PaymentAction, TLC

CONSTANTS d1, d2, d3

TwoProcesses == [d \in Deliveries |-> IF d = d1 THEN "worker1" ELSE "worker2"]
Symmetry == Permutations({d2, d3}) \cup Permutations(Operators)
=============================================================================
