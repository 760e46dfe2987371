------------------------------ MODULE MCOrders ------------------------------
(* Instances of Orders for TLC.                                               *)
EXTENDS Orders, TLC

\* Order identities are interchangeable; used where only safety is checked.
Symmetric == Permutations(Orders)

=============================================================================
