------------------------------ MODULE MCDriverCash ------------------------------
(***************************************************************************)
(* DriverCash for TLC: one order paid online and one paid at the door,      *)
(* food for 3, a fee of 2 of which the driver keeps 1.                      *)
(***************************************************************************)
EXTENDS DriverCash, TLC

MCDelivery ==
  {[subtotal |-> 3, fee |-> 2, keeps |-> 1, online |-> online] : online \in BOOLEAN}
MCCounted == {-4, 1, 4}

Symmetry == Permutations(Order) \cup Permutations(Admin)
================================================================================
