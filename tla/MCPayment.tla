------------------------------- MODULE MCPayment -------------------------------
(***************************************************************************)
(* OnlinePayment for TLC. References are interchangeable, orders as well.  *)
(***************************************************************************)
EXTENDS OnlinePayment, TLC

Symmetry == Permutations(Ref) \cup Permutations(Order)
================================================================================
