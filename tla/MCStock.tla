-------------------------------- MODULE MCStock --------------------------------
(***************************************************************************)
(* OfferStock for TLC: orders and requests may be exchanged. The offers    *)
(* are one bag in an unlimited slot, with and without a later activation,  *)
(* and two bags in a slot that takes one order.                            *)
(***************************************************************************)
EXTENDS OfferStock, TLC

MCPublished ==
  {[total |-> 1, max |-> NoLimit, again |-> TRUE], [total |-> 2, max |-> 1, again |-> FALSE]}

MCLastBag == {[total |-> 1, max |-> NoLimit, again |-> FALSE]}

Symmetry == Permutations(Order) \cup Permutations(Request)
================================================================================
