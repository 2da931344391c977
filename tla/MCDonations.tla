---------------------------- MODULE MCDonations ----------------------------
(* Two orders, one of them booked at payment time: each funds a goal, and
   when both reach one pool their overflow funds the next one outright. *)
EXTENDS Donations, TLC

CONSTANTS o1, o2

WorkerSymmetry == Permutations(Worker)

Amounts == (o1 :> 2) @@ (o2 :> 3)
=============================================================================
