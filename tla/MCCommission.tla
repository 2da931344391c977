------------------------------ MODULE MCCommission ------------------------------
(***************************************************************************)
(* CommissionBook for TLC: two orders of one establishment, two workers.   *)
(* Subtotals of 30 and 3 TND against the threshold of 5: the first accrues *)
(* 5.700 and is past the threshold at once, the second accrues 0.570, and  *)
(* settling with it leaves a remainder.                                    *)
(***************************************************************************)
EXTENDS CommissionBook, TLC

KindOfSale(subtotal, control, online, delivery, held, booked) ==
  [subtotal |-> subtotal, control |-> control, online |-> online, delivery |-> delivery,
   held |-> held, booked |-> booked]

MCSale ==
  { KindOfSale(30000, "TFTW", TRUE, FALSE, FALSE, FALSE),     \* online pickup
    KindOfSale(30000, "MERCHANT", FALSE, FALSE, FALSE, FALSE),\* cash at the counter
    KindOfSale(3000, "TFTW", TRUE, TRUE, FALSE, FALSE),       \* online delivery
    KindOfSale(30000, "TFTW", FALSE, TRUE, FALSE, FALSE),     \* cash on delivery
    KindOfSale(30000, "NONE", TRUE, FALSE, TRUE, TRUE) }      \* online before the model

Symmetry == Permutations(Order) \cup Permutations(Worker)
================================================================================
