---------------------------- MODULE CommissionRules ----------------------------
(***************************************************************************)
(* The commission rule of the platform as arithmetic on millimes (TND is    *)
(* quoted to three decimals, so 5.000 TND is 5000), and the rows it writes. *)
(* Nothing here has state: CommissionBook runs these operators inside the   *)
(* transactions that call CommissionService.                               *)
(*                                                                         *)
(* A sale is NORMAL (the merchant is paid in full and owes 19% more) or a   *)
(* SETTLEMENT (the sale pays back part of what the merchant owes).          *)
(***************************************************************************)
EXTENDS Integers, Sequences

CONSTANT Threshold   \* SETTLEMENT_THRESHOLD, in millimes

ASSUME ThresholdAssumption == Threshold \in Nat \ {0}

Control == {"TFTW", "MERCHANT", "NONE"}   \* order.paymentControl.controlledBy; NONE is undefined

Least(a, b) == IF a <= b THEN a ELSE b

\* round(subtotal * PLATFORM_FOOD_SHARE): 19%, to the nearest millime. (A tie
\* of half a millime falls where the double falls; the inputs chosen for TLC
\* have no tie, and the proofs use no more than what holds either way.)
PlatformShare(subtotal) == (19 * subtotal + 50) \div 100

--------------------------------------------------------------------------------
(* The two engines.                                                         *)

\* Mutation: a sale is settled whoever was paid for it.
DecideV2AnyControl(subtotal, due, controlledBy) ==
  LET settles == due >= Threshold /\ subtotal > 0
      accrued == IF settles THEN 0 ELSE PlatformShare(subtotal)
      settled == IF settles THEN Least(due, subtotal) ELSE 0
  IN  [model |-> "V2", kind |-> IF settles THEN "SETTLEMENT" ELSE "NORMAL",
       accrued |-> accrued, settled |-> settled, merchantAmount |-> subtotal - settled,
       dueBefore |-> due, dueAfter |-> due + accrued - settled]

\* decideCommission: a settlement needs a TFTW-controlled payment, a balance
\* that had reached the threshold before this sale, and something to take.
DecideV2(subtotal, due, controlledBy) ==
  LET settles == controlledBy = "TFTW" /\ due >= Threshold /\ subtotal > 0
      accrued == IF settles THEN 0 ELSE PlatformShare(subtotal)
      settled == IF settles THEN Least(due, subtotal) ELSE 0
  IN  [model |-> "V2", kind |-> IF settles THEN "SETTLEMENT" ELSE "NORMAL",
       accrued |-> accrued, settled |-> settled, merchantAmount |-> subtotal - settled,
       dueBefore |-> due, dueAfter |-> due + accrued - settled]

\* calculateCommissionSettlement, through decideLegacy: every sale accrues, and
\* the balance after the accrual is what reaches the threshold.
DecideLegacy(subtotal, due) ==
  LET accrued == PlatformShare(subtotal)
      balance == due + accrued
      settled == IF balance >= Threshold THEN Least(balance, subtotal) ELSE 0
  IN  [model |-> "LEGACY", kind |-> IF settled > 0 THEN "SETTLEMENT" ELSE "NORMAL",
       accrued |-> accrued, settled |-> settled, merchantAmount |-> subtotal - settled,
       dueBefore |-> due, dueAfter |-> balance - settled]

Outcome ==
  [model : {"V2", "LEGACY"}, kind : {"NORMAL", "SETTLEMENT"}, accrued : Nat, settled : Nat,
   merchantAmount : Nat, dueBefore : Int, dueAfter : Int]

NoDecision ==
  [model |-> "NONE", kind |-> "NONE", accrued |-> 0, settled |-> 0,
   merchantAmount |-> 0, dueBefore |-> 0, dueAfter |-> 0]

--------------------------------------------------------------------------------
(* The rows of commission_ledger, and TFTW's own platform_transactions.     *)

RowType == {"ACCRUAL", "SETTLEMENT", "REVERSAL"}
RevenueType == {"EARNED", "SETTLED", "NET"}

\* writeLedgerRows: V2 writes one row, LEGACY the accrual even when the
\* settlement takes it straight back out.
LedgerRows(o, out) ==
  LET accrual == [order |-> o, type |-> "ACCRUAL", amount |-> out.accrued,
                  delta |-> out.accrued, after |-> out.dueBefore + out.accrued]
      settlement == [order |-> o, type |-> "SETTLEMENT", amount |-> out.settled,
                     delta |-> -out.settled, after |-> out.dueAfter]
      accrues == out.model = "LEGACY" \/ out.kind = "NORMAL"
  IN  IF accrues /\ out.settled > 0 THEN <<accrual, settlement>>
      ELSE IF accrues THEN <<accrual>>
      ELSE IF out.settled > 0 THEN <<settlement>>
      ELSE <<>>

\* Either row type marks an order as applied.
DecisionRows(rows) == {r \in rows : r.type \in {"ACCRUAL", "SETTLEMENT"}}

\* The unique (orderId, type) index leaves at most one row of a type, so the
\* sum reverseForOrder reduces over is that row's amount.
AmountOf(rows, type) ==
  IF \E r \in rows : r.type = type THEN (CHOOSE r \in rows : r.type = type).amount ELSE 0

\* Mutation: the accrual is undone and the settlement is not given back.
ReversalDeltaOfAccrual(rows) == -AmountOf(rows, "ACCRUAL")

\* commissionReversalDelta for a whole refund, the only ratio a caller passes.
ReversalDelta(rows) == AmountOf(rows, "SETTLEMENT") - AmountOf(rows, "ACCRUAL")

\* Mutation: the amount of a row keeps its sign.
SignedMagnitude(n) == n

Magnitude(n) == IF n < 0 THEN -n ELSE n

ReversalRow(o, rows, due) ==
  [order |-> o, type |-> "REVERSAL", amount |-> Magnitude(ReversalDelta(rows)),
   delta |-> ReversalDelta(rows), after |-> due + ReversalDelta(rows)]

\* Mutation: the rows booked at payment time are not looked for.
RevenueRowsAgain(o, out, booked) ==
  {r \in {[order |-> o, type |-> "EARNED", amount |-> out.accrued],
          [order |-> o, type |-> "SETTLED", amount |-> out.settled]} : r.amount > 0}

\* bookPlatformRevenue: a sale booked when it was paid (NET_COMMISSION, before
\* the model existed) is not booked a second time.
RevenueRows(o, out, booked) ==
  IF booked THEN {}
  ELSE {r \in {[order |-> o, type |-> "EARNED", amount |-> out.accrued],
               [order |-> o, type |-> "SETTLED", amount |-> out.settled]} : r.amount > 0}

Negated(r) == [r EXCEPT !.amount = -@]

\* reversePlatformRevenue negates exactly what bookPlatformRevenue wrote;
\* reverseLegacyPaymentBookings does the same for the rows booked at payment.
RevenueReversal(revenue, o, types) ==
  {Negated(r) : r \in {s \in revenue : s.order = o /\ s.type \in types /\ s.amount > 0}}
================================================================================
