----------------------------- MODULE CommissionBook -----------------------------
(***************************************************************************)
(* One establishment's commission balance, its append-only ledger and the  *)
(* platform's own revenue rows, moved by API workers that run MongoDB      *)
(* transactions side by side: pickup confirmation, a driver's pickup, a    *)
(* failed delivery and its later recovery, and the refunds.                *)
(*                                                                         *)
(* A transaction reads a snapshot, then writes. A document it writes that  *)
(* another transaction has changed since the snapshot is a write conflict, *)
(* and withTransaction runs the callback again. The model keeps the        *)
(* snapshot, and with it every order of reading and committing; it applies *)
(* the writes of one transaction in one step, its commit.                  *)
(***************************************************************************)
EXTENDS CommissionRules, FiniteSets

CONSTANTS Order, Worker,
          Sale        \* the kinds of order that exist

\* online: paymentProvider is konnect. held: a Payment document in HELD.
\* booked: paid before the model, NET_COMMISSION booked at payment time.
SaleType ==
  [subtotal : Nat, control : Control, online : BOOLEAN, delivery : BOOLEAN,
   held : BOOLEAN, booked : BOOLEAN]

ASSUME SaleAssumption == Sale \subseteq SaleType

VARIABLES sale,      \* Order -> Sale, fixed when the order is created
          order,     \* Order -> the fields of the order document used here
          due,       \* Establishment.commissionDue
          ledger,    \* commission_ledger of the establishment, in commit order
          revenue,   \* platform_transactions
          v2,        \* the clock has reached COMMISSION_MODEL_EFFECTIVE_AT
          txn        \* Worker -> the call it is serving

vars == <<sale, order, due, ledger, revenue, v2, txn>>

\* OPEN stands for every status in which the food is still with the merchant
\* (RESERVED, READY_FOR_PICKUP, CONFIRMED, DRIVER_ASSIGNED); COMPLETED for
\* PICKED_UP, COMPLETED and DELIVERED.
Status == {"OPEN", "OUT_FOR_DELIVERY", "COMPLETED", "CANCELLED", "REFUNDED"}
Pay == {"PENDING", "PAID", "REFUND_PENDING", "REFUNDED"}
Recovery == {"NONE", "RECOVERABLE_PENDING", "RETURNED_TO_MERCHANT", "UNRECOVERABLE"}

OrderDoc ==
  [status : Status, pay : Pay, recovery : Recovery, refundRequested : BOOLEAN,
   commission : Outcome \cup {NoDecision}]
Row == [order : Order, type : RowType, amount : Nat, delta : Int, after : Int]
Revenue == [order : Order, type : RevenueType, amount : Int]

Op == {"confirm", "deliver", "fail", "resolve", "refund", "refundOffline", "cancel"}
Snapshot == [due : Int, order : OrderDoc, rows : SUBSET Row, v2 : BOOLEAN]

Idle == [phase |-> "idle"]
Called == [phase : {"called"}, op : Op, order : Order, recovery : Recovery]
Open == [phase : {"open"}, op : Op, order : Order, recovery : Recovery, seen : Snapshot,
         orderStale : BOOLEAN, dueStale : BOOLEAN]

TypeOK ==
  /\ sale \in [Order -> Sale]
  /\ order \in [Order -> OrderDoc]
  /\ due \in Int
  /\ ledger \in Seq(Row)
  /\ revenue \in SUBSET Revenue
  /\ v2 \in BOOLEAN
  /\ txn \in [Worker -> {Idle} \cup Called \cup Open]

RowsOf(o) == {ledger[i] : i \in {j \in DOMAIN ledger : ledger[j].order = o}}

BookedAtPayment(o) ==
  {r \in {[order |-> o, type |-> "NET", amount |-> PlatformShare(sale[o].subtotal)]} :
     sale[o].booked /\ r.amount > 0}

Init ==
  /\ sale \in [Order -> Sale]
  /\ order = [o \in Order |->
                [status |-> "OPEN", pay |-> IF sale[o].online THEN "PAID" ELSE "PENDING",
                 recovery |-> "NONE", refundRequested |-> FALSE, commission |-> NoDecision]]
  /\ due = 0
  /\ ledger = <<>>
  /\ revenue = UNION {BookedAtPayment(o) : o \in Order}
  /\ v2 \in BOOLEAN
  /\ txn = [w \in Worker |-> Idle]

--------------------------------------------------------------------------------
(* CommissionService, inside the caller's transaction t, which has already  *)
(* turned the order document into doc. An effect is what the transaction    *)
(* will have written when it commits.                                       *)

NoMovement(t, doc) == [order |-> doc, rows |-> <<>>, due |-> t.seen.due, revenue |-> {}]

\* Before the cutoff only a HELD online pickup is decided, by the old engine;
\* from the cutoff on every sale whose control was recorded.
Governed(t) ==
  IF t.seen.v2 THEN sale[t.order].control # "NONE"
  ELSE sale[t.order].held /\ ~sale[t.order].delivery

ApplyForOrder(t, doc) ==
  LET s == sale[t.order]
      out == IF t.seen.v2 THEN DecideV2(s.subtotal, t.seen.due, s.control)
             ELSE DecideLegacy(s.subtotal, t.seen.due)
  IN  IF DecisionRows(t.seen.rows) # {} \/ ~Governed(t)
      THEN NoMovement(t, doc)
      ELSE [order |-> IF doc.commission = NoDecision THEN [doc EXCEPT !.commission = out] ELSE doc,
            rows |-> LedgerRows(t.order, out),
            due |-> out.dueAfter,
            revenue |-> RevenueRows(t.order, out, s.booked)]

ReverseForOrder(t, doc) ==
  IF DecisionRows(t.seen.rows) = {}
  THEN NoMovement(t, doc)
  ELSE LET row == ReversalRow(t.order, t.seen.rows, t.seen.due)
       IN  [order |-> doc, rows |-> <<row>>, due |-> row.after,
            revenue |-> RevenueReversal(revenue, t.order, {"EARNED", "SETTLED"})]

\* processRefundRequest: the unique refund request of the order, and the
\* reversal of what was booked at payment time.
WithRefundRequest(t, effect) ==
  [order |-> [effect.order EXCEPT !.refundRequested = TRUE],
   rows |-> effect.rows, due |-> effect.due,
   revenue |-> effect.revenue \cup RevenueReversal(revenue, t.order, {"NET"})]

--------------------------------------------------------------------------------
(* A worker's call. What the handler reads before it opens its transaction  *)
(* is the guard of Call: it may no longer hold when the transaction begins. *)

Readable(o, op) ==
  LET doc == order[o] IN
  CASE op = "confirm"       -> doc.status = "OPEN"
    [] op \in {"deliver", "fail"} -> doc.status = "OUT_FOR_DELIVERY"
    [] op = "resolve"       -> doc.recovery = "RECOVERABLE_PENDING"
    [] op = "refund"        -> sale[o].online /\ doc.pay = "PAID" /\ ~doc.refundRequested
    [] op = "refundOffline" -> ~sale[o].online /\ doc.status = "COMPLETED"
    [] op = "cancel"        -> /\ sale[o].online /\ doc.pay = "PAID"
                               /\ doc.status \notin {"COMPLETED", "CANCELLED"}

Recoveries(op) ==
  CASE op = "fail"    -> Recovery \ {"NONE"}
    [] op = "resolve" -> {"RETURNED_TO_MERCHANT", "UNRECOVERABLE"}
    [] OTHER          -> {"NONE"}

Call(w, o, op) ==
  /\ txn[w] = Idle
  /\ Readable(o, op)
  /\ \E recovery \in Recoveries(op) :
       txn' = [txn EXCEPT ![w] = [phase |-> "called", op |-> op, order |-> o,
                                  recovery |-> recovery]]
  /\ UNCHANGED <<sale, order, due, ledger, revenue, v2>>

Opened(t) ==
  [phase |-> "open", op |-> t.op, order |-> t.order, recovery |-> t.recovery,
   seen |-> [due |-> due, order |-> order[t.order], rows |-> RowsOf(t.order), v2 |-> v2],
   orderStale |-> FALSE, dueStale |-> FALSE]

\* The first read of the transaction fixes its snapshot.
Begin(w) ==
  /\ txn[w].phase = "called"
  /\ txn' = [txn EXCEPT ![w] = Opened(txn[w])]
  /\ UNCHANGED <<sale, order, due, ledger, revenue, v2>>

\* The status filter of the operation's claim, on the snapshot. The online
\* refund and the cancellation claim nothing: they write whatever they find,
\* and only the unique refund request stops a second one.
Claims(t) ==
  CASE t.op = "confirm"       -> t.seen.order.status = "OPEN"
    [] t.op \in {"deliver", "fail"} -> t.seen.order.status = "OUT_FOR_DELIVERY"
    [] t.op = "resolve"       -> t.seen.order.recovery = "RECOVERABLE_PENDING"
    [] t.op = "refundOffline" -> t.seen.order.status = "COMPLETED"
    [] t.op \in {"refund", "cancel"} -> ~t.seen.order.refundRequested

Effect(t) ==
  LET s == sale[t.order]
      doc == t.seen.order
      returned == t.recovery = "RETURNED_TO_MERCHANT"
  IN
  CASE t.op = "confirm" ->
         ApplyForOrder(t, [doc EXCEPT
           !.status = IF s.delivery THEN "OUT_FOR_DELIVERY" ELSE "COMPLETED",
           !.pay = IF s.online \/ s.delivery THEN @ ELSE "PAID"])
    [] t.op = "deliver" -> NoMovement(t, [doc EXCEPT !.status = "COMPLETED"])
    [] t.op = "fail" ->
         LET failed == [doc EXCEPT !.status = "CANCELLED", !.recovery = t.recovery]
         IN  IF returned THEN ReverseForOrder(t, failed) ELSE NoMovement(t, failed)
    [] t.op = "resolve" ->
         LET resolved == [doc EXCEPT !.recovery = t.recovery]
         IN  IF returned THEN ReverseForOrder(t, resolved) ELSE NoMovement(t, resolved)
    [] t.op = "refund" ->
         WithRefundRequest(t, ReverseForOrder(t,
           [doc EXCEPT !.status = "REFUNDED", !.pay = "REFUND_PENDING"]))
    [] t.op = "refundOffline" ->
         ReverseForOrder(t, [doc EXCEPT !.status = "REFUNDED", !.pay = "REFUNDED"])
    [] t.op = "cancel" ->
         WithRefundRequest(t, NoMovement(t,
           [doc EXCEPT !.status = "CANCELLED", !.pay = "REFUND_PENDING"]))

\* Mutations: the establishment, or the order, written without the session.
ConflictOnOrder(t) == t.orderStale
ConflictOnBalance(t) == t.dueStale /\ Effect(t).rows # <<>>

\* Every operation writes the order; the establishment is written with the
\* ledger rows or not at all.
Conflict(t) == t.orderStale \/ (t.dueStale /\ Effect(t).rows # <<>>)

\* The unique (orderId, type) index of the ledger.
DuplicateKey(t) ==
  \E i \in DOMAIN Effect(t).rows : \E r \in RowsOf(t.order) : r.type = Effect(t).rows[i].type

\* The other open transactions read these documents before they changed.
StaleAfter(v, t) ==
  [txn[v] EXCEPT !.orderStale = @ \/ txn[v].order = t.order,
                 !.dueStale = @ \/ Effect(t).rows # <<>>]

Commit(w) ==
  LET t == txn[w]
      e == Effect(t)
  IN  /\ ~Conflict(t)
      /\ ~DuplicateKey(t)
      /\ order' = [order EXCEPT ![t.order] = e.order]
      /\ due' = IF e.rows = <<>> THEN due ELSE e.due
      /\ ledger' = ledger \o e.rows
      /\ revenue' = revenue \cup e.revenue
      /\ txn' = [v \in Worker |->
                   IF v = w THEN Idle
                   ELSE IF txn[v].phase = "open" THEN StaleAfter(v, t)
                   ELSE txn[v]]
      /\ UNCHANGED <<sale, v2>>

Serves(w, op) == txn[w].phase = "open" /\ txn[w].op = op /\ Claims(txn[w])

\* confirmPickup on a pickup order, onMerchantPickup on a delivery.
ConfirmPickup(w) == Serves(w, "confirm") /\ Commit(w)

\* onDelivered
Deliver(w) == Serves(w, "deliver") /\ Commit(w)

\* onFailed
FailDelivery(w) == Serves(w, "fail") /\ Commit(w)

\* resolveFailedRecovery
ResolveRecovery(w) == Serves(w, "resolve") /\ Commit(w)

\* adminIssueRefund, and recordOfflineRefund for an order paid in cash
IssueRefund(w) == Serves(w, "refund") /\ Commit(w)
RecordOfflineRefund(w) == Serves(w, "refundOffline") /\ Commit(w)

\* cancel(), its branch for an order paid online
CancelPaid(w) == Serves(w, "cancel") /\ Commit(w)

\* withTransaction runs the callback again on a write conflict.
Retry(w) ==
  /\ txn[w].phase = "open" /\ Claims(txn[w]) /\ Conflict(txn[w])
  /\ txn' = [txn EXCEPT ![w] = Opened(txn[w])]
  /\ UNCHANGED <<sale, order, due, ledger, revenue, v2>>

\* A claim that matched nothing, or a duplicate key, is thrown to the caller
\* and nothing is written.
Refuse(w) ==
  /\ txn[w].phase = "open"
  /\ ~Claims(txn[w]) \/ (~Conflict(txn[w]) /\ DuplicateKey(txn[w]))
  /\ txn' = [txn EXCEPT ![w] = Idle]
  /\ UNCHANGED <<sale, order, due, ledger, revenue, v2>>

\* The clock reaches COMMISSION_MODEL_EFFECTIVE_AT.
CutoffReached ==
  /\ ~v2
  /\ v2' = TRUE
  /\ UNCHANGED <<sale, order, due, ledger, revenue, txn>>

Step(w) ==
  \/ Begin(w)
  \/ ConfirmPickup(w) \/ Deliver(w) \/ FailDelivery(w) \/ ResolveRecovery(w)
  \/ IssueRefund(w) \/ RecordOfflineRefund(w) \/ CancelPaid(w)
  \/ Retry(w) \/ Refuse(w)

Next ==
  \/ \E w \in Worker : Step(w)
  \/ \E w \in Worker, o \in Order, op \in Op : Call(w, o, op)
  \/ CutoffReached

Spec == Init /\ [][Next]_vars

--------------------------------------------------------------------------------
(* Properties.                                                              *)

Before(i) == IF i = 1 THEN 0 ELSE ledger[i - 1].after

\* The ledger replays to the balance: each row starts where the row before it
\* ended and moves the balance by its signed delta, and the last row ends at
\* commissionDue. An accrual lost to a concurrent confirmation breaks it.
LedgerReplays ==
  /\ \A i \in DOMAIN ledger : ledger[i].after = Before(i) + ledger[i].delta
  /\ due = IF ledger = <<>> THEN 0 ELSE ledger[Len(ledger)].after

\* An order's frozen decision is the one its ledger rows were written for, and
\* it is there exactly when they are: a second worker or a retry neither adds
\* rows for an order that has a decision nor replaces the decision.
DecisionMatchesLedger ==
  \A o \in Order :
    LET rows == RowsOf(o)
        c == order[o].commission
    IN  /\ (c = NoDecision) <=> (DecisionRows(rows) = {})
        /\ AmountOf(rows, "ACCRUAL") = c.accrued
        /\ AmountOf(rows, "SETTLEMENT") = c.settled
        /\ \A i, j \in DOMAIN ledger :
             ledger[i].order = o /\ ledger[j].order = o /\ ledger[i].type = ledger[j].type => i = j
        /\ c # NoDecision => c.merchantAmount + c.settled = sale[o].subtotal

\* Only a sale TFTW is paid for gives up part of its price, and under the new
\* model only when the balance the ledger stood at had reached the threshold;
\* it never gives up more than was owed. A decision taken on a balance that a
\* concurrent confirmation had already settled breaks it.
SettlementIsEarned ==
  \A i \in DOMAIN ledger :
    LET o == ledger[i].order IN
    ledger[i].type = "SETTLEMENT" =>
      /\ ledger[i].amount <= Before(i)
      /\ order[o].commission.model = "V2" => sale[o].control = "TFTW" /\ Before(i) >= Threshold

\* A refunded sale, and a failed delivery whose food went back to the
\* merchant, leave neither commission nor platform revenue behind, whenever
\* the decision was taken and whatever was refunded in between.
NetDelta(o) ==
  AmountOf(RowsOf(o), "ACCRUAL") - AmountOf(RowsOf(o), "SETTLEMENT")
    + LET reversals == {r \in RowsOf(o) : r.type = "REVERSAL"}
      IN  IF reversals = {} THEN 0 ELSE (CHOOSE r \in reversals : TRUE).delta

Undone(o) == order[o].status = "REFUNDED" \/ order[o].recovery = "RETURNED_TO_MERCHANT"

UndoneSaleOwesNothing ==
  \A o \in Order : Undone(o) =>
    /\ NetDelta(o) = 0
    /\ \A r \in revenue : r.order = o /\ r.type # "NET" => Negated(r) \in revenue

\* What the platform booked as earned and as collected is what the ledger says
\* of the same order, reversals included, unless it was booked at payment.
RevenueMatchesLedger ==
  \A o \in Order :
    LET booked(type) == {r.amount : r \in {s \in revenue : s.order = o /\ s.type = type}}
        rows == RowsOf(o)
        reversed == \E r \in rows : r.type = "REVERSAL"
        expected(n) == IF sale[o].booked \/ n = 0 THEN {}
                       ELSE IF reversed THEN {n, -n} ELSE {n}
    IN  /\ booked("EARNED") = expected(AmountOf(rows, "ACCRUAL"))
        /\ booked("SETTLED") = expected(AmountOf(rows, "SETTLEMENT"))
================================================================================
