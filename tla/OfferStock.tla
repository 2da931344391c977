------------------------------ MODULE OfferStock ------------------------------
(***************************************************************************)
(* The stock of one offer: the counters of its document, the orders of one *)
(* bag each that reserve from it in one pickup slot, and every handler     *)
(* that moves the counters or writes an order's status.                    *)
(*                                                                         *)
(* A handler that works in a MongoDB transaction reads its order before    *)
(* the transaction and writes it by id inside; one that does not stops     *)
(* between any two writes. One that dies there takes no further step.      *)
(***************************************************************************)
EXTENDS Integers, FiniteSets

CONSTANTS Order, Request,
          Published,               \* offers as published: total, maxOrders of the slot, and
                                   \* whether it will be reactivated
          NoLimit,                 \* a slot without maxOrders
          MaxGone                  \* bound of the model

ASSUME OfferAssumption ==
  \A doc \in Published :
    doc.total \in Nat \ {0} /\ doc.max \in 1..doc.total \cup {NoLimit} /\ doc.again \in BOOLEAN
ASSUME LimitAssumption == NoLimit \notin Nat
ASSUME BoundAssumption == MaxGone \in Nat

VARIABLES offer,     \* totalQuantity, reservedQuantity, soldQuantity, status, currentOrders
          kind,      \* Order -> a pickup paid in cash or online, or a cash delivery
          order,     \* Order -> its status and paymentStatus
          sale,      \* orders whose payment has been settled
          process,   \* Request -> the handler it is running
          gone,      \* Order -> how often its bag was taken out of reservedQuantity
          handed     \* orders handed over since the offer was (re)activated

vars == <<offer, kind, order, sale, process, gone, handed>>
history == <<gone, handed>>

Kind == {"cash", "online", "delivery"}
Status == {"none", "PENDING_PAYMENT", "RESERVED", "CONFIRMED", "DONE",
           "CANCELLED", "EXPIRED", "REFUNDED"}
Pay == {"UNPAID", "PAID", "REFUND_PENDING", "REFUNDED"}   \* UNPAID: PENDING or FAILED
Live == {"PENDING_PAYMENT", "RESERVED", "CONFIRMED"}
Terminal == {"DONE", "CANCELLED", "EXPIRED"}

Total == {doc.total : doc \in Published}

Offer == [total : Total, max : Nat \cup {NoLimit}, again : BOOLEAN, reserved : Int, sold : Int,
          status : {"ACTIVE", "SOLD_OUT"}, slot : Nat]

Fresh(doc) == [total |-> doc.total, max |-> doc.max, again |-> doc.again, reserved |-> 0, sold |-> 0,
               status |-> "ACTIVE", slot |-> 0]
Flag == {"ACTIVE", "SOLD_OUT", "keep"}
Idle == [pc |-> "idle"]

TypeOK ==
  /\ offer \in Offer
  /\ kind \in [Order -> Kind]
  /\ order \in [Order -> [status : Status, pay : Pay]]
  /\ sale \subseteq Order /\ handed \subseteq Order
  /\ gone \in [Order -> 0..(MaxGone + 1)]
  /\ process \in [Request ->
       {Idle} \cup [pc : {"create"}, order : Order, doc : Offer]
              \cup [pc : {"cancelUnpaid", "cancelPaid", "payExpire", "settle",
                          "expireStock", "expireStatus"}, order : Order]
              \cup [pc : {"cancel"}, order : Order, left : SUBSET {"status", "stock"}, flag : Flag]
              \cup [pc : {"expireFlag"}, order : Order, flag : Flag]
              \cup [pc : {"write", "refund"}, order : Order, target : Status]]

Init ==
  /\ offer \in {Fresh(doc) : doc \in Published}
  /\ kind \in [Order -> Kind]
  /\ order = [o \in Order |-> [status |-> "none", pay |-> "UNPAID"]]
  /\ sale = {} /\ handed = {}
  /\ gone = [o \in Order |-> 0]
  /\ process = [p \in Request |-> Idle]

Goes(p, next) == process' = [process EXCEPT ![p] = next]

--------------------------------------------------------------------------------
(* The counters.                                                            *)

Available(doc) == doc.total - doc.reserved - doc.sold

\* The status the sold-out check wants written on an offer it has just read.
FlagOf(doc) ==
  IF Available(doc) <= 0 /\ doc.status = "ACTIVE" THEN "SOLD_OUT"
  ELSE IF Available(doc) > 0 /\ doc.status = "SOLD_OUT" THEN "ACTIVE"
  ELSE "keep"

Flagged(doc, flag) == IF flag = "keep" THEN doc ELSE [doc EXCEPT !.status = flag]

\* Mutation: the reservation is kept.
StillReserved(doc) == doc

\* Mutation: the bag a customer gives back comes off the sold ones.
ReleasedFromSold(doc) == [doc EXCEPT !.sold = @ - 1]

\* { $inc: { reservedQuantity: -item.quantity } }
Released(doc) == [doc EXCEPT !.reserved = @ - 1]

\* The bag of order o leaves reservedQuantity, and the document that leaves.
TakesOut(o, doc) ==
  /\ gone' = [gone EXCEPT ![o] = @ + 1]
  /\ offer' = doc

Return(o, doc) == gone[o] < MaxGone /\ TakesOut(o, doc) /\ UNCHANGED handed

--------------------------------------------------------------------------------
(* create(): one transaction.                                               *)

\* findActiveOffersForOrder and validateAndBuildOrderItems, on its snapshot.
Orderable(doc) ==
  /\ doc.status = "ACTIVE"
  /\ Available(doc) >= 1
  /\ doc.max # NoLimit => doc.slot < doc.max

StartCreate(p, o) ==
  /\ process[p] = Idle /\ order[o].status = "none"
  /\ \A q \in Request : process[q].pc = "create" => process[q].order # o
  /\ Orderable(offer)
  /\ Goes(p, [pc |-> "create", order |-> o, doc |-> offer])
  /\ UNCHANGED <<offer, kind, order, sale, history>>

\* Mutation: the update is applied to whatever the document has become.
NeverStale(p) == FALSE

\* The offer was written since the snapshot. (A document that was written and
\* is the same again gives the same order.)
Stale(p) == offer # process[p].doc

\* Mutation: an order paid in cash waits in the status of older orders.
FirstStatusPending(o) ==
  CASE kind[o] = "online" -> "PENDING_PAYMENT" [] kind[o] = "delivery" -> "CONFIRMED"
    [] kind[o] = "cash" -> "PENDING"

FirstStatus(o) ==
  CASE kind[o] = "online" -> "PENDING_PAYMENT" [] kind[o] = "delivery" -> "CONFIRMED"
    [] kind[o] = "cash" -> "RESERVED"

\* The guarded $inc of reservedQuantity and of the slot, the sold-out flag and
\* the order.
Create(p) ==
  /\ process[p].pc = "create" /\ ~Stale(p)
  /\ Available(offer) >= 1
  /\ LET doc == [offer EXCEPT !.reserved = @ + 1, !.slot = IF offer.max = NoLimit THEN @ ELSE @ + 1] IN
     offer' = Flagged(doc, FlagOf(doc))
  /\ order' = [order EXCEPT ![process[p].order].status = FirstStatus(process[p].order)]
  /\ Goes(p, Idle)
  /\ UNCHANGED <<kind, sale, history>>

\* withTransaction runs the callback again, from its first read.
RetryCreate(p) ==
  /\ process[p].pc = "create" /\ Stale(p)
  /\ Goes(p, IF Orderable(offer) THEN [process[p] EXCEPT !.doc = offer] ELSE Idle)
  /\ UNCHANGED <<offer, kind, order, sale, history>>

--------------------------------------------------------------------------------
(* What becomes of an order that is not called off.                         *)

\* handleOrderWebhook: the order it read was neither cancelled nor expired.
StartSettle(p, o) ==
  /\ process[p] = Idle /\ kind[o] = "online" /\ o \notin sale
  /\ order[o].status \notin {"none", "CANCELLED", "EXPIRED"}
  /\ Goes(p, [pc |-> "settle", order |-> o])
  /\ UNCHANGED <<offer, kind, order, sale, history>>

Settle(p) ==
  /\ process[p].pc = "settle"
  /\ LET o == process[p].order IN
     IF o \in sale THEN UNCHANGED <<order, sale>>
     ELSE /\ order' = [order EXCEPT ![o] = [status |-> "RESERVED", pay |-> "PAID"]]
          /\ sale' = sale \cup {o}
  /\ Goes(p, Idle)
  /\ UNCHANGED <<offer, kind, history>>

\* Mutation: the claim takes an order in any status it once was ready in.
ClaimableAgain(o) == order[o].status \in {"RESERVED", "CONFIRMED", "DONE"}

Claimable(o) == order[o].status \in {"RESERVED", "CONFIRMED"}

\* confirmPickup: the claim tests the status it replaces, and the bag goes from
\* reserved to sold in the same transaction.
ConfirmPickup(o) ==
  /\ kind[o] # "delivery" /\ Claimable(o) /\ gone[o] <= MaxGone
  /\ order' = [order EXCEPT ![o].status = "DONE",
                            ![o].pay = IF kind[o] = "cash" THEN "PAID" ELSE @]
  /\ TakesOut(o, [Released(offer) EXCEPT !.sold = @ + 1])
  /\ handed' = handed \cup {o}
  /\ UNCHANGED <<kind, sale, process>>

\* A delivery ends delivered or failed. Neither moves the counters.
Deliver(o) ==
  /\ kind[o] = "delivery" /\ order[o].status = "CONFIRMED"
  /\ \/ /\ order' = [order EXCEPT ![o] = [status |-> "DONE", pay |-> "PAID"]]
        /\ handed' = handed \cup {o}
     \/ /\ order' = [order EXCEPT ![o].status = "CANCELLED"]
        /\ UNCHANGED handed
  /\ UNCHANGED <<offer, kind, sale, process, gone>>

--------------------------------------------------------------------------------
(* cancel(), by what the order it read was.                                 *)

PaidOnline(o) == kind[o] = "online" /\ order[o].pay = "PAID"

StartCancel(p, o) ==
  /\ process[p] = Idle /\ order[o].status \notin Terminal \cup {"none"}
  /\ \/ /\ \/ order[o].status = "PENDING_PAYMENT"
           \/ order[o].status = "RESERVED" /\ ~PaidOnline(o)       \* by the consumer
        /\ Goes(p, [pc |-> "cancelUnpaid", order |-> o])
     \/ /\ order[o].status # "PENDING_PAYMENT" /\ PaidOnline(o)
        /\ Goes(p, [pc |-> "cancelPaid", order |-> o])
     \/ /\ order[o].status # "PENDING_PAYMENT" /\ ~PaidOnline(o)
        /\ Goes(p, [pc |-> "cancel", order |-> o, left |-> {"status", "stock"}, flag |-> "keep"])
  /\ UNCHANGED <<offer, kind, order, sale, history>>

\* The transactions: stock, flag and status together.
CancelUnpaid(p) ==
  /\ process[p].pc = "cancelUnpaid"
  /\ LET o == process[p].order IN
     /\ Return(o, Flagged(Released(offer), FlagOf(Released(offer))))
     /\ order' = [order EXCEPT ![o].status = "CANCELLED"]
  /\ Goes(p, Idle)
  /\ UNCHANGED <<kind, sale>>

\* The unique refund request makes a second one abort.
CancelPaid(p) ==
  /\ process[p].pc = "cancelPaid"
  /\ LET o == process[p].order IN
     IF order[o].pay = "REFUND_PENDING" THEN UNCHANGED <<offer, order, history>>
     ELSE /\ Return(o, Flagged(Released(offer), FlagOf(Released(offer))))
          /\ order' = [order EXCEPT ![o] = [status |-> "CANCELLED", pay |-> "REFUND_PENDING"]]
  /\ Goes(p, Idle)
  /\ UNCHANGED <<kind, sale>>

\* The merchant's branch has no transaction: the two writes run side by side,
\* then the flag is set from the document the release returned.
CancelLeft(p, write, flag) ==
  IF process[p].left = {write} /\ flag = "keep" THEN Idle
  ELSE [process[p] EXCEPT !.left = @ \ {write}, !.flag = flag]

CancelStatus(p) ==
  /\ process[p].pc = "cancel" /\ "status" \in process[p].left
  /\ order' = [order EXCEPT ![process[p].order].status = "CANCELLED"]
  /\ Goes(p, CancelLeft(p, "status", process[p].flag))
  /\ UNCHANGED <<offer, kind, sale, history>>

CancelStock(p) ==
  /\ process[p].pc = "cancel" /\ "stock" \in process[p].left
  /\ Return(process[p].order, Released(offer))
  /\ Goes(p, CancelLeft(p, "stock", FlagOf(Released(offer))))
  /\ UNCHANGED <<kind, order, sale>>

CancelFlag(p) ==
  /\ process[p].pc = "cancel" /\ process[p].left = {}
  /\ offer' = Flagged(offer, process[p].flag)
  /\ Goes(p, Idle)
  /\ UNCHANGED <<kind, order, sale, history>>

--------------------------------------------------------------------------------
(* The expiry of orders, and of payments.                                   *)

\* updateExpiredOrders: the job's lock does not cover the administrator's
\* endpoint, so any request may run it.
StartExpireOrder(p, o) ==
  /\ process[p] = Idle
  /\ order[o].status \notin Terminal \cup {"none", "REFUNDED"}
  /\ Goes(p, [pc |-> "expireStock", order |-> o])
  /\ UNCHANGED <<offer, kind, order, sale, history>>

ExpireStock(p) ==
  /\ process[p].pc = "expireStock"
  /\ Return(process[p].order, Released(offer))
  /\ LET flag == FlagOf(Released(offer)) IN
     Goes(p, IF flag = "keep" THEN [pc |-> "expireStatus", order |-> process[p].order]
             ELSE [pc |-> "expireFlag", order |-> process[p].order, flag |-> flag])
  /\ UNCHANGED <<kind, order, sale>>

ExpireFlag(p) ==
  /\ process[p].pc = "expireFlag"
  /\ offer' = Flagged(offer, process[p].flag)
  /\ Goes(p, [pc |-> "expireStatus", order |-> process[p].order])
  /\ UNCHANGED <<kind, order, sale, history>>

ExpireStatus(p) ==
  /\ process[p].pc = "expireStatus"
  /\ order' = [order EXCEPT ![process[p].order].status = "EXPIRED"]
  /\ Goes(p, Idle)
  /\ UNCHANGED <<offer, kind, sale, history>>

\* payment-expiry.task runs under its lock. It does not look at the flag.
StartPaymentExpiry(p, o) ==
  /\ process[p] = Idle
  /\ \A q \in Request : process[q].pc # "payExpire"
  /\ order[o].status = "PENDING_PAYMENT" /\ order[o].pay # "PAID"
  /\ Goes(p, [pc |-> "payExpire", order |-> o])
  /\ UNCHANGED <<offer, kind, order, sale, history>>

PaymentExpires(p) ==
  /\ process[p].pc = "payExpire"
  /\ LET o == process[p].order IN
     /\ Return(o, Released(offer))
     /\ order' = [order EXCEPT ![o] = [status |-> "EXPIRED", pay |-> "UNPAID"]]
  /\ Goes(p, Idle)
  /\ UNCHANGED <<kind, sale>>

--------------------------------------------------------------------------------
(* The writers of order.status that leave the stock alone.                  *)

\* updateStatus of a merchant, and adminCancelOrder of an unpaid order: a write
\* by id after a read.
MayWrite(o, target) ==
  \/ target = "CONFIRMED" /\ order[o].status \in {"PENDING_PAYMENT", "CONFIRMED"}
  \/ target = "CANCELLED" /\ order[o].status \in Live /\ ~PaidOnline(o)

StartWrite(p, o, target) ==
  /\ process[p] = Idle /\ MayWrite(o, target)
  /\ Goes(p, [pc |-> "write", order |-> o, target |-> target])
  /\ UNCHANGED <<offer, kind, order, sale, history>>

WriteStatus(p) ==
  /\ process[p].pc = "write"
  /\ order' = [order EXCEPT ![process[p].order].status = process[p].target]
  /\ Goes(p, Idle)
  /\ UNCHANGED <<offer, kind, sale, history>>

\* cancelUserPendingOrders: one updateMany, on the status it finds.
SuspendUser(o) ==
  /\ order[o].status \in {"PENDING_PAYMENT", "CONFIRMED"}
  /\ order' = [order EXCEPT ![o].status = "CANCELLED"]
  /\ UNCHANGED <<offer, kind, sale, process, history>>

\* adminIssueRefund, and adminCancelOrder of an order paid online; the unique
\* refund request makes a second one abort.
StartRefund(p, o, target) ==
  /\ process[p] = Idle /\ PaidOnline(o)
  /\ target = "REFUNDED" \/ (target = "CANCELLED" /\ order[o].status \in Live)
  /\ Goes(p, [pc |-> "refund", order |-> o, target |-> target])
  /\ UNCHANGED <<offer, kind, order, sale, history>>

Refund(p) ==
  /\ process[p].pc = "refund"
  /\ LET o == process[p].order IN
     order' = IF order[o].pay = "REFUND_PENDING" THEN order
              ELSE [order EXCEPT ![o] = [status |-> process[p].target, pay |-> "REFUND_PENDING"]]
  /\ Goes(p, Idle)
  /\ UNCHANGED <<offer, kind, sale, history>>

\* recordOfflineRefund claims an order that was handed over for cash.
RecordOfflineRefund(o) ==
  /\ kind[o] # "online" /\ order[o].status = "DONE"
  /\ order' = [order EXCEPT ![o] = [status |-> "REFUNDED", pay |-> "REFUNDED"]]
  /\ UNCHANGED <<offer, kind, sale, process, history>>

--------------------------------------------------------------------------------
(* The offer itself.                                                        *)

\* update: a merchant needs an offer without reservations, read some time
\* before; an administrator does not. (More bags, and new slots, are left out.)
EditTotal(n) ==
  /\ n < offer.total
  /\ offer.max # NoLimit => n >= offer.max
  /\ offer' = [offer EXCEPT !.total = n]
  /\ UNCHANGED <<kind, order, sale, process, history>>

\* reactivateOffer, of an offer that is sold out or that updateExpiredOffers has
\* expired by then: the counters start again, whoever holds a reservation.
Reactivate ==
  /\ offer.again
  /\ offer' = Fresh(offer)
  /\ gone' = [o \in Order |-> IF order[o].status # "none" /\ gone[o] = 0 THEN 1 ELSE gone[o]]
  /\ handed' = {}
  /\ UNCHANGED <<kind, order, sale, process>>

--------------------------------------------------------------------------------
Continue(p) ==
  \/ Create(p) \/ RetryCreate(p) \/ Settle(p)
  \/ CancelUnpaid(p) \/ CancelPaid(p)
  \/ CancelStatus(p) \/ CancelStock(p) \/ CancelFlag(p)
  \/ ExpireStock(p) \/ ExpireFlag(p) \/ ExpireStatus(p)
  \/ PaymentExpires(p) \/ WriteStatus(p) \/ Refund(p)

Start(p, o) ==
  \/ StartCreate(p, o) \/ StartSettle(p, o) \/ StartCancel(p, o)
  \/ StartExpireOrder(p, o) \/ StartPaymentExpiry(p, o)
  \/ \E target \in {"CONFIRMED", "CANCELLED", "REFUNDED"} :
       StartWrite(p, o, target) \/ StartRefund(p, o, target)

Next ==
  \/ \E p \in Request : Continue(p) \/ \E o \in Order : Start(p, o)
  \/ \E o \in Order : 
       ConfirmPickup(o) \/ Deliver(o) \/ SuspendUser(o) \/ RecordOfflineRefund(o)
  \/ \E n \in Total : EditTotal(n)
  \/ Reactivate

Spec == Init /\ [][Next]_vars

--------------------------------------------------------------------------------
(* Properties.                                                              *)

Committed == offer.reserved + offer.sold

\* The orders that are owed a bag of this offer, or have had one since it was
\* last activated.
Owed == {o \in Order : order[o].status \in Live} \cup handed

\* A bag was taken out of the reserved ones twice, or while its order lives on
\* (a delivered bag is never taken out).
WronglyTaken ==
  \E o \in Order :
    \/ gone[o] > 1
    \/ gone[o] = 1 /\ (order[o].status \in Live \/ (kind[o] = "delivery" /\ o \in handed))

\* Two customers in the checkout never share the last bag: whatever releases,
\* expiries and status writes run beside it, only an edit of totalQuantity can
\* commit more bags than the offer has.
OnlyAnEditOvercommits ==
  [][Committed <= offer.total /\ Committed' > offer'.total => offer'.total # offer.total]_vars

\* No more orders are taken in a pickup slot than maxOrders, although the
\* update that counts an order in does not test it: only the transaction's
\* conflict does.
SlotWithinMax == offer.max # NoLimit => offer.slot <= offer.max

\* The counters cover every bag that is owed or handed over, and the sold ones
\* are the pickups, unless some bag was taken out wrongly: no interleaving of
\* checkouts, confirmations and single releases loses a reservation.
CountersCoverOrders ==
  ~WronglyTaken =>
    /\ Cardinality(Owed) <= Committed
    /\ offer.sold = Cardinality({o \in handed : kind[o] # "delivery"})

\* A pickup paid in cash is sold once: confirmations of the same order, and the
\* late writes of its status, cannot move its bag to the sold ones again.
CashBagSoldOnce ==
  [][offer'.sold > offer.sold =>
       \E o \in Order : /\ gone'[o] > gone[o]
                        /\ kind[o] = "cash" => order[o].pay = "UNPAID"]_vars

\* Claim of scripts/verify-loadtest-invariants.ts: "Stock was never oversold."
\* (Read when no handler is at work, and of bags, not of the counters.)
NeverOversold ==
  (\A p \in Request : process[p] = Idle) => Cardinality(Owed) <= offer.total
================================================================================
