----------------------------- MODULE StockProofs -----------------------------
(***************************************************************************)
(* What holds of the stock of an offer for any number of orders and        *)
(* handlers and any published offer: its type, its slot, and that the      *)
(* counters cover the bags that are owed.                                  *)
(***************************************************************************)
EXTENDS OfferStock, FiniteSetTheorems, TLAPS

(* What a request may be in the middle of. *)
Handling ==
  {Idle} \cup [pc : {"create"}, order : Order, doc : Offer]
         \cup [pc : {"cancelUnpaid", "cancelPaid", "payExpire", "settle",
                     "expireStock", "expireStatus"}, order : Order]
         \cup [pc : {"cancel"}, order : Order, left : SUBSET {"status", "stock"}, flag : Flag]
         \cup [pc : {"expireFlag"}, order : Order, flag : Flag]
         \cup [pc : {"write", "refund"}, order : Order, target : Status]

Created == {o \in Order : order[o].status # "none"}

(* A handler works on an order that exists, but for a checkout, whose
   snapshot shows an offer that takes orders.  Settlements and refunds are of
   orders paid online; a plain write confirms no order paid in cash. *)
Fits(h) ==
  /\ h.pc \notin {"idle", "create"} => h.order \in Created
  /\ h.pc = "create" => h.order \notin Created /\ Orderable(h.doc)
  /\ h.pc \in {"settle", "cancelPaid", "refund"} => kind[h.order] = "online"
  /\ h.pc = "write" => /\ h.target \in {"CONFIRMED", "CANCELLED"}
                       /\ h.target = "CONFIRMED" => kind[h.order] # "cash"
  /\ h.pc = "refund" => h.target \in {"REFUNDED", "CANCELLED"}

HandlersFit == \A p \in Request : Fits(process[p])

CreatesApart ==
  \A p, q \in Request :
    process[p].pc = "create" /\ process[q].pc = "create" /\ process[p].order = process[q].order
      => p = q

(* An order that does not exist is unpaid.  One paid in cash is never waiting
   for its payment, nor confirmed by its merchant, and is unpaid as long as it
   is reserved. *)
PaymentsFit ==
  \A o \in Order :
    /\ order[o].status = "none" => order[o].pay = "UNPAID"
    /\ kind[o] = "cash" =>
         /\ order[o].status \notin {"PENDING_PAYMENT", "CONFIRMED"}
         /\ order[o].status = "RESERVED" => order[o].pay = "UNPAID"

(* The orders whose bag nobody took out of reservedQuantity, and the pickups
   since the offer was last activated. *)
Held == {o \in Created : gone[o] = 0}
PickedUp == {o \in handed : kind[o] # "delivery"}

(* As long as no bag was taken out twice, reservedQuantity counts the bags
   held and soldQuantity the pickups. *)
CountersCount ==
  (\A o \in Order : gone[o] <= 1) =>
    offer.reserved = Cardinality(Held) /\ offer.sold = Cardinality(PickedUp)

HistoryFits ==
  /\ IsFiniteSet(Created)
  /\ \A o \in Order : gone[o] > 0 => o \in Created
  /\ handed \subseteq Created
  /\ \A o \in PickedUp : gone[o] > 0
  /\ offer.sold >= 0

IInv ==
  /\ TypeOK
  /\ HandlersFit /\ CreatesApart
  /\ PaymentsFit
  /\ SlotWithinMax
  /\ HistoryFits /\ CountersCount

------------------------------------------------------------------------------
(* Counting: a set of known cardinality and one element. *)

LEMMA CardinalityPlus ==
  ASSUME NEW S, NEW x, IsFiniteSet(S), x \notin S
  PROVE  IsFiniteSet(S \cup {x}) /\ Cardinality(S \cup {x}) = Cardinality(S) + 1
BY FS_AddElement

LEMMA CardinalityMinus ==
  ASSUME NEW S, NEW x \in S, IsFiniteSet(S)
  PROVE  Cardinality(S \ {x}) = Cardinality(S) - 1
BY FS_RemoveElement

LEMMA HistoryIsFinite ==
  ASSUME HistoryFits
  PROVE  /\ IsFiniteSet(Held) /\ Cardinality(Held) \in Nat
         /\ IsFiniteSet(PickedUp) /\ Cardinality(PickedUp) \in Nat
<1>1. Held \in SUBSET Created /\ PickedUp \in SUBSET Created
  BY DEF Held, PickedUp, HistoryFits
<1>2. IsFiniteSet(Held) /\ IsFiniteSet(PickedUp)
  BY <1>1, FS_Subset DEF HistoryFits
<1> QED
  BY <1>2, FS_CardinalityType

------------------------------------------------------------------------------
(* What the parts of a step do. *)

LEMMA ProcessType ==
  ASSUME TypeOK
  PROVE  /\ process \in [Request -> Handling]
         /\ order \in [Order -> [status : Status, pay : Pay]]
BY DEF TypeOK, Handling

LEMMA HandlerType ==
  ASSUME NEW h \in Handling, h.pc # "idle"
  PROVE  h.order \in Order
BY DEF Handling, Idle

(* A handler moves on and no order is created. *)
LEMMA Advance ==
  ASSUME IInv, NEW p \in Request, NEW next \in Handling, Goes(p, next), Fits(next),
         next.pc = "create" =>
           \A q \in Request \ {p} : process[q].pc = "create" => process[q].order # next.order,
         Created' = Created, UNCHANGED kind
  PROVE  process' \in [Request -> Handling] /\ HandlersFit' /\ CreatesApart'
<1>1. process \in [Request -> Handling]
  BY ProcessType DEF IInv
<1>2. process' = [process EXCEPT ![p] = next]
  BY DEF Goes
<1>3. process' \in [Request -> Handling]
  BY <1>1, <1>2
<1>4. HandlersFit'
  BY <1>1, <1>2 DEF IInv, HandlersFit, Fits, Orderable, Available
<1>5. CreatesApart'
  BY <1>1, <1>2 DEF IInv, CreatesApart
<1> QED
  BY <1>3, <1>4, <1>5

(* Nobody's handler moves and no order is created. *)
LEMMA Standstill ==
  ASSUME IInv, UNCHANGED process, Created' = Created, UNCHANGED kind
  PROVE  process' \in [Request -> Handling] /\ HandlersFit' /\ CreatesApart'
<1>1. process \in [Request -> Handling]
  BY ProcessType DEF IInv
<1>2. HandlersFit' /\ CreatesApart'
  BY DEF IInv, HandlersFit, Fits, Orderable, Available, CreatesApart
<1> QED
  BY <1>1, <1>2

(* An order that exists is written. *)
LEMMA OrderWritten ==
  ASSUME IInv, NEW o \in Created, NEW new \in [status : Status \ {"none"}, pay : Pay],
         order' = [order EXCEPT ![o] = new],
         kind[o] = "cash" => /\ new.status \notin {"PENDING_PAYMENT", "CONFIRMED"}
                             /\ new.status = "RESERVED" => new.pay = "UNPAID",
         UNCHANGED kind
  PROVE  /\ order' \in [Order -> [status : Status, pay : Pay]]
         /\ Created' = Created
         /\ PaymentsFit'
<1>1. order \in [Order -> [status : Status, pay : Pay]]
  BY ProcessType DEF IInv
<1>2. o \in Order /\ order[o].status # "none"
  BY DEF Created
<1>3. order' \in [Order -> [status : Status, pay : Pay]]
  BY <1>1
<1>4. Created' = Created
  BY <1>1, <1>2 DEF Created
<1>5. PaymentsFit'
  BY <1>1, <1>2 DEF IInv, PaymentsFit
<1> QED
  BY <1>3, <1>4, <1>5

LEMMA OrderKept ==
  ASSUME IInv, UNCHANGED <<order, kind>>
  PROVE  /\ order' \in [Order -> [status : Status, pay : Pay]]
         /\ Created' = Created
         /\ PaymentsFit'
BY ProcessType DEF IInv, PaymentsFit, Created

(* The offer and its history stay, whatever status orders get. *)
LEMMA StockKept ==
  ASSUME IInv, UNCHANGED <<offer, history, kind>>, Created' = Created
  PROVE  SlotWithinMax' /\ HistoryFits' /\ CountersCount'
BY DEF IInv, history, SlotWithinMax, HistoryFits, CountersCount, Held, PickedUp

(* The sold-out flag is the only field a flag changes. *)
LEMMA FlaggedType ==
  ASSUME NEW doc \in Offer, NEW flag \in Flag
  PROVE  /\ Flagged(doc, flag) \in Offer
         /\ Flagged(doc, flag).reserved = doc.reserved
         /\ Flagged(doc, flag).sold = doc.sold
         /\ Flagged(doc, flag).max = doc.max
         /\ Flagged(doc, flag).slot = doc.slot
         /\ Flagged(doc, flag).total = doc.total
BY DEF Flagged, Flag, Offer

LEMMA ReleasedType ==
  ASSUME NEW doc \in Offer
  PROVE  /\ Released(doc) \in Offer
         /\ Released(doc) = [doc EXCEPT !.reserved = doc.reserved - 1]
         /\ FlagOf(doc) \in Flag
BY DEF Released, Offer, FlagOf, Flag

(* A bag leaves reservedQuantity: whether it was held or is taken out once
   more, what the counters count stays true. *)
LEMMA TakenOut ==
  ASSUME IInv, NEW o \in Created, gone[o] <= MaxGone,
         NEW doc \in Offer, TakesOut(o, doc),
         doc.reserved = offer.reserved - 1, doc.max = offer.max, doc.slot = offer.slot,
         \/ doc.sold = offer.sold /\ UNCHANGED handed
         \/ doc.sold = offer.sold + 1 /\ handed' = handed \cup {o} /\ kind[o] # "delivery",
         Created' = Created, UNCHANGED kind
  PROVE  /\ offer' \in Offer /\ gone' \in [Order -> 0..(MaxGone + 1)] /\ handed' \subseteq Order
         /\ SlotWithinMax' /\ HistoryFits' /\ CountersCount'
<1>1. /\ offer \in Offer /\ offer.reserved \in Int /\ offer.sold \in Int
      /\ gone \in [Order -> 0..(MaxGone + 1)] /\ handed \subseteq Order /\ o \in Order
  BY DEF IInv, TypeOK, Offer, Created
<1>2. /\ offer' = doc /\ gone' = [gone EXCEPT ![o] = gone[o] + 1]
  BY DEF TakesOut
<1>3. gone[o] + 1 \in 0..(MaxGone + 1)
  BY <1>1, BoundAssumption
<1>4. offer' \in Offer /\ gone' \in [Order -> 0..(MaxGone + 1)] /\ handed' \subseteq Order
  BY <1>1, <1>2, <1>3
<1>5. SlotWithinMax'
  BY <1>2 DEF IInv, SlotWithinMax
<1>6. HistoryFits'
  <2>1. \A x \in Order : gone'[x] > 0 => x \in Created
    BY <1>1, <1>2 DEF IInv, HistoryFits
  <2>2. \A x \in Order : gone[x] > 0 => gone'[x] > 0
    BY <1>1, <1>2, BoundAssumption
  <2>3. gone'[o] > 0
    BY <1>1, <1>2, BoundAssumption
  <2>4. handed' \subseteq Created /\ \A x \in PickedUp' : gone'[x] > 0
    BY <1>1, <2>2, <2>3 DEF IInv, HistoryFits, PickedUp, Created
  <2>5. offer'.sold >= 0
    BY <1>1, <1>2 DEF IInv, HistoryFits
  <2> QED
    BY <2>1, <2>4, <2>5 DEF IInv, HistoryFits
<1>7. CountersCount'
  <2> SUFFICES ASSUME \A x \in Order : gone'[x] <= 1
               PROVE  /\ offer'.reserved = Cardinality(Held')
                      /\ offer'.sold = Cardinality(PickedUp')
    BY DEF CountersCount
  <2>1. gone[o] = 0 /\ \A x \in Order : gone[x] <= 1
    BY <1>1, <1>2, BoundAssumption
  <2>2. offer.reserved = Cardinality(Held) /\ offer.sold = Cardinality(PickedUp)
    BY <2>1 DEF IInv, CountersCount
  <2>3. o \in Held /\ Held' = Held \ {o}
    BY <1>1, <1>2, <2>1 DEF Held
  <2>4. offer'.reserved = Cardinality(Held')
    BY <1>2, <2>2, <2>3, CardinalityMinus, HistoryIsFinite DEF IInv
  <2>5. CASE doc.sold = offer.sold /\ UNCHANGED handed
    BY <1>2, <2>2, <2>4, <2>5 DEF PickedUp
  <2>6. CASE doc.sold = offer.sold + 1 /\ handed' = handed \cup {o} /\ kind[o] # "delivery"
    <3>1. o \notin PickedUp
      BY <2>1 DEF IInv, HistoryFits
    <3>2. PickedUp' = PickedUp \cup {o}
      BY <2>6 DEF PickedUp
    <3> QED
      BY <1>2, <2>2, <2>4, <2>6, <3>1, <3>2, CardinalityPlus, HistoryIsFinite DEF IInv
  <2> QED
    BY <2>5, <2>6
<1> QED
  BY <1>4, <1>5, <1>6, <1>7

(* The flag, or an edit of the total, leaves the counters alone. *)
LEMMA OfferRewritten ==
  ASSUME IInv, NEW doc \in Offer, offer' = doc,
         doc.reserved = offer.reserved, doc.sold = offer.sold,
         doc.max = offer.max, doc.slot = offer.slot,
         UNCHANGED <<history, kind>>, Created' = Created
  PROVE  SlotWithinMax' /\ HistoryFits' /\ CountersCount'
BY DEF IInv, history, SlotWithinMax, HistoryFits, CountersCount, Held, PickedUp

(* A step that leaves the offer and its history alone. *)
LEMMA OrderStep ==
  ASSUME IInv, UNCHANGED <<offer, kind, history>>, sale' \subseteq Order,
         order' \in [Order -> [status : Status, pay : Pay]], Created' = Created, PaymentsFit',
         process' \in [Request -> Handling], HandlersFit', CreatesApart'
  PROVE  IInv'
<1>1. TypeOK'
  BY DEF IInv, TypeOK, Handling, history
<1>2. SlotWithinMax' /\ HistoryFits' /\ CountersCount'
  BY StockKept
<1> QED
  BY <1>1, <1>2 DEF IInv

------------------------------------------------------------------------------
LEMMA InitInv == Init => IInv
<1> SUFFICES ASSUME Init PROVE IInv
  OBVIOUS
<1>1. PICK doc \in Published : offer = Fresh(doc)
  BY DEF Init
<1>2. doc.total \in Total /\ doc.max \in Nat \cup {NoLimit} /\ doc.again \in BOOLEAN
  BY OfferAssumption DEF Total
<1>3. offer \in Offer /\ offer.reserved = 0 /\ offer.sold = 0 /\ offer.slot = 0 /\ offer.max = doc.max
  BY <1>1, <1>2 DEF Fresh, Offer
<1>4. \A p \in Request : process[p] = Idle
  BY DEF Init
<1>5. TypeOK
  BY <1>3, BoundAssumption DEF Init, TypeOK, Status, Pay
<1>6. HandlersFit /\ CreatesApart /\ PaymentsFit
  BY <1>4 DEF Init, HandlersFit, Fits, Idle, CreatesApart, PaymentsFit
<1>7. SlotWithinMax
  BY <1>2, <1>3, LimitAssumption DEF SlotWithinMax
<1>8. Created = {} /\ Held = {} /\ PickedUp = {}
  BY DEF Init, Created, Held, PickedUp
<1>9. HistoryFits /\ CountersCount
  BY <1>3, <1>8, FS_EmptySet DEF Init, HistoryFits, CountersCount
<1> QED
  BY <1>5, <1>6, <1>7, <1>9 DEF IInv

(* A handler starts: it only remembers what it has read. *)
LEMMA StartKeeps ==
  ASSUME IInv, NEW p \in Request, NEW o \in Order, Start(p, o)
  PROVE  IInv'
<1>1. /\ kind \in [Order -> Kind] /\ order[o].status \in Status /\ order[o].pay \in Pay
      /\ sale \subseteq Order /\ offer \in Offer
  BY DEF IInv, TypeOK
<1>2. UNCHANGED <<offer, kind, order, sale, history>>
  BY DEF Start, StartCreate, StartSettle, StartCancel, StartExpireOrder, StartPaymentExpiry,
         StartWrite, StartRefund
<1>3. \E next \in Handling :
        /\ Goes(p, next) /\ Fits(next)
        /\ next.pc = "create" => \A q \in Request : process[q].pc = "create" => process[q].order # next.order
  <2>1. CASE StartCreate(p, o)
    <3> DEFINE next == [pc |-> "create", order |-> o, doc |-> offer]
    <3>1. next \in Handling /\ Goes(p, next) /\ next.order = o
      BY <1>1, <2>1 DEF StartCreate, Handling
    <3>2. Fits(next)
      BY <2>1 DEF StartCreate, Fits, Created
    <3> QED
      BY <2>1, <3>1, <3>2 DEF StartCreate
  <2>2. CASE StartSettle(p, o)
    <3> DEFINE next == [pc |-> "settle", order |-> o]
    <3>1. next \in Handling /\ Fits(next) /\ Goes(p, next)
      BY <2>2 DEF StartSettle, Handling, Fits, Created
    <3> QED
      BY <3>1
  <2>3. CASE StartCancel(p, o)
    <3>1. o \in Created
      BY <2>3 DEF StartCancel, Created
    <3>2. CASE Goes(p, [pc |-> "cancelUnpaid", order |-> o])
      <4>1. [pc |-> "cancelUnpaid", order |-> o] \in Handling /\ Fits([pc |-> "cancelUnpaid", order |-> o])
        BY <3>1 DEF Handling, Fits
      <4> QED
        BY <3>2, <4>1
    <3>3. CASE PaidOnline(o) /\ Goes(p, [pc |-> "cancelPaid", order |-> o])
      <4>1. [pc |-> "cancelPaid", order |-> o] \in Handling /\ Fits([pc |-> "cancelPaid", order |-> o])
        BY <3>1, <3>3 DEF Handling, Fits, PaidOnline
      <4> QED
        BY <3>3, <4>1
    <3>4. CASE Goes(p, [pc |-> "cancel", order |-> o, left |-> {"status", "stock"}, flag |-> "keep"])
      <4> DEFINE next == [pc |-> "cancel", order |-> o, left |-> {"status", "stock"}, flag |-> "keep"]
      <4>1. next \in Handling /\ Fits(next)
        BY <3>1 DEF Handling, Fits, Flag
      <4> QED
        BY <3>4, <4>1
    <3> QED
      BY <2>3, <3>2, <3>3, <3>4 DEF StartCancel
  <2>4. CASE StartExpireOrder(p, o)
    <3> DEFINE next == [pc |-> "expireStock", order |-> o]
    <3>1. next \in Handling /\ Fits(next) /\ Goes(p, next)
      BY <2>4 DEF StartExpireOrder, Handling, Fits, Created
    <3> QED
      BY <3>1
  <2>5. CASE StartPaymentExpiry(p, o)
    <3> DEFINE next == [pc |-> "payExpire", order |-> o]
    <3>1. next \in Handling /\ Fits(next) /\ Goes(p, next)
      BY <2>5 DEF StartPaymentExpiry, Handling, Fits, Created
    <3> QED
      BY <3>1
  <2>6. ASSUME NEW target \in {"CONFIRMED", "CANCELLED", "REFUNDED"}, StartWrite(p, o, target)
        PROVE  \E next \in Handling : Goes(p, next) /\ Fits(next) /\ next.pc # "create"
    <3> DEFINE next == [pc |-> "write", order |-> o, target |-> target]
    <3>1. next \in Handling /\ Goes(p, next)
      BY <2>6 DEF StartWrite, Handling, Status
    <3>2. o \in Created
      BY <2>6 DEF StartWrite, MayWrite, Live, Created
    <3>3. target = "CONFIRMED" => kind[o] # "cash"
      BY <2>6 DEF StartWrite, MayWrite, IInv, PaymentsFit
    <3>4. target \in {"CONFIRMED", "CANCELLED"}
      BY <2>6 DEF StartWrite, MayWrite
    <3>5. Fits(next)
      BY <3>2, <3>3, <3>4 DEF Fits
    <3> QED
      BY <3>1, <3>5
  <2>7. ASSUME NEW target \in {"CONFIRMED", "CANCELLED", "REFUNDED"}, StartRefund(p, o, target)
        PROVE  \E next \in Handling : Goes(p, next) /\ Fits(next) /\ next.pc # "create"
    <3> DEFINE next == [pc |-> "refund", order |-> o, target |-> target]
    <3>1. next \in Handling /\ Goes(p, next)
      BY <2>7 DEF StartRefund, Handling, Status
    <3>2. kind[o] = "online" /\ o \in Created
      BY <2>7 DEF StartRefund, PaidOnline, IInv, PaymentsFit, Created
    <3>3. Fits(next)
      BY <2>7, <3>2 DEF Fits, StartRefund
    <3> QED
      BY <3>1, <3>3
  <2> QED
    BY <2>1, <2>2, <2>3, <2>4, <2>5, <2>6, <2>7 DEF Start
<1>4. UNCHANGED kind /\ Created' = Created /\ sale' \subseteq Order
  BY <1>1, <1>2 DEF Created
<1>5. process' \in [Request -> Handling] /\ HandlersFit' /\ CreatesApart'
  BY <1>3, <1>4, Advance
<1> QED
  BY <1>2, <1>4, <1>5, OrderKept, OrderStep

(* Writing the status of an order, written out. *)
LEMMA StatusWritten ==
  ASSUME TypeOK, NEW o \in Order, NEW status
  PROVE  [order EXCEPT ![o].status = status]
           = [order EXCEPT ![o] = [status |-> status, pay |-> order[o].pay]]
<1>1. order[o] \in [status : Status, pay : Pay]
  BY ProcessType
<1>2. [order[o] EXCEPT !.status = status] = [status |-> status, pay |-> order[o].pay]
  BY <1>1
<1> QED
  BY <1>2

------------------------------------------------------------------------------
(* The handlers, one lemma each. *)

LEMMA HandlerFields ==
  ASSUME IInv, NEW p \in Request, process[p].pc # "idle"
  PROVE  /\ process[p] \in Handling /\ process[p].order \in Order /\ Fits(process[p])
         /\ process[p].pc # "create" => process[p].order \in Created
         /\ process[p].pc = "cancel" => /\ process[p] \in [pc : {"cancel"}, order : Order, left : SUBSET {"status", "stock"}, flag : Flag]
                                        /\ process[p].flag \in Flag
         /\ process[p].pc = "expireFlag" => process[p].flag \in Flag
         /\ process[p].pc \in {"write", "refund"} => process[p].target \in Status
<1>1. process[p] \in Handling /\ process[p].order \in Order
  BY ProcessType, HandlerType DEF IInv
<1>2. Fits(process[p])
  BY DEF IInv, HandlersFit
<1>3. process[p].pc # "create" => process[p].order \in Created
  BY <1>2 DEF Fits
<1>4. process[p].pc = "cancel" => process[p] \in [pc : {"cancel"}, order : Order, left : SUBSET {"status", "stock"}, flag : Flag]
  BY <1>1 DEF Handling, Idle
<1>5. process[p].pc = "expireFlag" => process[p].flag \in Flag
  BY <1>1 DEF Handling, Idle
<1>6. process[p].pc \in {"write", "refund"} => process[p].target \in Status
  BY <1>1 DEF Handling, Idle
<1> QED
  BY <1>1, <1>2, <1>3, <1>4, <1>5, <1>6

(* A handler that ends, or goes on to a step that is no checkout. *)
LEMMA MovesOn ==
  ASSUME IInv, NEW p \in Request, NEW next \in Handling, Goes(p, next),
         next = Idle \/ (next.pc # "create" /\ Fits(next)),
         Created' = Created, UNCHANGED kind
  PROVE  process' \in [Request -> Handling] /\ HandlersFit' /\ CreatesApart'
<1>1. next.pc # "create" /\ Fits(next)
  BY DEF Idle, Fits
<1> QED
  BY <1>1, Advance

LEMMA IdleHandles == Idle \in Handling
BY DEF Handling

(* A step that takes a bag out of reservedQuantity and writes orders. *)
LEMMA StockStep ==
  ASSUME IInv, UNCHANGED kind, sale' \subseteq Order,
         offer' \in Offer, gone' \in [Order -> 0..(MaxGone + 1)], handed' \subseteq Order,
         SlotWithinMax', HistoryFits', CountersCount',
         order' \in [Order -> [status : Status, pay : Pay]], PaymentsFit',
         process' \in [Request -> Handling], HandlersFit', CreatesApart'
  PROVE  IInv'
<1>1. TypeOK'
  BY DEF IInv, TypeOK, Handling
<1> QED
  BY <1>1 DEF IInv

LEMMA CreateCounts ==
  ASSUME IInv, NEW p \in Request, Create(p)
  PROVE  /\ Available(offer) >= 1 /\ offer' \in Offer
         /\ offer'.reserved = offer.reserved + 1 /\ offer'.sold = offer.sold
         /\ offer'.max = offer.max
         /\ offer'.slot = IF offer.max = NoLimit THEN offer.slot ELSE offer.slot + 1
<1>1. Available(offer) >= 1
  BY DEF Create
<1>3. offer \in Offer
  BY DEF IInv, TypeOK
<1>4. offer.slot \in Nat /\ offer.reserved \in Int /\ offer.sold \in Int /\ offer.max \in Nat \cup {NoLimit}
  BY <1>3 DEF Offer
<1>5. \A doc \in Offer : FlagOf(doc) \in Flag
  BY DEF FlagOf, Flag
<1>6. \E doc \in Offer :
        /\ offer' = Flagged(doc, FlagOf(doc))
        /\ doc.reserved = offer.reserved + 1 /\ doc.sold = offer.sold /\ doc.max = offer.max
        /\ doc.slot = IF offer.max = NoLimit THEN offer.slot ELSE offer.slot + 1
  <2> DEFINE slot == IF offer.max = NoLimit THEN offer.slot ELSE offer.slot + 1
             doc == [offer EXCEPT !.reserved = @ + 1, !.slot = slot]
  <2>1. slot \in Nat /\ slot = IF offer.max = NoLimit THEN offer.slot ELSE offer.slot + 1
    BY <1>4
  <2>2. offer' = Flagged(doc, FlagOf(doc))
    BY DEF Create
  <2> HIDE DEF slot
  <2> DEFINE held == [offer EXCEPT !.reserved = @ + 1]
  <2>3. /\ held \in Offer /\ held.reserved = offer.reserved + 1 /\ held.sold = offer.sold
        /\ held.max = offer.max
    BY <1>3, <1>4 DEF Offer
  <2>4. doc = [held EXCEPT !.slot = slot]
    OBVIOUS
  <2> HIDE DEF held, doc
  <2>5. /\ doc \in Offer /\ doc.reserved = held.reserved /\ doc.sold = held.sold
        /\ doc.max = held.max /\ doc.slot = slot
    BY <2>1, <2>3, <2>4 DEF Offer
  <2> QED
    BY <2>1, <2>2, <2>3, <2>5
<1>8. /\ offer' \in Offer /\ offer'.reserved = offer.reserved + 1 /\ offer'.sold = offer.sold
      /\ offer'.max = offer.max /\ offer'.slot = IF offer.max = NoLimit THEN offer.slot ELSE offer.slot + 1
  <2>1. PICK doc \in Offer :
          /\ offer' = Flagged(doc, FlagOf(doc))
          /\ doc.reserved = offer.reserved + 1 /\ doc.sold = offer.sold /\ doc.max = offer.max
          /\ doc.slot = IF offer.max = NoLimit THEN offer.slot ELSE offer.slot + 1
    BY <1>6
  <2>2. FlagOf(doc) \in Flag
    BY <1>5
  <2> QED
    BY <2>1, <2>2, FlaggedType
<1> QED
  BY <1>1, <1>8

LEMMA CreateKeeps ==
  ASSUME IInv, NEW p \in Request, Create(p)
  PROVE  IInv'
<1> DEFINE o == process[p].order
<1>1. process[p].pc = "create" /\ offer = process[p].doc /\ Available(offer) >= 1
  BY DEF Create, Stale
<1>2. o \in Order /\ o \notin Created /\ Orderable(offer)
  BY <1>1, HandlerFields DEF Fits
<1>3. /\ offer \in Offer /\ order \in [Order -> [status : Status, pay : Pay]] /\ kind \in [Order -> Kind]
      /\ gone \in [Order -> 0..(MaxGone + 1)] /\ handed \subseteq Order /\ sale \subseteq Order
  BY DEF IInv, TypeOK
<1>4. offer.slot \in Nat /\ offer.reserved \in Int /\ offer.sold \in Int /\ offer.max \in Nat \cup {NoLimit}
  BY <1>3 DEF Offer
<1>7. UNCHANGED <<kind, sale, gone, handed>>
  BY DEF Create, history
<1>8. /\ offer' \in Offer /\ offer'.reserved = offer.reserved + 1 /\ offer'.sold = offer.sold
      /\ offer'.max = offer.max /\ offer'.slot = IF offer.max = NoLimit THEN offer.slot ELSE offer.slot + 1
  BY CreateCounts
<1>9. SlotWithinMax'
  BY <1>2, <1>4, <1>8, LimitAssumption DEF SlotWithinMax, Orderable
<1>10. FirstStatus(o) \in Status \ {"none"}
  BY <1>2, <1>3 DEF FirstStatus, Status, Kind
<1>11. order' = [order EXCEPT ![o].status = FirstStatus(o)]
  BY DEF Create
<1>12. order' \in [Order -> [status : Status, pay : Pay]]
  BY <1>2, <1>3, <1>10, <1>11
<1>13. Created' = Created \cup {o}
  BY <1>2, <1>3, <1>10, <1>11 DEF Created
<1>14. PaymentsFit'
  <2>1. order[o].pay = "UNPAID"
    BY <1>2 DEF Created, IInv, PaymentsFit
  <2>2. kind[o] = "cash" => FirstStatus(o) = "RESERVED"
    BY DEF FirstStatus
  <2> QED
    BY <1>2, <1>3, <1>7, <1>10, <1>11, <2>1, <2>2 DEF IInv, PaymentsFit
<1>15. gone[o] = 0 /\ Held' = Held \cup {o} /\ o \notin Held /\ PickedUp' = PickedUp
  <2>1. gone[o] = 0
    BY <1>2, <1>3 DEF IInv, HistoryFits
  <2> QED
    BY <1>2, <1>7, <1>13, <2>1 DEF Held, PickedUp
<1>16. HistoryFits'
  BY <1>2, <1>7, <1>8, <1>13, <1>15, FS_AddElement DEF IInv, HistoryFits
<1>17. CountersCount'
  <2>1. Cardinality(Held') = Cardinality(Held) + 1
    BY <1>15, CardinalityPlus, HistoryIsFinite DEF IInv
  <2> QED
    BY <1>7, <1>8, <1>15, <2>1 DEF IInv, CountersCount
<1>18. process' = [process EXCEPT ![p] = Idle]
  BY DEF Create, Goes
<1>19. process \in [Request -> Handling]
  BY ProcessType DEF IInv
<1>20. process' \in [Request -> Handling]
  BY <1>18, <1>19, IdleHandles
<1>21. HandlersFit'
  <2> SUFFICES ASSUME NEW q \in Request PROVE Fits(process[q])'
    BY DEF HandlersFit
  <2>1. CASE q = p
    BY <1>18, <1>19, <2>1 DEF Fits, Idle
  <2>2. CASE q # p
    <3>1. process'[q] = process[q] /\ Fits(process[q])
      BY <1>18, <1>19, <2>2 DEF IInv, HandlersFit
    <3>2. process[q].pc = "create" => process[q].order # o
      BY <1>1, <2>2 DEF IInv, CreatesApart
    <3> QED
      BY <1>7, <1>13, <3>1, <3>2 DEF Fits, Orderable, Available
  <2> QED
    BY <2>1, <2>2
<1>22. CreatesApart'
  BY <1>18, <1>19 DEF IInv, CreatesApart, Idle
<1> QED
  BY <1>3, <1>7, <1>8, <1>9, <1>12, <1>14, <1>16, <1>17, <1>20, <1>21, <1>22, StockStep

LEMMA RetryCreateKeeps ==
  ASSUME IInv, NEW p \in Request, RetryCreate(p)
  PROVE  IInv'
<1>1. process[p].pc = "create" /\ UNCHANGED <<offer, kind, order, sale, history>>
  BY DEF RetryCreate
<1>2. process[p] \in Handling /\ process[p].order \in Order \ Created /\ offer \in Offer
  BY <1>1, HandlerFields DEF Fits, IInv, TypeOK
<1>3. process[p] \in [pc : {"create"}, order : Order, doc : Offer]
  BY <1>1, <1>2 DEF Handling, Idle
<1>4. UNCHANGED kind /\ Created' = Created /\ sale' \subseteq Order
  BY <1>1 DEF Created, IInv, TypeOK
<1>5. process' \in [Request -> Handling] /\ HandlersFit' /\ CreatesApart'
  <2>1. CASE Orderable(offer)
    <3> DEFINE next == [process[p] EXCEPT !.doc = offer]
    <3>1. next \in Handling /\ Goes(p, next) /\ next.order = process[p].order /\ next.doc = offer
          /\ next.pc = "create"
      BY <1>2, <1>3, <2>1 DEF RetryCreate, Handling
    <3>2. Fits(next)
      BY <1>2, <2>1, <3>1 DEF Fits
    <3>3. \A q \in Request \ {p} : process[q].pc = "create" => process[q].order # next.order
      BY <1>1, <3>1 DEF IInv, CreatesApart
    <3> HIDE DEF next
    <3> QED
      BY <1>4, <3>1, <3>2, <3>3, Advance
  <2>2. CASE ~Orderable(offer)
    <3>1. Goes(p, Idle)
      BY <2>2 DEF RetryCreate
    <3> QED
      BY <1>4, <3>1, IdleHandles, MovesOn
  <2> QED
    BY <2>1, <2>2
<1> QED
  BY <1>1, <1>4, <1>5, OrderKept, OrderStep

LEMMA SettleKeeps ==
  ASSUME IInv, NEW p \in Request, Settle(p)
  PROVE  IInv'
<1> DEFINE o == process[p].order
<1>1. process[p].pc = "settle" /\ Goes(p, Idle) /\ UNCHANGED <<offer, kind, history>>
  BY DEF Settle
<1>2. o \in Created /\ o \in Order /\ kind[o] = "online"
  BY <1>1, HandlerFields DEF Fits
<1>3. /\ sale' \subseteq Order /\ Created' = Created
      /\ order' \in [Order -> [status : Status, pay : Pay]] /\ PaymentsFit'
  <2>1. CASE o \in sale
    BY <1>1, <2>1, OrderKept DEF Settle, IInv, TypeOK
  <2>2. CASE o \notin sale
    <3> DEFINE new == [status |-> "RESERVED", pay |-> "PAID"]
    <3>1. new \in [status : Status \ {"none"}, pay : Pay]
      BY DEF Status, Pay
    <3>2. order' = [order EXCEPT ![o] = new] /\ sale' = sale \cup {o}
      BY <2>2 DEF Settle
    <3>3. sale' \subseteq Order
      BY <1>2, <3>2 DEF IInv, TypeOK
    <3> HIDE DEF new
    <3> QED
      BY <1>1, <1>2, <3>1, <3>2, <3>3, OrderWritten
  <2> QED
    BY <2>1, <2>2
<1>4. process' \in [Request -> Handling] /\ HandlersFit' /\ CreatesApart'
  BY <1>1, <1>3, IdleHandles, MovesOn
<1> QED
  BY <1>1, <1>3, <1>4, OrderStep

(* A hand-over of a pickup: a bag goes from reserved to sold. *)
LEMMA ConfirmPickupKeeps ==
  ASSUME IInv, NEW o \in Order, ConfirmPickup(o)
  PROVE  IInv'
<1> DEFINE new == [status |-> "DONE", pay |-> IF kind[o] = "cash" THEN "PAID" ELSE order[o].pay]
           doc == [Released(offer) EXCEPT !.sold = @ + 1]
<1>1. /\ offer \in Offer /\ order \in [Order -> [status : Status, pay : Pay]]
      /\ offer.reserved \in Int /\ offer.sold \in Int /\ sale \subseteq Order
  BY DEF IInv, TypeOK, Offer
<1>2. o \in Created
  BY DEF ConfirmPickup, Claimable, Created
<1>3. order' = [order EXCEPT ![o] = new]
  <2> DEFINE pay == IF kind[o] = "cash" THEN "PAID" ELSE order[o].pay
             done == [order EXCEPT ![o] = [status |-> "DONE", pay |-> order[o].pay]]
  <2>1. order' = [[order EXCEPT ![o].status = "DONE"] EXCEPT ![o].pay = pay]
    BY <1>1 DEF ConfirmPickup
  <2>2. order' = [done EXCEPT ![o].pay = pay]
    BY <2>1, StatusWritten DEF IInv
  <2> HIDE DEF pay
  <2>3. done[o] = [status |-> "DONE", pay |-> order[o].pay]
    BY <1>1
  <2>4. [done[o] EXCEPT !.pay = pay] = [status |-> "DONE", pay |-> pay]
    BY <2>3
  <2>5. order' = [done EXCEPT ![o] = [status |-> "DONE", pay |-> pay]]
    BY <2>2, <2>4
  <2>6. order' = [order EXCEPT ![o] = [status |-> "DONE", pay |-> pay]]
    BY <1>1, <2>5
  <2> QED
    BY <2>6 DEF pay
<1>4. new \in [status : Status \ {"none"}, pay : Pay] /\ new.status = "DONE"
  BY <1>1 DEF Status, Pay
<1> HIDE DEF new
<1>5. /\ order' \in [Order -> [status : Status, pay : Pay]] /\ Created' = Created /\ PaymentsFit'
      /\ UNCHANGED <<kind, sale, process>>
  BY <1>2, <1>3, <1>4, OrderWritten DEF ConfirmPickup
<1>6. /\ doc \in Offer /\ doc.reserved = offer.reserved - 1 /\ doc.sold = offer.sold + 1
      /\ doc.max = offer.max /\ doc.slot = offer.slot
  BY <1>1, ReleasedType DEF Offer
<1>7. TakesOut(o, doc) /\ handed' = handed \cup {o} /\ kind[o] # "delivery" /\ gone[o] <= MaxGone
  BY DEF ConfirmPickup
<1> HIDE DEF doc
<1>8. /\ offer' \in Offer /\ gone' \in [Order -> 0..(MaxGone + 1)] /\ handed' \subseteq Order
      /\ SlotWithinMax' /\ HistoryFits' /\ CountersCount'
  BY <1>2, <1>5, <1>6, <1>7, TakenOut
<1>9. process' \in [Request -> Handling] /\ HandlersFit' /\ CreatesApart'
  BY <1>5, Standstill
<1> QED
  BY <1>1, <1>5, <1>8, <1>9, StockStep

LEMMA DeliverKeeps ==
  ASSUME IInv, NEW o \in Order, Deliver(o)
  PROVE  IInv'
<1>1. /\ order \in [Order -> [status : Status, pay : Pay]] /\ handed \subseteq Order /\ sale \subseteq Order
      /\ offer \in Offer /\ gone \in [Order -> 0..(MaxGone + 1)]
  BY DEF IInv, TypeOK
<1>2. o \in Created /\ kind[o] = "delivery" /\ UNCHANGED <<offer, kind, sale, process, gone>>
  BY DEF Deliver, Created
<1>3. \E new \in [status : Status \ {"none"}, pay : Pay] : order' = [order EXCEPT ![o] = new]
  <2>1. CASE order' = [order EXCEPT ![o] = [status |-> "DONE", pay |-> "PAID"]]
    BY <2>1 DEF Status, Pay
  <2>2. CASE order' = [order EXCEPT ![o].status = "CANCELLED"]
    <3>1. order' = [order EXCEPT ![o] = [status |-> "CANCELLED", pay |-> order[o].pay]]
      BY <2>2, StatusWritten DEF IInv
    <3> QED
      BY <1>1, <3>1 DEF Status
  <2> QED
    BY <2>1, <2>2 DEF Deliver
<1>4. /\ order' \in [Order -> [status : Status, pay : Pay]] /\ Created' = Created /\ PaymentsFit'
  BY <1>2, <1>3, OrderWritten
<1>5. handed' = handed \/ handed' = handed \cup {o}
  BY DEF Deliver
<1>6. PickedUp' = PickedUp /\ Held' = Held /\ handed' \subseteq Created
  BY <1>2, <1>4, <1>5 DEF PickedUp, Held, IInv, HistoryFits
<1>7. SlotWithinMax' /\ HistoryFits' /\ CountersCount'
  BY <1>2, <1>4, <1>6 DEF IInv, SlotWithinMax, HistoryFits, CountersCount
<1>8. process' \in [Request -> Handling] /\ HandlersFit' /\ CreatesApart'
  BY <1>2, <1>4, Standstill
<1> QED
  BY <1>1, <1>2, <1>4, <1>5, <1>7, <1>8, StockStep

(* The bag of an order is released, and the offer flagged or not. *)
LEMMA Returned ==
  ASSUME IInv, NEW o \in Created, NEW flag \in Flag,
         Return(o, Released(offer)) \/ Return(o, Flagged(Released(offer), flag)),
         Created' = Created, UNCHANGED kind
  PROVE  /\ offer' \in Offer /\ gone' \in [Order -> 0..(MaxGone + 1)] /\ handed' \subseteq Order
         /\ SlotWithinMax' /\ HistoryFits' /\ CountersCount'
<1>1. offer \in Offer /\ gone \in [Order -> 0..(MaxGone + 1)] /\ o \in Order
  BY DEF IInv, TypeOK, Created
<1>2. /\ Released(offer) \in Offer
      /\ Released(offer).reserved = offer.reserved - 1 /\ Released(offer).sold = offer.sold
      /\ Released(offer).max = offer.max /\ Released(offer).slot = offer.slot
  BY <1>1, ReleasedType DEF Offer
<1>3. \E doc \in Offer :
        /\ Return(o, doc)
        /\ doc.reserved = offer.reserved - 1 /\ doc.sold = offer.sold
        /\ doc.max = offer.max /\ doc.slot = offer.slot
  <2>1. CASE Return(o, Released(offer))
    BY <1>2, <2>1
  <2>2. CASE Return(o, Flagged(Released(offer), flag))
    BY <1>2, <2>2, FlaggedType
  <2> QED
    BY <2>1, <2>2
<1>4. PICK doc \in Offer :
        /\ Return(o, doc)
        /\ doc.reserved = offer.reserved - 1 /\ doc.sold = offer.sold
        /\ doc.max = offer.max /\ doc.slot = offer.slot
  BY <1>3
<1>5. TakesOut(o, doc) /\ UNCHANGED handed /\ gone[o] <= MaxGone
  BY <1>1, <1>4, BoundAssumption DEF Return
<1> QED
  BY <1>4, <1>5, TakenOut

LEMMA CancelUnpaidKeeps ==
  ASSUME IInv, NEW p \in Request, CancelUnpaid(p)
  PROVE  IInv'
<1> DEFINE o == process[p].order
<1>1. process[p].pc = "cancelUnpaid" /\ Goes(p, Idle) /\ UNCHANGED <<kind, sale>>
  BY DEF CancelUnpaid
<1>2. o \in Created /\ o \in Order
  BY <1>1, HandlerFields
<1>3. order \in [Order -> [status : Status, pay : Pay]] /\ sale \subseteq Order /\ offer \in Offer
  BY DEF IInv, TypeOK
<1>4. \E new \in [status : Status \ {"none"}, pay : Pay] :
        new.status = "CANCELLED" /\ order' = [order EXCEPT ![o] = new]
  <2> DEFINE new == [status |-> "CANCELLED", pay |-> order[o].pay]
  <2>1. new \in [status : Status \ {"none"}, pay : Pay]
    BY <1>2, <1>3 DEF Status
  <2>2. order' = [order EXCEPT ![o].status = "CANCELLED"]
    BY DEF CancelUnpaid
  <2>3. order' = [order EXCEPT ![o] = new]
    BY <1>2, <2>2, StatusWritten DEF IInv
  <2> QED
    BY <2>1, <2>3
<1>5. /\ order' \in [Order -> [status : Status, pay : Pay]] /\ Created' = Created /\ PaymentsFit'
  BY <1>1, <1>2, <1>4, OrderWritten
<1>6. FlagOf(Released(offer)) \in Flag
  BY <1>3, ReleasedType DEF FlagOf, Flag
<1>7. /\ offer' \in Offer /\ gone' \in [Order -> 0..(MaxGone + 1)] /\ handed' \subseteq Order
      /\ SlotWithinMax' /\ HistoryFits' /\ CountersCount'
  BY <1>1, <1>2, <1>5, <1>6, Returned DEF CancelUnpaid
<1>8. process' \in [Request -> Handling] /\ HandlersFit' /\ CreatesApart'
  BY <1>1, <1>5, IdleHandles, MovesOn
<1> QED
  BY <1>1, <1>3, <1>5, <1>7, <1>8, StockStep

LEMMA CancelPaidKeeps ==
  ASSUME IInv, NEW p \in Request, CancelPaid(p)
  PROVE  IInv'
<1> DEFINE o == process[p].order
<1>1. process[p].pc = "cancelPaid" /\ Goes(p, Idle) /\ UNCHANGED <<kind, sale>>
  BY DEF CancelPaid
<1>2. o \in Created /\ o \in Order /\ kind[o] = "online"
  BY <1>1, HandlerFields DEF Fits
<1>3. sale \subseteq Order /\ offer \in Offer
  BY DEF IInv, TypeOK
<1>4. CASE order[o].pay = "REFUND_PENDING"
  <2>1. UNCHANGED <<offer, order, history>>
    BY <1>4 DEF CancelPaid
  <2>2. Created' = Created
    BY <2>1 DEF Created
  <2>3. process' \in [Request -> Handling] /\ HandlersFit' /\ CreatesApart'
    BY <1>1, <2>2, IdleHandles, MovesOn
  <2> QED
    BY <1>1, <1>3, <2>1, <2>3, OrderKept, OrderStep
<1>5. CASE order[o].pay # "REFUND_PENDING"
  <2> DEFINE new == [status |-> "CANCELLED", pay |-> "REFUND_PENDING"]
  <2>1. new \in [status : Status \ {"none"}, pay : Pay] /\ order' = [order EXCEPT ![o] = new]
    BY <1>5 DEF CancelPaid, Status, Pay
  <2>2. /\ order' \in [Order -> [status : Status, pay : Pay]] /\ Created' = Created /\ PaymentsFit'
    BY <1>1, <1>2, <2>1, OrderWritten
  <2>3. FlagOf(Released(offer)) \in Flag
    BY <1>3, ReleasedType DEF FlagOf, Flag
  <2>4. /\ offer' \in Offer /\ gone' \in [Order -> 0..(MaxGone + 1)] /\ handed' \subseteq Order
        /\ SlotWithinMax' /\ HistoryFits' /\ CountersCount'
    BY <1>1, <1>2, <1>5, <2>2, <2>3, Returned DEF CancelPaid
  <2>5. process' \in [Request -> Handling] /\ HandlersFit' /\ CreatesApart'
    BY <1>1, <2>2, IdleHandles, MovesOn
  <2> QED
    BY <1>1, <1>3, <2>2, <2>4, <2>5, StockStep
<1> QED
  BY <1>4, <1>5

(* A write of a status, by id, of an order that exists. *)
LEMMA StatusKeeps ==
  ASSUME IInv, NEW o \in Created, NEW status \in Status \ {"none"},
         order' = [order EXCEPT ![o].status = status],
         kind[o] = "cash" => status \notin {"PENDING_PAYMENT", "RESERVED", "CONFIRMED"},
         UNCHANGED <<offer, kind, sale, history>>,
         \/ UNCHANGED process
         \/ \E p \in Request, next \in Handling :
              Goes(p, next) /\ (next = Idle \/ (next.pc # "create" /\ Fits(next)))
  PROVE  IInv'
<1>1. order \in [Order -> [status : Status, pay : Pay]] /\ sale \subseteq Order /\ o \in Order
  BY DEF IInv, TypeOK, Created
<1>2. \E new \in [status : Status \ {"none"}, pay : Pay] :
        new.status = status /\ order' = [order EXCEPT ![o] = new]
  <2> DEFINE new == [status |-> status, pay |-> order[o].pay]
  <2>1. new \in [status : Status \ {"none"}, pay : Pay] /\ order' = [order EXCEPT ![o] = new]
    BY <1>1, StatusWritten DEF IInv
  <2> QED
    BY <2>1
<1>3. /\ order' \in [Order -> [status : Status, pay : Pay]] /\ Created' = Created /\ PaymentsFit'
  BY <1>2, OrderWritten
<1>4. process' \in [Request -> Handling] /\ HandlersFit' /\ CreatesApart'
  BY <1>3, Standstill, MovesOn
<1> QED
  BY <1>1, <1>3, <1>4, OrderStep

(* A flag is written, from an older reading of the offer. *)
LEMMA FlagKeeps ==
  ASSUME IInv, NEW flag \in Flag, offer' = Flagged(offer, flag),
         UNCHANGED <<kind, order, sale, history>>,
         NEW p \in Request, NEW next \in Handling, Goes(p, next),
         next = Idle \/ (next.pc # "create" /\ Fits(next))
  PROVE  IInv'
<1>1. offer \in Offer /\ sale \subseteq Order /\ gone \in [Order -> 0..(MaxGone + 1)] /\ handed \subseteq Order
  BY DEF IInv, TypeOK
<1>2. /\ order' \in [Order -> [status : Status, pay : Pay]] /\ Created' = Created /\ PaymentsFit'
  BY OrderKept
<1>3. offer' \in Offer /\ SlotWithinMax' /\ HistoryFits' /\ CountersCount'
  BY <1>1, <1>2, FlaggedType, OfferRewritten
<1>4. process' \in [Request -> Handling] /\ HandlersFit' /\ CreatesApart'
  BY <1>2, MovesOn
<1> QED
  BY <1>1, <1>2, <1>3, <1>4, StockStep DEF history

LEMMA CancelLeftFits ==
  ASSUME IInv, NEW p \in Request, process[p].pc = "cancel", NEW write, NEW flag \in Flag
  PROVE  /\ CancelLeft(p, write, flag) \in Handling
         /\ CancelLeft(p, write, flag) = Idle
            \/ (CancelLeft(p, write, flag).pc # "create" /\ Fits(CancelLeft(p, write, flag)))
<1>1. process[p] \in [pc : {"cancel"}, order : Order, left : SUBSET {"status", "stock"}, flag : Flag]
  BY HandlerFields
<1>2. process[p].order \in Created
  BY HandlerFields
<1> DEFINE left == process[p].left \ {write}
           next == [pc |-> "cancel", order |-> process[p].order, left |-> left, flag |-> flag]
<1>3. [process[p] EXCEPT !.left = @ \ {write}, !.flag = flag] = next
  <2>1. [process[p] EXCEPT !.left = @ \ {write}]
          = [pc |-> "cancel", order |-> process[p].order, left |-> left, flag |-> process[p].flag]
    BY <1>1
  <2>2. [[pc |-> "cancel", order |-> process[p].order, left |-> left, flag |-> process[p].flag]
            EXCEPT !.flag = flag] = next
    OBVIOUS
  <2> QED
    BY <2>1, <2>2
<1>4. left \in SUBSET {"status", "stock"}
  BY <1>1
<1>5. next \in Handling /\ Fits(next)
  <2> HIDE DEF left
  <2> QED
    BY <1>1, <1>2, <1>4 DEF Handling, Fits
<1>6. next.pc # "create"
  OBVIOUS
<1> HIDE DEF next
<1> QED
  BY <1>3, <1>5, <1>6, IdleHandles DEF CancelLeft

LEMMA CancelKeeps ==
  ASSUME IInv, NEW p \in Request, CancelStatus(p) \/ CancelStock(p) \/ CancelFlag(p)
  PROVE  IInv'
<1> DEFINE o == process[p].order
<1>1. process[p].pc = "cancel" /\ UNCHANGED <<kind, sale>>
  BY DEF CancelStatus, CancelStock, CancelFlag
<1>2. o \in Created /\ process[p].flag \in Flag
  BY <1>1, HandlerFields
<1>3. sale \subseteq Order /\ offer \in Offer
  BY DEF IInv, TypeOK
<1>4. CASE CancelStatus(p)
  <2> DEFINE next == CancelLeft(p, "status", process[p].flag)
  <2>1. next \in Handling /\ (next = Idle \/ (next.pc # "create" /\ Fits(next)))
    BY <1>1, <1>2, CancelLeftFits
  <2>2. Goes(p, next) /\ UNCHANGED <<offer, kind, sale, history>>
        /\ order' = [order EXCEPT ![o].status = "CANCELLED"]
    BY <1>4 DEF CancelStatus
  <2>3. "CANCELLED" \in Status \ {"none"}
    BY DEF Status
  <2> HIDE DEF next
  <2> QED
    BY <1>2, <2>1, <2>2, <2>3, StatusKeeps
<1>5. CASE CancelStock(p)
  <2>1. FlagOf(Released(offer)) \in Flag
    BY <1>3, ReleasedType DEF FlagOf, Flag
  <2> DEFINE next == CancelLeft(p, "stock", FlagOf(Released(offer)))
  <2>2. next \in Handling /\ (next = Idle \/ (next.pc # "create" /\ Fits(next)))
    BY <1>1, <2>1, CancelLeftFits
  <2>3. Goes(p, next) /\ Return(o, Released(offer)) /\ UNCHANGED order
    BY <1>5 DEF CancelStock
  <2> HIDE DEF next
  <2>4. /\ order' \in [Order -> [status : Status, pay : Pay]] /\ Created' = Created /\ PaymentsFit'
    BY <1>1, <2>3, OrderKept
  <2>5. /\ offer' \in Offer /\ gone' \in [Order -> 0..(MaxGone + 1)] /\ handed' \subseteq Order
        /\ SlotWithinMax' /\ HistoryFits' /\ CountersCount'
    BY <1>1, <1>2, <2>1, <2>3, <2>4, Returned
  <2>6. process' \in [Request -> Handling] /\ HandlersFit' /\ CreatesApart'
    BY <1>1, <2>2, <2>3, <2>4, MovesOn
  <2> QED
    BY <1>1, <1>3, <2>4, <2>5, <2>6, StockStep
<1>6. CASE CancelFlag(p)
  <2>1. Goes(p, Idle) /\ offer' = Flagged(offer, process[p].flag) /\ UNCHANGED <<kind, order, sale, history>>
    BY <1>6 DEF CancelFlag
  <2> QED
    BY <1>2, <2>1, IdleHandles, FlagKeeps
<1> QED
  BY <1>4, <1>5, <1>6

LEMMA ExpireKeeps ==
  ASSUME IInv, NEW p \in Request, ExpireStock(p) \/ ExpireFlag(p) \/ ExpireStatus(p)
  PROVE  IInv'
<1> DEFINE o == process[p].order
           last == [pc |-> "expireStatus", order |-> o]
<1>1. process[p].pc \in {"expireStock", "expireFlag", "expireStatus"} /\ UNCHANGED <<kind, sale>>
  BY DEF ExpireStock, ExpireFlag, ExpireStatus
<1>2. o \in Created /\ o \in Order
  BY <1>1, HandlerFields
<1>3. sale \subseteq Order /\ offer \in Offer
  BY DEF IInv, TypeOK
<1>4. last \in Handling /\ last.pc # "create" /\ Fits(last)
  BY <1>2 DEF Handling, Fits
<1>5. CASE ExpireStock(p)
  <2> DEFINE flag == FlagOf(Released(offer))
             flagging == [pc |-> "expireFlag", order |-> o, flag |-> flag]
  <2>1. flag \in Flag
    BY <1>3, ReleasedType DEF FlagOf, Flag
  <2>2. Return(o, Released(offer)) /\ UNCHANGED order
        /\ (Goes(p, last) \/ Goes(p, flagging))
    BY <1>5 DEF ExpireStock
  <2> HIDE DEF flag
  <2>3. flagging \in Handling /\ flagging.pc # "create" /\ Fits(flagging)
    BY <1>2, <2>1 DEF Handling, Fits
  <2> HIDE DEF last, flagging
  <2>4. /\ order' \in [Order -> [status : Status, pay : Pay]] /\ Created' = Created /\ PaymentsFit'
    BY <1>1, <2>2, OrderKept
  <2>5. /\ offer' \in Offer /\ gone' \in [Order -> 0..(MaxGone + 1)] /\ handed' \subseteq Order
        /\ SlotWithinMax' /\ HistoryFits' /\ CountersCount'
    BY <1>1, <1>2, <2>1, <2>2, <2>4, Returned
  <2>6. process' \in [Request -> Handling] /\ HandlersFit' /\ CreatesApart'
    BY <1>1, <1>4, <2>2, <2>3, <2>4, MovesOn
  <2> QED
    BY <1>1, <1>3, <2>4, <2>5, <2>6, StockStep
<1>6. CASE ExpireFlag(p)
  <2>1. process[p].flag \in Flag
    BY <1>6, HandlerFields DEF ExpireFlag
  <2>2. Goes(p, last) /\ offer' = Flagged(offer, process[p].flag) /\ UNCHANGED <<kind, order, sale, history>>
    BY <1>6 DEF ExpireFlag
  <2> HIDE DEF last
  <2> QED
    BY <1>4, <2>1, <2>2, FlagKeeps
<1>7. CASE ExpireStatus(p)
  <2>1. Goes(p, Idle) /\ UNCHANGED <<offer, kind, sale, history>>
        /\ order' = [order EXCEPT ![o].status = "EXPIRED"]
    BY <1>7 DEF ExpireStatus
  <2>2. "EXPIRED" \in Status \ {"none"}
    BY DEF Status
  <2> QED
    BY <1>2, <2>1, <2>2, IdleHandles, StatusKeeps
<1> QED
  BY <1>5, <1>6, <1>7

LEMMA PaymentExpiresKeeps ==
  ASSUME IInv, NEW p \in Request, PaymentExpires(p)
  PROVE  IInv'
<1> DEFINE o == process[p].order
           new == [status |-> "EXPIRED", pay |-> "UNPAID"]
<1>1. /\ process[p].pc = "payExpire" /\ Goes(p, Idle) /\ UNCHANGED <<kind, sale>>
      /\ Return(o, Released(offer)) /\ order' = [order EXCEPT ![o] = new]
  BY DEF PaymentExpires
<1>2. o \in Created
  BY <1>1, HandlerFields
<1>3. sale \subseteq Order /\ offer \in Offer
  BY DEF IInv, TypeOK
<1>4. new \in [status : Status \ {"none"}, pay : Pay] /\ new.status = "EXPIRED"
  BY DEF Status, Pay
<1> HIDE DEF new
<1>5. /\ order' \in [Order -> [status : Status, pay : Pay]] /\ Created' = Created /\ PaymentsFit'
  BY <1>1, <1>2, <1>4, OrderWritten
<1>6. "keep" \in Flag
  BY DEF Flag
<1>7. /\ offer' \in Offer /\ gone' \in [Order -> 0..(MaxGone + 1)] /\ handed' \subseteq Order
      /\ SlotWithinMax' /\ HistoryFits' /\ CountersCount'
  BY <1>1, <1>2, <1>5, <1>6, Returned
<1>8. process' \in [Request -> Handling] /\ HandlersFit' /\ CreatesApart'
  BY <1>1, <1>5, IdleHandles, MovesOn
<1> QED
  BY <1>1, <1>3, <1>5, <1>7, <1>8, StockStep

LEMMA WriteStatusKeeps ==
  ASSUME IInv, NEW p \in Request, WriteStatus(p)
  PROVE  IInv'
<1> DEFINE o == process[p].order
           target == process[p].target
<1>1. /\ process[p].pc = "write" /\ Goes(p, Idle) /\ UNCHANGED <<offer, kind, sale, history>>
      /\ order' = [order EXCEPT ![o].status = target]
  BY DEF WriteStatus
<1>2. o \in Created /\ Fits(process[p])
  BY <1>1, HandlerFields
<1>3. target \in Status \ {"none"}
  BY <1>1, <1>2 DEF Fits, Status
<1>4. kind[o] = "cash" => target \notin {"PENDING_PAYMENT", "RESERVED", "CONFIRMED"}
  BY <1>1, <1>2 DEF Fits
<1> HIDE DEF target
<1> QED
  BY <1>1, <1>2, <1>3, <1>4, IdleHandles, StatusKeeps

LEMMA SuspendUserKeeps ==
  ASSUME IInv, NEW o \in Order, SuspendUser(o)
  PROVE  IInv'
<1>1. o \in Created /\ "CANCELLED" \in Status \ {"none"}
  BY DEF SuspendUser, Created, Status
<1>2. UNCHANGED <<offer, kind, sale, process, history>> /\ order' = [order EXCEPT ![o].status = "CANCELLED"]
  BY DEF SuspendUser
<1> QED
  BY <1>1, <1>2, StatusKeeps

LEMMA RefundKeeps ==
  ASSUME IInv, NEW p \in Request, Refund(p)
  PROVE  IInv'
<1> DEFINE o == process[p].order
           new == [status |-> process[p].target, pay |-> "REFUND_PENDING"]
<1>1. /\ process[p].pc = "refund" /\ Goes(p, Idle) /\ UNCHANGED <<offer, kind, sale, history>>
      /\ order' = order \/ order' = [order EXCEPT ![o] = new]
  BY DEF Refund
<1>2. o \in Created /\ Fits(process[p])
  BY <1>1, HandlerFields
<1>3. new \in [status : Status \ {"none"}, pay : Pay] /\ kind[o] = "online"
  BY <1>1, <1>2 DEF Fits, Status, Pay
<1> HIDE DEF new
<1>4. /\ order' \in [Order -> [status : Status, pay : Pay]] /\ Created' = Created /\ PaymentsFit'
  BY <1>1, <1>2, <1>3, OrderWritten, OrderKept
<1>5. process' \in [Request -> Handling] /\ HandlersFit' /\ CreatesApart'
  BY <1>1, <1>4, IdleHandles, MovesOn
<1>6. sale' \subseteq Order
  BY <1>1 DEF IInv, TypeOK
<1> QED
  BY <1>1, <1>4, <1>5, <1>6, OrderStep

LEMMA RecordOfflineRefundKeeps ==
  ASSUME IInv, NEW o \in Order, RecordOfflineRefund(o)
  PROVE  IInv'
<1> DEFINE new == [status |-> "REFUNDED", pay |-> "REFUNDED"]
<1>1. o \in Created /\ order' = [order EXCEPT ![o] = new]
      /\ UNCHANGED <<offer, kind, sale, process, history>>
  BY DEF RecordOfflineRefund, Created
<1>2. new \in [status : Status \ {"none"}, pay : Pay] /\ new.status = "REFUNDED"
  BY DEF Status, Pay
<1> HIDE DEF new
<1>3. /\ order' \in [Order -> [status : Status, pay : Pay]] /\ Created' = Created /\ PaymentsFit'
  BY <1>1, <1>2, OrderWritten
<1>4. process' \in [Request -> Handling] /\ HandlersFit' /\ CreatesApart'
  BY <1>1, <1>3, Standstill
<1>5. sale' \subseteq Order
  BY <1>1 DEF IInv, TypeOK
<1> QED
  BY <1>1, <1>3, <1>4, <1>5, OrderStep

LEMMA EditTotalKeeps ==
  ASSUME IInv, NEW n \in Total, EditTotal(n)
  PROVE  IInv'
<1> DEFINE doc == [offer EXCEPT !.total = n]
<1>1. offer' = doc /\ UNCHANGED <<kind, order, sale, process, history>>
  BY DEF EditTotal
<1>2. offer \in Offer /\ sale \subseteq Order /\ gone \in [Order -> 0..(MaxGone + 1)] /\ handed \subseteq Order
  BY DEF IInv, TypeOK
<1>3. /\ doc \in Offer /\ doc.reserved = offer.reserved /\ doc.sold = offer.sold
      /\ doc.max = offer.max /\ doc.slot = offer.slot
  BY <1>2 DEF Offer
<1> HIDE DEF doc
<1>4. /\ order' \in [Order -> [status : Status, pay : Pay]] /\ Created' = Created /\ PaymentsFit'
  BY <1>1, OrderKept
<1>5. SlotWithinMax' /\ HistoryFits' /\ CountersCount'
  BY <1>1, <1>3, <1>4, OfferRewritten
<1>6. process' \in [Request -> Handling] /\ HandlersFit' /\ CreatesApart'
  BY <1>1, <1>4, Standstill
<1> QED
  BY <1>1, <1>2, <1>3, <1>4, <1>5, <1>6, StockStep DEF history

LEMMA ReactivateKeeps ==
  ASSUME IInv, Reactivate
  PROVE  IInv'
<1>1. offer' = Fresh(offer) /\ handed' = {} /\ UNCHANGED <<kind, order, sale, process>>
      /\ gone' = [o \in Order |-> IF order[o].status # "none" /\ gone[o] = 0 THEN 1 ELSE gone[o]]
  BY DEF Reactivate
<1>2. offer \in Offer /\ sale \subseteq Order /\ gone \in [Order -> 0..(MaxGone + 1)]
  BY DEF IInv, TypeOK
<1>3. offer' \in Offer /\ offer'.reserved = 0 /\ offer'.sold = 0 /\ offer'.slot = 0 /\ offer'.max = offer.max
  BY <1>1, <1>2 DEF Fresh, Offer
<1>4. gone' \in [Order -> 0..(MaxGone + 1)]
  BY <1>1, <1>2, BoundAssumption
<1>5. /\ order' \in [Order -> [status : Status, pay : Pay]] /\ Created' = Created /\ PaymentsFit'
  BY <1>1, OrderKept
<1>6. SlotWithinMax'
  BY <1>2, <1>3 DEF SlotWithinMax, Offer
<1>7. Held' = {} /\ PickedUp' = {}
  BY <1>1, <1>5 DEF Held, PickedUp, Created
<1>8. \A o \in Order : gone'[o] > 0 => o \in Created
  BY <1>1 DEF IInv, HistoryFits, Created
<1>9. HistoryFits' /\ CountersCount'
  BY <1>1, <1>3, <1>5, <1>7, <1>8, FS_EmptySet DEF IInv, HistoryFits, CountersCount
<1>10. process' \in [Request -> Handling] /\ HandlersFit' /\ CreatesApart'
  BY <1>1, <1>5, Standstill
<1> QED
  BY <1>1, <1>2, <1>3, <1>4, <1>5, <1>6, <1>9, <1>10, StockStep

------------------------------------------------------------------------------
LEMMA NextKeeps == IInv /\ [Next]_vars => IInv'
<1> SUFFICES ASSUME IInv, [Next]_vars PROVE IInv'
  OBVIOUS
<1>1. ASSUME NEW p \in Request, Continue(p) PROVE IInv'
  BY <1>1, CreateKeeps, RetryCreateKeeps, SettleKeeps, CancelUnpaidKeeps, CancelPaidKeeps,
     CancelKeeps, ExpireKeeps, PaymentExpiresKeeps, WriteStatusKeeps, RefundKeeps DEF Continue
<1>2. ASSUME NEW p \in Request, NEW o \in Order, Start(p, o) PROVE IInv'
  BY <1>2, StartKeeps
<1>3. ASSUME NEW o \in Order,
             ConfirmPickup(o) \/ Deliver(o) \/ SuspendUser(o) \/ RecordOfflineRefund(o)
      PROVE  IInv'
  BY <1>3, ConfirmPickupKeeps, DeliverKeeps, SuspendUserKeeps, RecordOfflineRefundKeeps
<1>4. ASSUME NEW n \in Total, EditTotal(n) PROVE IInv'
  BY <1>4, EditTotalKeeps
<1>5. CASE Reactivate
  BY <1>5, ReactivateKeeps
<1>6. CASE UNCHANGED vars
  <2>1. UNCHANGED <<offer, kind, order, sale, process, history>>
    BY <1>6 DEF vars, history
  <2>2. sale' \subseteq Order /\ Created' = Created /\ UNCHANGED kind
    BY <2>1 DEF IInv, TypeOK, Created
  <2> QED
    BY <2>1, <2>2, OrderKept, Standstill, OrderStep
<1> QED
  BY <1>1, <1>2, <1>3, <1>4, <1>5, <1>6 DEF Next

LEMMA Invariance == Spec => []IInv
BY InitInv, NextKeeps, PTL DEF Spec

(* Whatever handlers run, the offer, the orders and the handlers keep their
   types. *)
THEOREM StockTypeCorrect == Spec => []TypeOK
<1>1. IInv => TypeOK
  BY DEF IInv
<1> QED
  BY Invariance, <1>1, PTL

(* No more orders are taken in a slot than its maxOrders. *)
THEOREM SlotIsRespected == Spec => []SlotWithinMax
<1>1. IInv => SlotWithinMax
  BY DEF IInv
<1> QED
  BY Invariance, <1>1, PTL

LEMMA OwedIsCovered == IInv => CountersCoverOrders
<1> SUFFICES ASSUME IInv, ~WronglyTaken
             PROVE  /\ Cardinality(Owed) <= Committed
                    /\ offer.sold = Cardinality(PickedUp)
  BY DEF CountersCoverOrders, PickedUp
<1>1. /\ gone \in [Order -> 0..(MaxGone + 1)] /\ order \in [Order -> [status : Status, pay : Pay]]
      /\ handed \subseteq Order
  BY DEF IInv, TypeOK
<1>2. \A o \in Order : gone[o] <= 1
  BY <1>1 DEF WronglyTaken
<1>3. offer.reserved = Cardinality(Held) /\ offer.sold = Cardinality(PickedUp)
  BY <1>2 DEF IInv, CountersCount
<1>4. ASSUME NEW o \in Owed PROVE o \in Held \cup PickedUp
  <2>1. o \in Order /\ gone[o] \in {0, 1} /\ o \in Created
    <3>1. (o \in Order /\ order[o].status # "none") \/ o \in handed
      BY DEF Owed, Live
    <3>2. o \in Created
      BY <3>1 DEF Created, IInv, HistoryFits
    <3>3. gone[o] \in 0..(MaxGone + 1) /\ gone[o] <= 1
      BY <1>1, <1>2, <3>2 DEF Created
    <3> QED
      BY <3>2, <3>3 DEF Created
  <2>2. CASE gone[o] = 0
    BY <2>1, <2>2 DEF Held
  <2>3. CASE gone[o] = 1
    BY <2>1, <2>3 DEF WronglyTaken, Owed, PickedUp
  <2> QED
    BY <2>1, <2>2, <2>3
<1>5. /\ IsFiniteSet(Held) /\ IsFiniteSet(PickedUp)
      /\ Cardinality(Held) \in Nat /\ Cardinality(PickedUp) \in Nat
  BY HistoryIsFinite DEF IInv
<1>6. /\ IsFiniteSet(Held \cup PickedUp)
      /\ Cardinality(Held \cup PickedUp)
           = Cardinality(Held) + Cardinality(PickedUp) - Cardinality(Held \cap PickedUp)
  BY <1>5, FS_Union
<1>7. Held \cap PickedUp = {}
  BY <1>2 DEF Held, IInv, HistoryFits
<1>8. Cardinality(Held \cup PickedUp) = Cardinality(Held) + Cardinality(PickedUp)
  <2>1. Cardinality(Held \cap PickedUp) = 0
    BY <1>7, FS_EmptySet
  <2> QED
    BY <1>5, <1>6, <2>1
<1>9. Owed \subseteq Held \cup PickedUp
  BY <1>4
<1>10. Cardinality(Owed) <= Cardinality(Held \cup PickedUp)
  BY <1>6, <1>9, FS_Subset
<1> QED
  BY <1>3, <1>8, <1>10 DEF Committed

(* The counters cover every bag that is owed or was handed over, and the sold
   ones are the pickups, unless some bag was taken out wrongly. *)
THEOREM CountersCover == Spec => []CountersCoverOrders
BY Invariance, OwedIsCovered, PTL

(* The steps that raise a counter or set them all. *)
LEMMA CounterMoves ==
  ASSUME IInv, Next
  PROVE  \/ \E p \in Request : Create(p)
         \/ \E o \in Order : ConfirmPickup(o)
         \/ \E n \in Total : EditTotal(n)
         \/ Reactivate
         \/ offer'.reserved <= offer.reserved /\ offer'.sold = offer.sold
<1>1. offer \in Offer /\ offer.reserved \in Int /\ offer.sold \in Int
  BY DEF IInv, TypeOK, Offer
<1>2. /\ Released(offer) \in Offer /\ Released(offer).reserved = offer.reserved - 1
      /\ Released(offer).sold = offer.sold
  BY <1>1, ReleasedType DEF Offer
<1>3. FlagOf(Released(offer)) \in Flag
  BY DEF FlagOf, Flag
<1>4. ASSUME NEW p \in Request, Continue(p), ~Create(p)
      PROVE  offer'.reserved <= offer.reserved /\ offer'.sold = offer.sold
  <2>1. CASE UNCHANGED offer
    BY <1>1, <2>1
  <2>2. CASE offer' = Released(offer) \/ offer' = Flagged(Released(offer), FlagOf(Released(offer)))
    BY <1>1, <1>2, <1>3, <2>2, FlaggedType
  <2>3. CASE CancelFlag(p) \/ ExpireFlag(p)
    <3>1. offer' = Flagged(offer, process[p].flag) /\ process[p].flag \in Flag
      BY <2>3, HandlerFields DEF CancelFlag, ExpireFlag
    <3> QED
      BY <1>1, <3>1, FlaggedType
  <2>4. \/ UNCHANGED offer
        \/ offer' = Released(offer) \/ offer' = Flagged(Released(offer), FlagOf(Released(offer)))
        \/ CancelFlag(p) \/ ExpireFlag(p)
    BY <1>4 DEF Continue, RetryCreate, Settle, CancelUnpaid, CancelPaid, CancelStatus, CancelStock,
         ExpireStock, ExpireStatus, PaymentExpires, WriteStatus, Refund, Return, TakesOut, history
  <2> QED
    BY <2>1, <2>2, <2>3, <2>4
<1>5. ASSUME NEW p \in Request, NEW o \in Order, Start(p, o) PROVE UNCHANGED offer
  BY <1>5 DEF Start, StartCreate, StartSettle, StartCancel, StartExpireOrder, StartPaymentExpiry,
         StartWrite, StartRefund
<1>6. ASSUME NEW o \in Order, Deliver(o) \/ SuspendUser(o) \/ RecordOfflineRefund(o)
      PROVE  UNCHANGED offer
  BY <1>6 DEF Deliver, SuspendUser, RecordOfflineRefund
<1>7. UNCHANGED offer => offer'.reserved <= offer.reserved /\ offer'.sold = offer.sold
  BY <1>1
<1> QED
  BY <1>4, <1>5, <1>6, <1>7 DEF Next

(* No step but an edit of the total commits more bags than the offer has:
   reservedQuantity only rises in a checkout that found a bag available in the
   document it writes. *)
LEMMA EditStep ==
  IInv /\ [Next]_vars =>
    [Committed <= offer.total /\ Committed' > offer'.total => offer'.total # offer.total]_vars
<1> SUFFICES ASSUME IInv, Next, Committed <= offer.total, offer'.total = offer.total
             PROVE  ~(Committed' > offer'.total)
  BY DEF vars
<1>1. offer \in Offer /\ offer.reserved \in Int /\ offer.sold \in Int /\ offer.total \in Nat
  BY OfferAssumption DEF IInv, TypeOK, Offer, Total
<1>2. offer' \in Offer /\ offer'.reserved \in Int /\ offer'.sold \in Int
  BY NextKeeps DEF IInv, TypeOK, Offer
<1>3. ASSUME NEW p \in Request, Create(p) PROVE Committed' <= offer.total
  BY <1>1, <1>3, CreateCounts DEF Committed, Available
<1>4. ASSUME NEW o \in Order, ConfirmPickup(o) PROVE Committed' <= offer.total
  <2>1. /\ Released(offer) \in Offer /\ Released(offer).reserved = offer.reserved - 1
        /\ Released(offer).sold = offer.sold
    BY <1>1, ReleasedType DEF Offer
  <2>2. offer' = [Released(offer) EXCEPT !.sold = Released(offer).sold + 1]
    BY <1>4 DEF ConfirmPickup, TakesOut
  <2>3. offer'.reserved = offer.reserved - 1 /\ offer'.sold = offer.sold + 1
    BY <2>1, <2>2 DEF Offer
  <2> QED
    BY <1>1, <2>3 DEF Committed
<1>5. ASSUME NEW n \in Total, EditTotal(n) PROVE FALSE
  <2>1. offer'.total = n
    BY <1>1, <1>5 DEF EditTotal, Offer
  <2>2. n < offer.total /\ n \in Nat
    BY <1>5, OfferAssumption DEF EditTotal, Total
  <2> QED
    BY <1>1, <2>1, <2>2
<1>6. ASSUME Reactivate PROVE Committed' <= offer.total
  BY <1>1, <1>6 DEF Reactivate, Fresh, Committed
<1>7. ASSUME offer'.reserved <= offer.reserved, offer'.sold = offer.sold PROVE Committed' <= offer.total
  BY <1>1, <1>2, <1>7 DEF Committed
<1>8. Committed' <= offer.total
  BY <1>3, <1>4, <1>5, <1>6, <1>7, CounterMoves
<1>9. Committed' \in Int
  BY <1>2 DEF Committed
<1> QED
  BY <1>1, <1>8, <1>9

(* Two customers in the checkout never share the last bag. *)
THEOREM OvercommitIsEdited == Spec => OnlyAnEditOvercommits
BY Invariance, EditStep, PTL DEF Spec, OnlyAnEditOvercommits

(* soldQuantity rises only in a hand-over, and a cash order is handed over
   unpaid. *)
LEMMA SoldStep ==
  IInv /\ [Next]_vars =>
    [offer'.sold > offer.sold =>
       \E o \in Order : /\ gone'[o] > gone[o]
                        /\ kind[o] = "cash" => order[o].pay = "UNPAID"]_vars
<1> SUFFICES ASSUME IInv, Next, offer'.sold > offer.sold
             PROVE  \E o \in Order : /\ gone'[o] > gone[o]
                                     /\ kind[o] = "cash" => order[o].pay = "UNPAID"
  BY DEF vars
<1>1. offer \in Offer /\ offer.sold \in Int /\ offer.sold >= 0 /\ gone \in [Order -> 0..(MaxGone + 1)]
  BY DEF IInv, TypeOK, Offer, HistoryFits
<1>2. ASSUME NEW p \in Request, Create(p) PROVE FALSE
  BY <1>1, <1>2, CreateCounts
<1>3. ASSUME NEW n \in Total, EditTotal(n) PROVE FALSE
  BY <1>1, <1>3 DEF EditTotal, Offer
<1>4. ASSUME Reactivate PROVE FALSE
  BY <1>1, <1>4 DEF Reactivate, Fresh
<1>5. ASSUME offer'.sold = offer.sold PROVE FALSE
  BY <1>1, <1>5
<1>6. PICK o \in Order : ConfirmPickup(o)
  BY <1>2, <1>3, <1>4, <1>5, CounterMoves
<1>7. gone'[o] = gone[o] + 1
  BY <1>1, <1>6 DEF ConfirmPickup, TakesOut
<1>8. gone[o] \in Int
  BY <1>1, BoundAssumption
<1>9. kind[o] = "cash" => order[o].status = "RESERVED"
  BY <1>6 DEF ConfirmPickup, Claimable, IInv, PaymentsFit
<1>10. kind[o] = "cash" => order[o].pay = "UNPAID"
  BY <1>9 DEF IInv, PaymentsFit
<1> QED
  BY <1>7, <1>8, <1>10

(* A pickup paid in cash is sold once. *)
THEOREM CashBagIsSoldOnce == Spec => CashBagSoldOnce
BY Invariance, SoldStep, PTL DEF Spec, CashBagSoldOnce

==============================================================================
