------------------------------- MODULE DriverCash -------------------------------
(***************************************************************************)
(* The cash of one driver's deliveries: the merchant paid from the float at *)
(* pickup, the customer's cash at the door, failed deliveries and what      *)
(* becomes of the food, float movements, and the handovers that settle it   *)
(* with TFTW. Amounts are whole units of money.                            *)
(*                                                                         *)
(* A delivery step reads and writes one order and its one record, so its    *)
(* transaction is one action. A handover reads all open records and writes  *)
(* some, and a float movement reads a sum and inserts a row: those two keep *)
(* their snapshot and commit in a second step.                             *)
(***************************************************************************)
EXTENDS Integers, Sequences, FiniteSets, FiniteSetsExt

CONSTANTS Order, Admin,
          Delivery,     \* the kinds of delivery that exist
          Settled,      \* what the commission decision may take from a sale
          Door,         \* what a customer may pay at the door
          Counted,      \* handover amounts, signed
          FloatAmount,
          MaxBatches, MaxMovements   \* bounds of the model

DeliveryType == [subtotal : Nat, fee : Nat, keeps : Nat, online : BOOLEAN]

ASSUME OrderAssumption == IsFiniteSet(Order)
ASSUME DeliveryAssumption ==
  /\ Delivery \subseteq DeliveryType
  /\ \A d \in Delivery : d.keeps <= d.fee
ASSUME AmountAssumption ==
  /\ Settled \subseteq Nat /\ Door \subseteq Nat
  /\ Counted \subseteq Int \ {0} /\ FloatAmount \subseteq Nat \ {0}
  /\ MaxBatches \in Nat /\ MaxMovements \in Nat

VARIABLES delivery,    \* Order -> Delivery
          status,      \* Order -> order.status
          recovery,    \* Order -> order.deliveryFailure.recovery
          cash,        \* Order -> its DriverDeliveryCash record
          paidOrder,   \* orders by paidToMerchantAt
          movements,   \* driver_float_movements
          batches,     \* driver_cash_handovers
          pocket,      \* the TFTW cash the driver really holds
          txn          \* Admin -> the open transaction of an admin request

vars == <<delivery, status, recovery, cash, paidOrder, movements, batches, pocket, txn>>

Status == {"DRIVER_ASSIGNED", "OUT_FOR_DELIVERY", "DELIVERED", "CANCELLED"}
Recovery == {"NONE", "RECOVERABLE_PENDING", "RETURNED_TO_MERCHANT", "UNRECOVERABLE"}
CashStatus ==
  {"NONE", "EXPECTED", "COLLECTED", "SHORT", "PARTIALLY_HANDED_OVER", "HANDED_OVER", "FAILED"}

\* collectedCash, dueToTftw and outstandingCash are null while EXPECTED: 0 here.
Record ==
  [status : CashStatus, paid : Nat, expected : Nat, collected : Nat, returned : Nat,
   keeps : Nat, due : Int, handed : Int, outstanding : Int, shortfall : Nat, loss : Nat,
   recovery : Recovery]

NoRecord ==
  [status |-> "NONE", paid |-> 0, expected |-> 0, collected |-> 0, returned |-> 0,
   keeps |-> 0, due |-> 0, handed |-> 0, outstanding |-> 0, shortfall |-> 0, loss |-> 0,
   recovery |-> "NONE"]

Movement == [type : {"ISSUED", "RETURNED"}, amount : Nat]
Batch == [amount : Int, unallocated : Int]
Idle == [kind |-> "idle"]

TypeOK ==
  /\ delivery \in [Order -> Delivery]
  /\ status \in [Order -> Status]
  /\ recovery \in [Order -> Recovery]
  /\ cash \in [Order -> Record]
  /\ paidOrder \in Seq(Order)
  /\ movements \in Seq(Movement)
  /\ batches \in Seq(Batch)
  /\ pocket \in Int
  /\ txn \in [Admin -> {Idle}
       \cup [kind : {"handover"}, amount : Counted, seen : [Order -> Record]]
       \cup [kind : {"float"}, move : Movement, seen : Int]]

Init ==
  /\ delivery \in [Order -> Delivery]
  /\ status = [o \in Order |-> "DRIVER_ASSIGNED"]
  /\ recovery = [o \in Order |-> "NONE"]
  /\ cash = [o \in Order |-> NoRecord]
  /\ paidOrder = <<>>
  /\ movements = <<>>
  /\ batches = <<>>
  /\ pocket = 0
  /\ txn = [a \in Admin |-> Idle]

--------------------------------------------------------------------------------
(* The rules of driver-cash.util.                                           *)

Larger(a, b) == IF a >= b THEN a ELSE b
Smaller(a, b) == IF a <= b THEN a ELSE b
Size(n) == IF n < 0 THEN -n ELSE n
Sign(n) == IF n > 0 THEN 1 ELSE IF n < 0 THEN -1 ELSE 0

\* buildMerchantPickupCash
PickupCash(d, settled) ==
  [NoRecord EXCEPT !.status = "EXPECTED", !.paid = d.subtotal - settled,
                   !.expected = IF d.online THEN 0 ELSE d.subtotal + d.fee,
                   !.keeps = d.keeps]

DueFrom(r) == r.collected + r.returned - r.paid - r.keeps

\* recordCollection
Collection(r, collected) ==
  LET shortfall == Larger(0, r.expected - collected)
      counted == [r EXCEPT !.collected = collected, !.shortfall = shortfall,
                           !.status = IF shortfall > 0 THEN "SHORT" ELSE "COLLECTED"]
  IN  [counted EXCEPT !.due = DueFrom(counted), !.outstanding = DueFrom(counted)]

\* Mutation: the loss is booked while the food may still come back.
LossWhilePending(r, online, outcome) ==
  IF outcome # "RETURNED_TO_MERCHANT" /\ ~online THEN r.paid ELSE 0

LossOf(r, online, outcome) == IF outcome = "UNRECOVERABLE" /\ ~online THEN r.paid ELSE 0
ReturnOf(r, outcome) == IF outcome = "RETURNED_TO_MERCHANT" THEN r.paid ELSE 0

\* recordFailure
Failure(r, online, outcome) ==
  LET failed == [r EXCEPT !.status = "FAILED", !.returned = ReturnOf(r, outcome), !.keeps = 0,
                          !.loss = LossOf(r, online, outcome), !.recovery = outcome]
  IN  [failed EXCEPT !.due = DueFrom(failed), !.outstanding = DueFrom(failed)]

\* resolveRecovery: what a handover has moved stays moved.
Resolved(r, online, outcome) ==
  LET resolved == [r EXCEPT !.returned = ReturnOf(r, outcome), !.recovery = outcome,
                            !.loss = LossOf(r, online, outcome)]
  IN  [resolved EXCEPT !.due = DueFrom(resolved),
                       !.outstanding = DueFrom(resolved) - resolved.handed]

\* Mutations: the whole amount lands on each record; a status the schema does
\* not have is written.
TakeAll(remaining, outstanding) == remaining
AfterHandoverClosed(r, left) == IF left = 0 THEN "CLOSED" ELSE r.status

Take(remaining, outstanding) == Smaller(remaining, Size(outstanding))

AfterHandover(r, left) ==
  IF r.status \in {"SHORT", "FAILED"} THEN r.status
  ELSE IF left = 0 THEN "HANDED_OVER" ELSE "PARTIALLY_HANDED_OVER"

\* The query for the open records of the driver.
Open(r) ==
  /\ r.status \in {"COLLECTED", "SHORT", "PARTIALLY_HANDED_OVER", "FAILED"}
  /\ r.outstanding # 0

\* allocateHandover, one record: only where the sign is the batch's.
Spread(acc, o, r, sign) ==
  LET take == Take(acc.remaining, r.outstanding)
      left == r.outstanding - sign * take
  IN  IF acc.remaining = 0 \/ ~Open(r) \/ Sign(r.outstanding) # sign THEN acc
      ELSE [remaining |-> acc.remaining - take,
            cash |-> [acc.cash EXCEPT
              ![o] = [r EXCEPT !.outstanding = left, !.handed = @ + sign * take,
                               !.status = AfterHandover(r, left)]],
            written |-> acc.written \cup {o}]

\* allocateHandover: oldest first.
Allocate(records, oldest, amount) ==
  LET acc[i \in 0 .. Len(oldest)] ==
        IF i = 0 THEN [remaining |-> Size(amount), cash |-> records, written |-> {}]
        ELSE Spread(acc[i - 1], oldest[i], records[oldest[i]], Sign(amount))
  IN  acc[Len(oldest)]

--------------------------------------------------------------------------------
(* The driver's steps.                                                      *)

\* onMerchantPickup: the decision's merchantAmount is the subtotal less what it
\* settled (CommissionBook decides it).
OnMerchantPickup(o) ==
  /\ status[o] = "DRIVER_ASSIGNED"
  /\ \E settled \in {s \in Settled : s <= delivery[o].subtotal} :
       /\ cash' = [cash EXCEPT ![o] = PickupCash(delivery[o], settled)]
       /\ pocket' = pocket - (delivery[o].subtotal - settled)
  /\ status' = [status EXCEPT ![o] = "OUT_FOR_DELIVERY"]
  /\ paidOrder' = Append(paidOrder, o)
  /\ UNCHANGED <<delivery, recovery, movements, batches, txn>>

\* onDelivered: the amount may be left out by an old app, and is then taken to
\* be what was expected; an online order refuses any cash.
OnDelivered(o) ==
  /\ status[o] = "OUT_FOR_DELIVERY"
  /\ \E collected \in Door \cup {cash[o].expected} :
       /\ delivery[o].online => collected = 0
       /\ cash' = [cash EXCEPT ![o] = Collection(@, collected)]
       /\ pocket' = pocket + collected - cash[o].keeps
  /\ status' = [status EXCEPT ![o] = "DELIVERED"]
  /\ UNCHANGED <<delivery, recovery, paidOrder, movements, batches, txn>>

\* onFailed. (A failure that is the merchant's fault must return the food; the
\* others may end in any of the three ways, and the fault has no other effect.)
OnFailed(o, outcome) ==
  /\ status[o] = "OUT_FOR_DELIVERY"
  /\ status' = [status EXCEPT ![o] = "CANCELLED"]
  /\ recovery' = [recovery EXCEPT ![o] = outcome]
  /\ cash' = [cash EXCEPT ![o] = Failure(@, delivery[o].online, outcome)]
  /\ pocket' = pocket + ReturnOf(cash[o], outcome)
  /\ UNCHANGED <<delivery, paidOrder, movements, batches, txn>>

\* resolveFailedRecovery
ResolveFailedRecovery(o, outcome) ==
  /\ recovery[o] = "RECOVERABLE_PENDING"
  /\ recovery' = [recovery EXCEPT ![o] = outcome]
  /\ cash' = [cash EXCEPT ![o] = Resolved(@, delivery[o].online, outcome)]
  /\ pocket' = pocket + ReturnOf(cash[o], outcome)
  /\ UNCHANGED <<delivery, status, paidOrder, movements, batches, txn>>

\* OrdersService.cancel of an order on its way: the record stays EXPECTED.
CancelledOnTheWay(o) ==
  /\ status[o] = "OUT_FOR_DELIVERY"
  /\ status' = [status EXCEPT ![o] = "CANCELLED"]
  /\ UNCHANGED <<delivery, recovery, cash, paidOrder, movements, batches, pocket, txn>>

--------------------------------------------------------------------------------
(* recordHandover                                                           *)

ReadHandover(a, amount) ==
  /\ txn[a] = Idle
  /\ Len(batches) < MaxBatches
  /\ txn' = [txn EXCEPT ![a] =
               [kind |-> "handover", amount |-> amount, seen |-> cash]]
  /\ UNCHANGED <<delivery, status, recovery, cash, paidOrder, movements, batches, pocket>>

\* The records are tried in the order in which the merchants were paid: who was
\* paid since they were read is not open among them.
Allocated(a) == Allocate(txn[a].seen, paidOrder, txn[a].amount)

\* Mutation: the records are written without the session.
UnguardedConflict(a) == FALSE

\* A record to be written has changed since it was read: the store refuses the
\* write, and withTransaction runs the handover again.
HandoverConflict(a) == \E o \in Allocated(a).written : cash[o] # txn[a].seen[o]

CommitHandover(a) ==
  /\ txn[a].kind = "handover"
  /\ ~HandoverConflict(a)
  /\ Len(batches) < MaxBatches
  /\ LET done == Allocated(a) IN
     /\ cash' = [o \in Order |-> IF o \in done.written THEN done.cash[o] ELSE cash[o]]
     /\ batches' = Append(batches, [amount |-> txn[a].amount,
                                    unallocated |-> Sign(txn[a].amount) * done.remaining])
  /\ pocket' = pocket - txn[a].amount
  /\ txn' = [txn EXCEPT ![a] = Idle]
  /\ UNCHANGED <<delivery, status, recovery, paidOrder, movements>>

RetryHandover(a) ==
  /\ txn[a].kind = "handover"
  /\ HandoverConflict(a)
  /\ txn' = [txn EXCEPT ![a].seen = cash]
  /\ UNCHANGED <<delivery, status, recovery, cash, paidOrder, movements, batches, pocket>>

\* The model's bound on batches was reached meanwhile.
AbandonHandover(a) ==
  /\ txn[a].kind = "handover" /\ Len(batches) = MaxBatches
  /\ txn' = [txn EXCEPT ![a] = Idle]
  /\ UNCHANGED <<delivery, status, recovery, cash, paidOrder, movements, batches, pocket>>

--------------------------------------------------------------------------------
(* moveFloat: the sum is read and a row inserted. Two inserts never conflict. *)

Total(type) ==
  SumFunction([i \in {j \in DOMAIN movements : movements[j].type = type} |-> movements[i].amount])

CurrentFloat == Total("ISSUED") - Total("RETURNED")

ReadFloat(a, move) ==
  /\ txn[a] = Idle
  /\ Len(movements) < MaxMovements
  /\ move.type = "RETURNED" => move.amount <= CurrentFloat
  /\ txn' = [txn EXCEPT ![a] = [kind |-> "float", move |-> move, seen |-> CurrentFloat]]
  /\ UNCHANGED <<delivery, status, recovery, cash, paidOrder, movements, batches, pocket>>

InsertMovement(a) ==
  /\ txn[a].kind = "float"
  /\ LET move == txn[a].move IN
     /\ movements' = Append(movements, move)
     /\ pocket' = IF move.type = "ISSUED" THEN pocket + move.amount ELSE pocket - move.amount
  /\ txn' = [txn EXCEPT ![a] = Idle]
  /\ UNCHANGED <<delivery, status, recovery, cash, paidOrder, batches>>

--------------------------------------------------------------------------------
DeliveryStep(o) ==
  \/ OnMerchantPickup(o) \/ OnDelivered(o) \/ CancelledOnTheWay(o)
  \/ \E outcome \in Recovery \ {"NONE"} : OnFailed(o, outcome)
  \/ \E outcome \in {"RETURNED_TO_MERCHANT", "UNRECOVERABLE"} : ResolveFailedRecovery(o, outcome)

AdminStep(a) ==
  \/ \E amount \in Counted : ReadHandover(a, amount)
  \/ CommitHandover(a) \/ RetryHandover(a) \/ AbandonHandover(a)
  \/ \E type \in {"ISSUED", "RETURNED"}, amount \in FloatAmount :
       ReadFloat(a, [type |-> type, amount |-> amount])
  \/ InsertMovement(a)

Next == (\E o \in Order : DeliveryStep(o)) \/ (\E a \in Admin : AdminStep(a))

Spec == Init /\ [][Next]_vars

--------------------------------------------------------------------------------
(* Properties.                                                              *)

Settling == {o \in Order : cash[o].status \notin {"NONE", "EXPECTED"}}
Waiting == {o \in Order : cash[o].status = "EXPECTED"}

\* reconciliation(): cashDriverShouldHold, the float plus what the driver owes
\* less what TFTW owes the driver.
CashDriverShouldHold ==
  CurrentFloat
    + SumFunction([o \in Settling |-> Larger(0, cash[o].outstanding)])
    - SumFunction([o \in Settling |-> Larger(0, -cash[o].outstanding)])

\* What the driver really holds is what reconciliation says, once the merchants
\* paid for deliveries still on the way and the cash of handovers that matched
\* no record are set off: no handover, however it races another or a resolved
\* delivery, makes cash appear or vanish.
PocketExplained ==
  pocket = CashDriverShouldHold
             - SumFunction([o \in Waiting |-> cash[o].paid])
             - SumFunction([i \in DOMAIN batches |-> batches[i].unallocated])

\* A handover pays debts down and never past zero, whatever it races with: no
\* record changes sides, and a short or failed delivery keeps its flag.
HandoverPaysDown ==
  [][batches' # batches =>
       \A o \in Order :
         /\ Size(cash'[o].outstanding) <= Size(cash[o].outstanding)
         /\ cash'[o].outstanding * cash[o].outstanding >= 0
         /\ cash[o].status \in {"SHORT", "FAILED"} => cash'[o].status = cash[o].status]_vars

\* A failed delivery's money is decided once: the merchant gives back what was
\* paid, or TFTW books it as lost, never both, and order and record agree.
FailureSettledOnce ==
  \A o \in Order :
    /\ cash[o].returned + cash[o].loss <= cash[o].paid
    /\ cash[o].status = "FAILED" =>
         /\ cash[o].recovery = recovery[o]
         /\ cash[o].recovery = "RECOVERABLE_PENDING" => cash[o].returned + cash[o].loss = 0
================================================================================
