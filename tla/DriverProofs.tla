------------------------------ MODULE DriverProofs ------------------------------
(***************************************************************************)
(* What holds of the drivers' two components, for any drivers, orders,     *)
(* requests, amounts and limits. Of an order in the drivers' pool: its     *)
(* type, that food once collected stays with its driver, and that a late   *)
(* timeout spares the next driver. Of a driver's cash: its type, that a    *)
(* failed delivery is settled once, that what the driver holds is what the *)
(* reconciliation says, and that a handover only pays debts down.          *)
(***************************************************************************)
EXTENDS DriverDispatch, DriverCash, Sums

--------------------------------------------------------------------------------
(* The pool.                                                                *)

(* The statuses OrdersService writes by id.  None of them gives an order a
   driver. *)
PlainTargets == {"CONFIRMED", "READY_FOR_PICKUP", "CANCELLED", "EXPIRED"}

PlainWrites ==
  \A r \in Request : request[r].pc = "write" => request[r].target \in PlainTargets

(* An order whose merchant was paid has left DRIVER_ASSIGNED, the only status
   a driver can be taken off it in, and has a driver, so that it cannot be
   claimed although a plain write may show it as CONFIRMED. *)
CollectedIsHeld ==
  \A o \in DeliveryOrder :
    pickups[o] > 0 => driver[o] # NoDriver /\ orderStatus[o] # "DRIVER_ASSIGNED"

DispatchIInv == DispatchTypeOK /\ PlainWrites /\ CollectedIsHeld

-------------------------------------------------------------------------------
LEMMA DispatchInitInv == DispatchInit => DispatchIInv
BY LimitAssumption
   DEF DispatchInit, DispatchIInv, DispatchTypeOK, PlainWrites, CollectedIsHeld, OrderStatus,
       NoJob, NoHandler

LEMMA StartAcceptKeeps ==
  ASSUME DispatchIInv, NEW r \in Request, NEW d \in Driver, NEW o \in DeliveryOrder,
         StartAccept(r, d, o)
  PROVE  DispatchIInv'
<1>1. DispatchTypeOK'
  BY DEF DispatchIInv, DispatchTypeOK, StartAccept, Becomes
<1>2. PlainWrites'
  BY DEF DispatchIInv, DispatchTypeOK, PlainWrites, StartAccept, Becomes
<1>3. CollectedIsHeld'
  BY DEF DispatchIInv, CollectedIsHeld, StartAccept
<1> QED
  BY <1>1, <1>2, <1>3 DEF DispatchIInv

LEMMA ClaimKeeps ==
  ASSUME DispatchIInv, NEW r \in Request, Claim(r)
  PROVE  DispatchIInv'
<1> DEFINE d == request[r].driver
           o == request[r].order
<1>1. d \in Driver /\ o \in DeliveryOrder
  BY DEF DispatchIInv, DispatchTypeOK, Claim, NoHandler
<1>2. request[r] \in [pc : {"claim", "schedule"}, driver : Driver, order : DeliveryOrder]
  BY DEF DispatchIInv, DispatchTypeOK, Claim, NoHandler
<1>3. \E next \in {NoHandler} \cup [pc : {"schedule"}, driver : Driver, order : DeliveryOrder] :
        request' = [request EXCEPT ![r] = next]
  BY <1>2 DEF Claim, Becomes
<1>4. /\ orderStatus' \in [DeliveryOrder -> OrderStatus]
      /\ driver' \in [DeliveryOrder -> Driver \cup {NoDriver}]
  BY <1>1 DEF DispatchIInv, DispatchTypeOK, Claim, OrderStatus
<1>5. DispatchTypeOK'
  BY <1>3, <1>4 DEF DispatchIInv, DispatchTypeOK, Claim
<1>6. PlainWrites'
  BY <1>3 DEF DispatchIInv, DispatchTypeOK, PlainWrites, NoHandler
<1>7. CollectedIsHeld'
  BY <1>1 DEF DispatchIInv, DispatchTypeOK, CollectedIsHeld, Claim
<1> QED
  BY <1>5, <1>6, <1>7 DEF DispatchIInv

LEMMA ScheduleTimeoutKeeps ==
  ASSUME DispatchIInv, NEW r \in Request, ScheduleTimeout(r)
  PROVE  DispatchIInv'
<1>1. request[r].driver \in Driver /\ request[r].order \in DeliveryOrder
  BY DEF DispatchIInv, DispatchTypeOK, ScheduleTimeout, NoHandler
<1>2. DispatchTypeOK'
  BY <1>1 DEF DispatchIInv, DispatchTypeOK, ScheduleTimeout, Becomes
<1>3. PlainWrites'
  BY DEF DispatchIInv, DispatchTypeOK, PlainWrites, ScheduleTimeout, Becomes, NoHandler
<1>4. CollectedIsHeld'
  BY DEF DispatchIInv, CollectedIsHeld, ScheduleTimeout
<1> QED
  BY <1>2, <1>3, <1>4 DEF DispatchIInv

LEMMA MarkPickedUpKeeps ==
  ASSUME DispatchIInv, NEW o \in DeliveryOrder, NEW d \in Driver, MarkPickedUp(o, d)
  PROVE  DispatchIInv'
<1>1. DispatchTypeOK'
  BY DEF DispatchIInv, DispatchTypeOK, MarkPickedUp, OrderStatus
<1>2. PlainWrites'
  BY DEF DispatchIInv, PlainWrites, MarkPickedUp
<1>3. CollectedIsHeld'
  BY DriverAssumption DEF DispatchIInv, DispatchTypeOK, CollectedIsHeld, MarkPickedUp
<1> QED
  BY <1>1, <1>2, <1>3 DEF DispatchIInv

LEMMA FinishKeeps ==
  ASSUME DispatchIInv, NEW r \in Request, NEW o \in DeliveryOrder, NEW d \in Driver,
         NEW final \in {"DELIVERED", "CANCELLED"}, Finish(r, o, d, final)
  PROVE  DispatchIInv'
<1>1. DispatchTypeOK'
  BY DEF DispatchIInv, DispatchTypeOK, Finish, Becomes, OrderStatus
<1>2. PlainWrites'
  BY DEF DispatchIInv, DispatchTypeOK, PlainWrites, Finish, Becomes
<1>3. CollectedIsHeld'
  BY DEF DispatchIInv, DispatchTypeOK, CollectedIsHeld, Finish
<1> QED
  BY <1>1, <1>2, <1>3 DEF DispatchIInv

(* A drop, by the driver or by the timeout, of an order not yet collected. *)
LEMMA ReleaseKeeps ==
  ASSUME DispatchIInv, NEW o \in DeliveryOrder, NEW d, Releasable(o, d),
         releases[o] < MaxReleases, Release(o)
  PROVE  /\ orderStatus' \in [DeliveryOrder -> OrderStatus]
         /\ driver' \in [DeliveryOrder -> Driver \cup {NoDriver}]
         /\ releases' \in [DeliveryOrder -> 0..MaxReleases]
         /\ UNCHANGED pickups => CollectedIsHeld'
<1>1. /\ orderStatus' \in [DeliveryOrder -> OrderStatus]
      /\ driver' \in [DeliveryOrder -> Driver \cup {NoDriver}]
  BY DEF DispatchIInv, DispatchTypeOK, Release, OrderStatus
<1>2. releases' \in [DeliveryOrder -> 0..MaxReleases]
  BY LimitAssumption DEF DispatchIInv, DispatchTypeOK, Release
<1>3. UNCHANGED pickups => CollectedIsHeld'
  BY DEF DispatchIInv, DispatchTypeOK, CollectedIsHeld, Release, Releasable
<1> QED
  BY <1>1, <1>2, <1>3

LEMMA UnassignOrderKeeps ==
  ASSUME DispatchIInv, NEW r \in Request, NEW o \in DeliveryOrder, NEW d \in Driver,
         UnassignOrder(r, o, d)
  PROVE  DispatchIInv'
<1>1. /\ orderStatus' \in [DeliveryOrder -> OrderStatus]
      /\ driver' \in [DeliveryOrder -> Driver \cup {NoDriver}]
      /\ releases' \in [DeliveryOrder -> 0..MaxReleases]
      /\ CollectedIsHeld'
  BY ReleaseKeeps DEF UnassignOrder
<1>2. DispatchTypeOK'
  BY <1>1 DEF DispatchIInv, DispatchTypeOK, UnassignOrder, Becomes
<1>3. PlainWrites'
  BY DEF DispatchIInv, DispatchTypeOK, PlainWrites, UnassignOrder, Becomes
<1> QED
  BY <1>1, <1>2, <1>3 DEF DispatchIInv

LEMMA RemoveJobKeeps ==
  ASSUME DispatchIInv, NEW r \in Request, RemoveJob(r)
  PROVE  DispatchIInv'
<1>1. DispatchTypeOK'
  BY DEF DispatchIInv, DispatchTypeOK, RemoveJob, Becomes, NoJob
<1>2. PlainWrites'
  BY DEF DispatchIInv, DispatchTypeOK, PlainWrites, RemoveJob, Becomes, NoHandler
<1>3. CollectedIsHeld'
  BY DEF DispatchIInv, CollectedIsHeld, RemoveJob
<1> QED
  BY <1>1, <1>2, <1>3 DEF DispatchIInv

LEMMA AutoUnassignKeeps ==
  ASSUME DispatchIInv, NEW o \in DeliveryOrder, AutoUnassign(o)
  PROVE  DispatchIInv'
<1>1. /\ orderStatus' \in [DeliveryOrder -> OrderStatus]
      /\ driver' \in [DeliveryOrder -> Driver \cup {NoDriver}]
      /\ releases' \in [DeliveryOrder -> 0..MaxReleases]
      /\ CollectedIsHeld'
  <2>1. CASE Releasable(o, job[o].driver)
    BY <2>1, ReleaseKeeps DEF AutoUnassign
  <2>2. CASE ~Releasable(o, job[o].driver)
    BY <2>2 DEF DispatchIInv, DispatchTypeOK, CollectedIsHeld, AutoUnassign
  <2> QED
    BY <2>1, <2>2
<1>2. DispatchTypeOK'
  BY <1>1, ZenonT(40) DEF DispatchIInv, DispatchTypeOK, AutoUnassign
<1>3. PlainWrites'
  BY DEF DispatchIInv, PlainWrites, AutoUnassign
<1> QED
  BY <1>1, <1>2, <1>3 DEF DispatchIInv

LEMMA JobStepKeeps ==
  ASSUME DispatchIInv, NEW o \in DeliveryOrder,
         TimeoutFires(o) \/ TimeoutThrows(o) \/ JobRemoved(o)
  PROVE  DispatchIInv'
<1>1. \E next \in [state : {"none", "active", "failed"}, driver : Driver \cup {NoDriver}] :
        job' = [job EXCEPT ![o] = next]
  BY DEF DispatchIInv, DispatchTypeOK, TimeoutFires, TimeoutThrows, JobRemoved, NoJob
<1>2. DispatchTypeOK'
  BY <1>1 DEF DispatchIInv, DispatchTypeOK, TimeoutFires, TimeoutThrows, JobRemoved
<1>3. PlainWrites' /\ CollectedIsHeld'
  BY DEF DispatchIInv, PlainWrites, CollectedIsHeld, TimeoutFires, TimeoutThrows,
       JobRemoved
<1> QED
  BY <1>2, <1>3 DEF DispatchIInv

LEMMA ReadForWriteKeeps ==
  ASSUME DispatchIInv, NEW r \in Request, NEW o \in DeliveryOrder, NEW target \in OrderStatus,
         ReadForWrite(r, o, target)
  PROVE  DispatchIInv'
<1>1. target \in PlainTargets
  BY DEF ReadForWrite, MayWrite, OrderStatus, PlainTargets
<1>2. DispatchTypeOK'
  BY DEF DispatchIInv, DispatchTypeOK, ReadForWrite, Becomes
<1>3. PlainWrites'
  BY <1>1 DEF DispatchIInv, DispatchTypeOK, PlainWrites, ReadForWrite, Becomes
<1>4. CollectedIsHeld'
  BY DEF DispatchIInv, CollectedIsHeld, ReadForWrite
<1> QED
  BY <1>2, <1>3, <1>4 DEF DispatchIInv

LEMMA WriteStatusKeeps ==
  ASSUME DispatchIInv, NEW r \in Request, WriteStatus(r)
  PROVE  DispatchIInv'
<1>1. request[r].order \in DeliveryOrder /\ request[r].target \in PlainTargets
  BY DEF DispatchIInv, DispatchTypeOK, PlainWrites, WriteStatus, NoHandler
<1>2. DispatchTypeOK'
  BY <1>1 DEF DispatchIInv, DispatchTypeOK, WriteStatus, Becomes, PlainTargets, OrderStatus
<1>3. PlainWrites'
  BY DEF DispatchIInv, DispatchTypeOK, PlainWrites, WriteStatus, Becomes, NoHandler
<1>4. CollectedIsHeld'
  BY <1>1 DEF DispatchIInv, DispatchTypeOK, CollectedIsHeld, WriteStatus, PlainTargets
<1> QED
  BY <1>2, <1>3, <1>4 DEF DispatchIInv

LEMMA DispatchNextKeeps == DispatchIInv /\ [DispatchNext]_dispatchVars => DispatchIInv'
<1> SUFFICES ASSUME DispatchIInv, [DispatchNext]_dispatchVars PROVE DispatchIInv'
  OBVIOUS
<1>1. CASE \E d \in Driver : SetOnlineStatus(d)
  BY <1>1 DEF DispatchIInv, DispatchTypeOK, PlainWrites, CollectedIsHeld, SetOnlineStatus
<1>2. ASSUME NEW r \in Request, NEW d \in Driver, NEW o \in DeliveryOrder,
             \/ StartAccept(r, d, o) \/ UnassignOrder(r, o, d)
             \/ MarkDelivered(r, o, d) \/ FailDelivery(r, o, d)
      PROVE  DispatchIInv'
  BY <1>2, StartAcceptKeeps, UnassignOrderKeeps, FinishKeeps DEF MarkDelivered, FailDelivery
<1>3. CASE \E d \in Driver, o \in DeliveryOrder : MarkPickedUp(o, d)
  BY <1>3, MarkPickedUpKeeps
<1>4. CASE \E r \in Request, o \in DeliveryOrder, target \in OrderStatus :
             ReadForWrite(r, o, target)
  BY <1>4, ReadForWriteKeeps
<1>5. CASE \E r \in Request : Handler(r)
  BY <1>5, ClaimKeeps, ScheduleTimeoutKeeps, RemoveJobKeeps, WriteStatusKeeps DEF Handler
<1>6. CASE \E o \in DeliveryOrder : Worker(o)
  BY <1>6, JobStepKeeps, AutoUnassignKeeps DEF Worker
<1>7. CASE UNCHANGED dispatchVars
  BY <1>7 DEF dispatchVars, DispatchIInv, DispatchTypeOK, PlainWrites, CollectedIsHeld
<1> QED
  BY <1>1, <1>2, <1>3, <1>4, <1>5, <1>6, <1>7 DEF DispatchNext

LEMMA DispatchInvariance == DispatchSpec => []DispatchIInv
BY DispatchInitInv, DispatchNextKeeps, PTL DEF DispatchSpec

(* Every state of dispatch has its type: no step leaves an order in a status
   the drivers do not know, nor counts more releases than are allowed. *)
THEOREM DispatchTypeCorrect == DispatchSpec => []DispatchTypeOK
<1>1. DispatchIInv => DispatchTypeOK
  BY DEF DispatchIInv
<1> QED
  BY <1>1, DispatchInvariance, PTL

-------------------------------------------------------------------------------
(* What one step may do to the driver of an order. *)

LEMMA CollectedStep ==
  DispatchIInv /\ [DispatchNext]_dispatchVars =>
    [\A o \in DeliveryOrder : pickups[o] > 0 => driver'[o] = driver[o]]_dispatchVars
<1> SUFFICES ASSUME DispatchIInv, DispatchNext, NEW x \in DeliveryOrder, pickups[x] > 0
             PROVE  driver'[x] = driver[x]
  OBVIOUS
<1>1. driver[x] # NoDriver /\ orderStatus[x] # "DRIVER_ASSIGNED"
  BY DEF DispatchIInv, CollectedIsHeld
<1>2. ASSUME NEW r \in Request, Claim(r)
      PROVE  driver'[x] = driver[x]
  BY <1>1, <1>2 DEF DispatchIInv, DispatchTypeOK, Claim
<1>3. ASSUME NEW o \in DeliveryOrder, NEW d, Releasable(o, d), Release(o)
      PROVE  driver'[x] = driver[x]
  BY <1>1, <1>3 DEF DispatchIInv, DispatchTypeOK, Releasable, Release
<1>4. CASE \E r \in Request : Handler(r)
  BY <1>4, <1>2 DEF Handler, ScheduleTimeout, RemoveJob, WriteStatus
<1>5. CASE \E r \in Request, d \in Driver, o \in DeliveryOrder :
             \/ StartAccept(r, d, o) \/ UnassignOrder(r, o, d)
             \/ MarkDelivered(r, o, d) \/ FailDelivery(r, o, d)
  BY <1>5, <1>3 DEF StartAccept, UnassignOrder, MarkDelivered, FailDelivery, Finish
<1>6. CASE \E o \in DeliveryOrder : Worker(o)
  BY <1>6, <1>3 DEF Worker, TimeoutFires, AutoUnassign, TimeoutThrows, JobRemoved
<1>7. CASE \/ \E d \in Driver : SetOnlineStatus(d)
           \/ \E d \in Driver, o \in DeliveryOrder : MarkPickedUp(o, d)
           \/ \E r \in Request, o \in DeliveryOrder, target \in OrderStatus :
                ReadForWrite(r, o, target)
  BY <1>7 DEF SetOnlineStatus, MarkPickedUp, ReadForWrite
<1> QED
  BY <1>4, <1>5, <1>6, <1>7 DEF DispatchNext

(* Once a driver has collected the food and paid the merchant, the order is
   never another driver's: acceptOrder, releaseOrder, the timeout and the
   status writes of OrdersService interleaved in any way. *)
THEOREM CollectedStays == DispatchSpec => CollectedStaysWithDriver
BY DispatchInvariance, CollectedStep, PTL DEF DispatchSpec, CollectedStaysWithDriver

LEMMA TimeoutStep ==
  DispatchIInv /\ [DispatchNext]_dispatchVars =>
    [\A o \in DeliveryOrder :
       job[o].state = "active" /\ job'[o].state = "handled" /\ driver[o] # job[o].driver
         => driver'[o] = driver[o]]_dispatchVars
<1> SUFFICES ASSUME DispatchIInv, DispatchNext, NEW x \in DeliveryOrder,
                    job[x].state = "active", job'[x].state = "handled",
                    driver[x] # job[x].driver
             PROVE  driver'[x] = driver[x]
  OBVIOUS
<1>1. ASSUME NEW r \in Request, NEW d \in Driver, NEW o \in DeliveryOrder, UnassignOrder(r, o, d)
      PROVE  FALSE
  BY <1>1 DEF UnassignOrder
<1>2. ASSUME NEW o \in DeliveryOrder, AutoUnassign(o)
      PROVE  driver'[x] = driver[x]
  BY <1>2 DEF DispatchIInv, DispatchTypeOK, AutoUnassign, Releasable, Release
<1>3. CASE \E r \in Request : Claim(r)
  BY <1>3 DEF Claim
<1>4. CASE \E r \in Request : ScheduleTimeout(r) \/ RemoveJob(r) \/ WriteStatus(r)
  BY <1>4 DEF ScheduleTimeout, RemoveJob, WriteStatus
<1>5. CASE \E o \in DeliveryOrder : TimeoutFires(o) \/ TimeoutThrows(o) \/ JobRemoved(o)
  BY <1>5 DEF TimeoutFires, TimeoutThrows, JobRemoved
<1>6. CASE \/ \E d \in Driver : SetOnlineStatus(d)
           \/ \E d \in Driver, o \in DeliveryOrder : MarkPickedUp(o, d)
           \/ \E r \in Request, o \in DeliveryOrder, target \in OrderStatus :
                ReadForWrite(r, o, target)
           \/ \E r \in Request, d \in Driver, o \in DeliveryOrder :
                StartAccept(r, d, o) \/ MarkDelivered(r, o, d) \/ FailDelivery(r, o, d)
  BY <1>6 DEF SetOnlineStatus, MarkPickedUp, ReadForWrite, StartAccept, MarkDelivered,
              FailDelivery, Finish
<1> QED
  BY <1>1, <1>2, <1>3, <1>4, <1>5, <1>6 DEF DispatchNext, Handler, Worker

(* A timeout that fires when the order is with somebody else leaves it
   there, whatever the queue still held and whoever accepted meanwhile. *)
THEOREM TimeoutSpares == DispatchSpec => TimeoutSparesNextDriver
BY DispatchInvariance, TimeoutStep, PTL DEF DispatchSpec, TimeoutSparesNextDriver
-------------------------------------------------------------------------------
(* The float pays the merchant for an order once, whoever has carried it. *)
MerchantPaidOnce == \A o \in DeliveryOrder : pickups[o] <= 1

LEMMA PaidOnceKeeps ==
  DispatchIInv /\ MerchantPaidOnce /\ [DispatchNext]_dispatchVars => MerchantPaidOnce'
<1> SUFFICES ASSUME DispatchIInv, MerchantPaidOnce, [DispatchNext]_dispatchVars
             PROVE  MerchantPaidOnce'
  OBVIOUS
<1>1. ASSUME NEW o \in DeliveryOrder, NEW d \in Driver, MarkPickedUp(o, d)
      PROVE  MerchantPaidOnce'
  <2>1. pickups[o] = 0
    BY <1>1 DEF DispatchIInv, DispatchTypeOK, CollectedIsHeld, MarkPickedUp
  <2> QED
    BY <1>1, <2>1 DEF DispatchIInv, DispatchTypeOK, MerchantPaidOnce, MarkPickedUp
<1>2. CASE UNCHANGED pickups
  BY <1>2 DEF MerchantPaidOnce
<1>3. CASE \E r \in Request : Handler(r)
  BY <1>2, <1>3 DEF Handler, Claim, ScheduleTimeout, RemoveJob, WriteStatus
<1>4. CASE \E o \in DeliveryOrder : Worker(o)
  BY <1>2, <1>4 DEF Worker, TimeoutFires, AutoUnassign, TimeoutThrows, JobRemoved
<1>5. CASE \E r \in Request, d \in Driver, o \in DeliveryOrder :
             \/ StartAccept(r, d, o) \/ UnassignOrder(r, o, d)
             \/ MarkDelivered(r, o, d) \/ FailDelivery(r, o, d)
  BY <1>2, <1>5 DEF StartAccept, UnassignOrder, MarkDelivered, FailDelivery, Finish
<1>6. CASE \/ \E d \in Driver : SetOnlineStatus(d)
           \/ \E r \in Request, o \in DeliveryOrder, target \in OrderStatus :
                ReadForWrite(r, o, target)
  BY <1>2, <1>6 DEF SetOnlineStatus, ReadForWrite
<1> QED
  BY <1>1, <1>2, <1>3, <1>4, <1>5, <1>6 DEF DispatchNext, dispatchVars

(* However often an order is dropped, taken back and claimed again, one
   merchant pickup is recorded for it: an order that was collected cannot come
   back to DRIVER_ASSIGNED. *)
THEOREM MerchantPaidAtMostOnce == DispatchSpec => []MerchantPaidOnce
<1>1. DispatchInit => MerchantPaidOnce
  BY DEF DispatchInit, MerchantPaidOnce
<1> QED
  BY <1>1, DispatchInvariance, PaidOnceKeeps, PTL DEF DispatchSpec

--------------------------------------------------------------------------------
(* The cash.                                                                *)

(* What a record owes for an order in a status and a recovery. *)
Fits(st, rc, r) ==
  /\ st = "DRIVER_ASSIGNED" => r.status = "NONE"
  /\ st = "OUT_FOR_DELIVERY" => r.status = "EXPECTED"
  /\ r.status \in {"NONE", "EXPECTED"} =>
        r.collected = 0 /\ r.outstanding = 0 /\ r.handed = 0
  /\ r.status \notin {"NONE", "EXPECTED"} => r.outstanding + r.handed = DueFrom(r)
  /\ r.status # "FAILED" => rc = "NONE" /\ r.returned = 0 /\ r.loss = 0
  /\ r.status = "FAILED" =>
        /\ r.recovery = rc /\ r.returned + r.loss <= r.paid
        /\ rc = "RECOVERABLE_PENDING" => r.returned = 0 /\ r.loss = 0

RecordsFit == \A o \in Order : Fits(status[o], recovery[o], cash[o])

(* A merchant is paid once for an order. *)
PaidFit ==
  /\ \A i, j \in DOMAIN paidOrder : paidOrder[i] = paidOrder[j] => i = j
  /\ \A i \in DOMAIN paidOrder : status[paidOrder[i]] # "DRIVER_ASSIGNED"

(* What a record adds to the driver's pocket. *)
Contribution(r) == IF r.status = "EXPECTED" THEN -r.paid ELSE r.outstanding

Contributed == SumFunctionOnSet([o \in Order |-> Contribution(cash[o])], Order)

(* The sums over movements and batches, of any such sequences. *)
OfType(ms, type) == {i \in DOMAIN ms : ms[i].type = type}
TotalOf(ms, type) == SumFunctionOnSet([i \in OfType(ms, type) |-> ms[i].amount], OfType(ms, type))
UnmatchedOf(bs) == SumFunctionOnSet([i \in DOMAIN bs |-> bs[i].unallocated], DOMAIN bs)
Unmatched == UnmatchedOf(batches)

Balanced == pocket = CurrentFloat + Contributed - Unmatched

IInv == TypeOK /\ RecordsFit /\ PaidFit /\ Balanced

-----------------------------------------------------------------------------
(* What the rules of driver-cash.util write. *)

LEMMA NoRecordIs ==
  /\ NoRecord \in Record /\ NoRecord.status = "NONE" /\ NoRecord.collected = 0
  /\ NoRecord.outstanding = 0 /\ NoRecord.handed = 0 /\ NoRecord.returned = 0
  /\ NoRecord.loss = 0
BY DEF NoRecord, Record, CashStatus, Recovery

LEMMA PickupIs ==
  ASSUME NEW d \in DeliveryType, NEW s \in Nat, s <= d.subtotal
  PROVE  LET r == PickupCash(d, s) IN
         /\ r \in Record /\ r.status = "EXPECTED" /\ r.paid = d.subtotal - s
         /\ r.collected = 0 /\ r.outstanding = 0 /\ r.handed = 0
         /\ r.returned = 0 /\ r.loss = 0
<1> DEFINE p == d.subtotal - s
           e == IF d.online THEN 0 ELSE d.subtotal + d.fee
           k == d.keeps
           q == [NoRecord EXCEPT !.status = "EXPECTED", !.paid = p, !.expected = e, !.keeps = k]
<1>1. p \in Nat /\ e \in Nat /\ k \in Nat
  BY DEF DeliveryType
<1>2. PickupCash(d, s) = q
  BY DEF PickupCash
<1> HIDE DEF p, e, k
<1>3. \A n \in Record : n.collected = 0 /\ n.outstanding = 0 /\ n.handed = 0
                          /\ n.returned = 0 /\ n.loss = 0 =>
        LET r == [n EXCEPT !.status = "EXPECTED", !.paid = p, !.expected = e, !.keeps = k]
        IN  /\ r \in Record /\ r.status = "EXPECTED" /\ r.paid = p
            /\ r.collected = 0 /\ r.outstanding = 0 /\ r.handed = 0
            /\ r.returned = 0 /\ r.loss = 0
  BY <1>1 DEF Record, CashStatus
<1>4. /\ q \in Record /\ q.status = "EXPECTED" /\ q.paid = p
      /\ q.collected = 0 /\ q.outstanding = 0 /\ q.handed = 0
      /\ q.returned = 0 /\ q.loss = 0
  BY <1>3, NoRecordIs
<1> HIDE DEF q
<1> QED
  BY <1>2, <1>4 DEF p

LEMMA CollectionIs ==
  ASSUME NEW r \in Record, NEW c \in Nat
  PROVE  LET q == Collection(r, c) IN
         /\ q \in Record /\ q.status \in {"SHORT", "COLLECTED"}
         /\ q.paid = r.paid /\ q.keeps = r.keeps /\ q.returned = r.returned
         /\ q.loss = r.loss /\ q.handed = r.handed /\ q.collected = c
         /\ q.outstanding = DueFrom(q)
<1> DEFINE n == Larger(0, r.expected - c)
           m == [r EXCEPT !.collected = c, !.shortfall = n,
                          !.status = IF n > 0 THEN "SHORT" ELSE "COLLECTED"]
           x == DueFrom(m)
           q == [m EXCEPT !.due = x, !.outstanding = x]
<1>1. n \in Nat
  BY DEF Larger, Record
<1> HIDE DEF n
<1>2. /\ m \in Record /\ m.status \in {"SHORT", "COLLECTED"}
      /\ m.paid = r.paid /\ m.keeps = r.keeps /\ m.returned = r.returned
      /\ m.loss = r.loss /\ m.handed = r.handed /\ m.collected = c
  BY <1>1 DEF Record, CashStatus
<1> HIDE DEF m
<1>3. x \in Int
  BY <1>2 DEF DueFrom, Record
<1>4. DueFrom(q) = x
  BY <1>2 DEF DueFrom, Record
<1> HIDE DEF x
<1>5. /\ q \in Record /\ q.status = m.status
      /\ q.paid = m.paid /\ q.keeps = m.keeps /\ q.returned = m.returned
      /\ q.loss = m.loss /\ q.handed = m.handed /\ q.collected = m.collected
      /\ q.outstanding = x
  BY <1>2, <1>3 DEF Record
<1>6. Collection(r, c) = q
  BY DEF Collection, q, m, n, x
<1> HIDE DEF q
<1> QED
  BY <1>2, <1>4, <1>5, <1>6

LEMMA FailureIs ==
  ASSUME NEW r \in Record, NEW on \in BOOLEAN, NEW outcome \in Recovery
  PROVE  LET q == Failure(r, on, outcome) IN
         /\ q \in Record /\ q.status = "FAILED" /\ q.recovery = outcome
         /\ q.paid = r.paid /\ q.keeps = 0 /\ q.returned = ReturnOf(r, outcome)
         /\ q.loss = LossOf(r, on, outcome)
         /\ q.handed = r.handed /\ q.collected = r.collected
         /\ q.outstanding = DueFrom(q)
<1> DEFINE n == ReturnOf(r, outcome)
           l == LossOf(r, on, outcome)
           m == [r EXCEPT !.status = "FAILED", !.returned = n, !.keeps = 0,
                          !.loss = l, !.recovery = outcome]
           x == DueFrom(m)
           q == [m EXCEPT !.due = x, !.outstanding = x]
<1>1. n \in Nat /\ l \in Nat
  BY DEF ReturnOf, LossOf, Record
<1> HIDE DEF n, l
<1>2. /\ m \in Record /\ m.status = "FAILED" /\ m.recovery = outcome
      /\ m.paid = r.paid /\ m.keeps = 0 /\ m.returned = n /\ m.loss = l
      /\ m.handed = r.handed /\ m.collected = r.collected
  BY <1>1 DEF Record, CashStatus
<1> HIDE DEF m
<1>3. x \in Int
  BY <1>2 DEF DueFrom, Record
<1>4. DueFrom(q) = x
  BY <1>2 DEF DueFrom, Record
<1> HIDE DEF x
<1>5. /\ q \in Record /\ q.status = m.status /\ q.recovery = m.recovery
      /\ q.paid = m.paid /\ q.keeps = m.keeps /\ q.returned = m.returned
      /\ q.loss = m.loss /\ q.handed = m.handed /\ q.collected = m.collected
      /\ q.outstanding = x
  BY <1>2, <1>3 DEF Record
<1>6. Failure(r, on, outcome) = q
  BY DEF Failure, q, m, n, l, x
<1> HIDE DEF q
<1> QED
  BY <1>2, <1>4, <1>5, <1>6 DEF n, l

LEMMA ResolvedIs ==
  ASSUME NEW r \in Record, NEW on \in BOOLEAN, NEW outcome \in Recovery
  PROVE  LET q == Resolved(r, on, outcome) IN
         /\ q \in Record /\ q.status = r.status /\ q.recovery = outcome
         /\ q.paid = r.paid /\ q.keeps = r.keeps /\ q.returned = ReturnOf(r, outcome)
         /\ q.loss = LossOf(r, on, outcome)
         /\ q.handed = r.handed /\ q.collected = r.collected
         /\ q.outstanding = DueFrom(q) - q.handed
<1> DEFINE n == ReturnOf(r, outcome)
           l == LossOf(r, on, outcome)
           m == [r EXCEPT !.returned = n, !.recovery = outcome, !.loss = l]
           x == DueFrom(m)
           y == x - m.handed
           q == [m EXCEPT !.due = x, !.outstanding = y]
<1>1. n \in Nat /\ l \in Nat
  BY DEF ReturnOf, LossOf, Record
<1> HIDE DEF n, l
<1>2. /\ m \in Record /\ m.status = r.status /\ m.recovery = outcome
      /\ m.paid = r.paid /\ m.keeps = r.keeps /\ m.returned = n /\ m.loss = l
      /\ m.handed = r.handed /\ m.collected = r.collected
  BY <1>1 DEF Record
<1> HIDE DEF m
<1>3. x \in Int /\ y \in Int
  BY <1>2 DEF DueFrom, Record
<1>4. DueFrom(q) = x
  BY <1>2 DEF DueFrom, Record
<1>5. y = x - m.handed
  OBVIOUS
<1> HIDE DEF x, y
<1>6. /\ q \in Record /\ q.status = m.status /\ q.recovery = m.recovery
      /\ q.paid = m.paid /\ q.keeps = m.keeps /\ q.returned = m.returned
      /\ q.loss = m.loss /\ q.handed = m.handed /\ q.collected = m.collected
      /\ q.outstanding = y
  BY <1>2, <1>3 DEF Record
<1>7. Resolved(r, on, outcome) = q
  BY DEF Resolved, q, m, n, l, x, y
<1> HIDE DEF q
<1> QED
  BY <1>2, <1>4, <1>5, <1>6, <1>7 DEF n, l

-----------------------------------------------------------------------------
(* A non-empty set of numbers up to n has a least. *)
LEMMA Least ==
  ASSUME NEW n \in Nat, NEW B, B \subseteq 0 .. n, B # {}
  PROVE  \E i \in B : \A j \in B : i <= j
<1>1. PICK S : S = 0 .. n
  OBVIOUS
<1>2. PICK C : C = {0 .. i : i \in B}
  OBVIOUS
<1>3. C \subseteq SUBSET S
  <2> SUFFICES ASSUME NEW i \in B PROVE 0 .. i \subseteq S
    BY <1>2
  <2> QED
    BY <1>1
<1>4. C # {}
  BY <1>2
<1>5. IsFiniteSet(S)
  BY <1>1, FS_Interval
<1>6. PICK s \in C : \A t \in C : t \subseteq s => t = s
  BY <1>3, <1>4, <1>5, MinimalSubset
<1>7. PICK i \in B : s = 0 .. i
  BY <1>2
<1>8. ASSUME NEW j \in B PROVE i <= j
  <2> SUFFICES ASSUME j < i PROVE FALSE
    OBVIOUS
  <2>1. i \in 0 .. n /\ j \in 0 .. n
    OBVIOUS
  <2>2. 0 .. j \subseteq 0 .. i /\ 0 .. j # 0 .. i
    BY <2>1
  <2>3. 0 .. j \in C
    BY <1>2
  <2> QED
    BY <1>6, <1>7, <2>2, <2>3
<1> QED
  BY <1>8

(* The accumulator of allocateHandover after the first i records: the
   recursive function of Allocate exists, so it is what its definition says. *)
Accumulates(records, oldest, amount, acc) ==
  acc = [i \in 0 .. Len(oldest) |->
           IF i = 0 THEN [remaining |-> Size(amount), cash |-> records, written |-> {}]
           ELSE Spread(acc[i - 1], oldest[i], records[oldest[i]], Sign(amount))]

LEMMA AccumulatorExists ==
  ASSUME NEW records, NEW oldest \in Seq(Order), NEW amount
  PROVE  \E acc : Accumulates(records, oldest, amount, acc)
<1> DEFINE a0 == [remaining |-> Size(amount), cash |-> records, written |-> {}]
           Step(a, i) == Spread(a, oldest[i], records[oldest[i]], Sign(amount))
           Prefix(m, g) == g = [i \in 0 .. m |-> IF i = 0 THEN a0 ELSE Step(g[i - 1], i)]
<1>1. PICK n \in Nat : n = Len(oldest)
  OBVIOUS
<1>2. \E g : Prefix(n, g)
  <2> HIDE DEF a0, Step
  <2> DEFINE B == {m \in 0 .. n : ~ \E g : Prefix(m, g)}
  <2> SUFFICES ASSUME B # {} PROVE FALSE
    BY <1>1
  <2>1. B \subseteq 0 .. n
    OBVIOUS
  <2> HIDE DEF B
  <2>2. PICK m \in B : \A j \in B : m <= j
    BY <2>1, Least
  <2>3. m \in 0 .. n
    BY <2>1
  <2>5. m # 0 => m - 1 \in 0 .. n /\ m - 1 \notin B
    BY <2>2, <2>3
  <2> USE DEF B
  <2>4. m # 0
    <3> DEFINE g == [i \in 0 .. 0 |-> a0]
    <3>1. Prefix(0, g)
      OBVIOUS
    <3> QED
      BY <3>1
  <2>6. PICK g : Prefix(m - 1, g)
    BY <2>4, <2>5
  <2> DEFINE h == [i \in 0 .. m |-> IF i < m THEN g[i] ELSE Step(g[m - 1], m)]
  <2>7. \A i \in 0 .. m - 1 : h[i] = g[i]
    BY <2>3
  <2>8. \A i \in 0 .. m : h[i] = IF i = 0 THEN a0 ELSE Step(h[i - 1], i)
    <3> SUFFICES ASSUME NEW i \in 0 .. m
                 PROVE  h[i] = IF i = 0 THEN a0 ELSE Step(h[i - 1], i)
      OBVIOUS
    <3>1. CASE i = 0
      BY <3>1, <2>3, <2>4, <2>6
    <3>2. CASE i # 0 /\ i < m
      <4>1. h[i] = g[i] /\ h[i - 1] = g[i - 1]
        BY <2>3, <3>2
      <4>2. g[i] = Step(g[i - 1], i)
        BY <2>3, <2>6, <3>2
      <4> QED
        BY <3>2, <4>1, <4>2
    <3>3. CASE i = m
      <4>1. h[i] = Step(g[m - 1], m) /\ h[m - 1] = g[m - 1]
        BY <2>3, <2>4, <3>3
      <4> QED
        BY <2>4, <3>3, <4>1
    <3> QED
      BY <2>3, <3>1, <3>2, <3>3
  <2>9. Prefix(m, h)
    <3>1. h = [i \in 0 .. m |-> h[i]]
      OBVIOUS
    <3> HIDE DEF h
    <3> QED
      BY <2>8, <3>1
  <2> QED
    BY <2>9
<1> QED
  BY <1>1, <1>2 DEF Accumulates

LEMMA AllocateIs ==
  ASSUME NEW records, NEW oldest \in Seq(Order), NEW amount
  PROVE  \E acc : /\ Accumulates(records, oldest, amount, acc)
                  /\ Allocate(records, oldest, amount) = acc[Len(oldest)]
<1> DEFINE acc == CHOOSE g : Accumulates(records, oldest, amount, g)
<1>1. Accumulates(records, oldest, amount, acc)
  BY AccumulatorExists
<1>2. Allocate(records, oldest, amount) = acc[Len(oldest)]
  BY DEF Allocate, Accumulates
<1> QED
  BY <1>1, <1>2

-----------------------------------------------------------------------------
(* What a handover may do to a record: it pays the debt down, not past zero,
   and moves it from outstanding to handed over. *)
PaidDown(r, q) ==
  /\ q \in Record
  /\ r.status \notin {"NONE", "EXPECTED"} /\ q.status \notin {"NONE", "EXPECTED"}
  /\ r.status \in {"SHORT", "FAILED"} => q.status = r.status
  /\ q.status = "FAILED" => r.status = "FAILED"
  /\ q.paid = r.paid /\ q.keeps = r.keeps /\ q.collected = r.collected
  /\ q.returned = r.returned /\ q.loss = r.loss /\ q.recovery = r.recovery
  /\ q.outstanding + q.handed = r.outstanding + r.handed
  /\ \/ 0 <= q.outstanding /\ q.outstanding <= r.outstanding
     \/ r.outstanding <= q.outstanding /\ q.outstanding <= 0

(* What of a signed amount is left after part of its size was used. *)
Used(amount, remaining) == IF amount > 0 THEN amount - remaining ELSE amount + remaining

(* One record. *)
Paid(r, left, moved, st) ==
  [r EXCEPT !.outstanding = left, !.handed = @ + moved, !.status = st]

LEMMA PaidIs ==
  ASSUME NEW r \in Record, NEW left \in Int, NEW moved \in Int, NEW st \in CashStatus
  PROVE  LET q == Paid(r, left, moved, st) IN
         /\ q \in Record /\ q.outstanding = left /\ q.handed = r.handed + moved /\ q.status = st
         /\ q.paid = r.paid /\ q.keeps = r.keeps /\ q.collected = r.collected
         /\ q.returned = r.returned /\ q.loss = r.loss /\ q.recovery = r.recovery
<1>1. PICK n \in Int : n = r.handed + moved
  BY DEF Record
<1>2. Paid(r, left, moved, st) = [r EXCEPT !.outstanding = left, !.handed = n, !.status = st]
  BY <1>1 DEF Paid, Record
<1>3. LET q == [r EXCEPT !.outstanding = left, !.handed = n, !.status = st] IN
         /\ q \in Record /\ q.outstanding = left /\ q.handed = n /\ q.status = st
         /\ q.paid = r.paid /\ q.keeps = r.keeps /\ q.collected = r.collected
         /\ q.returned = r.returned /\ q.loss = r.loss /\ q.recovery = r.recovery
  BY DEF Record
<1> QED
  BY <1>1, <1>2, <1>3

LEMMA TakeIs ==
  ASSUME NEW amount \in Int \ {0}, NEW n \in Nat, NEW x \in Int \ {0}, Sign(x) = Sign(amount)
  PROVE  LET take == Take(n, x)
             moved == Sign(amount) * take
             left == x - moved
         IN  /\ take \in Nat /\ take <= n /\ moved \in Int /\ left \in Int
             /\ moved = Used(amount, n - take) - Used(amount, n)
             /\ \/ 0 <= left /\ left <= x
                \/ x <= left /\ left <= 0
<1>1. CASE amount > 0
  <2>1. x > 0 /\ Sign(amount) = 1
    BY <1>1 DEF Sign
  <2> QED
    BY <1>1, <2>1 DEF Take, Smaller, Size, Used
<1>2. CASE amount < 0
  <2>1. x < 0 /\ Sign(amount) = -1
    BY <1>2 DEF Sign
  <2> QED
    BY <1>2, <2>1 DEF Take, Smaller, Size, Used
<1> QED
  BY <1>1, <1>2

Owed(c) == SumFunctionOnSet([o \in Order |-> c[o].outstanding], Order)

AccFits(acc, records, amount, done) ==
  /\ acc.remaining \in Nat
  /\ acc.cash \in [Order -> Record]
  /\ acc.written \subseteq done
  /\ \A o \in Order \ acc.written : acc.cash[o] = records[o]
  /\ \A o \in acc.written : PaidDown(records[o], acc.cash[o])
  /\ Owed(acc.cash) = Owed(records) - Used(amount, acc.remaining)

LEMMA OwedIsInt == ASSUME NEW c \in [Order -> Record] PROVE Owed(c) \in Int
<1> DEFINE f == [o \in Order |-> c[o].outstanding]
<1>1. \A o \in Order : f[o] \in Int
  BY DEF Record
<1> HIDE DEF f
<1>2. SumFunctionOnSet(f, Order) \in Int
  BY <1>1, OrderAssumption, SumIsInt
<1> QED
  BY <1>2 DEF Owed, f

LEMMA OwedUpdated ==
  ASSUME NEW c \in [Order -> Record], NEW o \in Order, NEW q \in Record
  PROVE  Owed([c EXCEPT ![o] = q]) = Owed(c) - c[o].outstanding + q.outstanding
<1> DEFINE d == [c EXCEPT ![o] = q]
<1>1. PICK f, g, S : /\ f = [p \in Order |-> c[p].outstanding] /\ S = Order
                     /\ g = [p \in Order |-> d[p].outstanding]
  OBVIOUS
<1>2. \A p \in S : f[p] \in Int
  BY <1>1 DEF Record
<1>3. \A p \in S \ {o} : g[p] = f[p]
  BY <1>1
<1>4. o \in S /\ f[o] = c[o].outstanding /\ g[o] = q.outstanding
  BY <1>1
<1>5. IsFiniteSet(S)
  BY <1>1, OrderAssumption
<1>6. SumFunctionOnSet(g, S) = SumFunctionOnSet(f, S) - f[o] + g[o]
  <2>1. o \in S
    BY <1>4
  <2>2. q.outstanding \in Int
    BY DEF Record
  <2>3. \A p \in S : f[p] \in Int /\ g[p] \in Int
    BY <1>2, <1>3, <1>4, <2>2
  <2>4. PICK y : y = o
    OBVIOUS
  <2>5. y \in S /\ \A p \in S \ {y} : g[p] = f[p]
    BY <1>3, <2>1, <2>4
  <2>6. SumFunctionOnSet(g, S) = SumFunctionOnSet(f, S) - f[y] + g[y]
    BY <1>5, <2>3, <2>5, SumUpdated
  <2> QED
    BY <2>4, <2>6
<1>7. Owed(c) = SumFunctionOnSet(f, S) /\ Owed(d) = SumFunctionOnSet(g, S)
  BY <1>1 DEF Owed
<1> QED
  BY <1>4, <1>6, <1>7

LEMMA SpreadKeeps ==
  ASSUME NEW amount \in Int \ {0}, NEW records \in [Order -> Record], NEW acc,
         NEW done \in SUBSET Order, NEW o \in Order \ done,
         AccFits(acc, records, amount, done)
  PROVE  AccFits(Spread(acc, o, records[o], Sign(amount)), records, amount, done \cup {o})
<1>1. CASE acc.remaining = 0 \/ ~Open(records[o]) \/ Sign(records[o].outstanding) # Sign(amount)
  <2>1. Spread(acc, o, records[o], Sign(amount)) = acc
    BY <1>1 DEF Spread
  <2> QED
    BY <2>1 DEF AccFits
<1>2. CASE ~(acc.remaining = 0 \/ ~Open(records[o]) \/ Sign(records[o].outstanding) # Sign(amount))
  <2>1. PICK r \in Record : r = records[o]
    OBVIOUS
  <2>2. PICK x \in Int \ {0} : x = r.outstanding
    BY <1>2, <2>1 DEF Open, Record
  <2>3. PICK n \in Nat : n = acc.remaining
    BY DEF AccFits
  <2>4. PICK take \in Nat, moved \in Int, left \in Int :
          /\ take = Take(n, x) /\ moved = Sign(amount) * take /\ left = x - moved
          /\ take <= n
          /\ moved = Used(amount, n - take) - Used(amount, n)
          /\ \/ 0 <= left /\ left <= x
             \/ x <= left /\ left <= 0
    <3>1. Sign(x) = Sign(amount)
      BY <1>2, <2>1, <2>2
    <3>2. PICK take, moved, left :
            take = Take(n, x) /\ moved = Sign(amount) * take /\ left = x - moved
      OBVIOUS
    <3>3. /\ take \in Nat /\ take <= n /\ moved \in Int /\ left \in Int
          /\ moved = Used(amount, n - take) - Used(amount, n)
          /\ \/ 0 <= left /\ left <= x
             \/ x <= left /\ left <= 0
      BY <3>1, <3>2, TakeIs
    <3> QED
      BY <3>2, <3>3
  <2>5. PICK st : st = AfterHandover(r, left)
    OBVIOUS
  <2>6. /\ st \in CashStatus \ {"NONE", "EXPECTED"}
        /\ r.status \in {"SHORT", "FAILED"} => st = r.status
        /\ st = "FAILED" => r.status = "FAILED"
    BY <1>2, <2>1, <2>5 DEF AfterHandover, Open, CashStatus
  <2>7. PICK q : q = Paid(r, left, moved, st)
    OBVIOUS
  <2>8. /\ q \in Record /\ q.outstanding = left /\ q.handed = r.handed + moved /\ q.status = st
        /\ q.paid = r.paid /\ q.keeps = r.keeps /\ q.collected = r.collected
        /\ q.returned = r.returned /\ q.loss = r.loss /\ q.recovery = r.recovery
    BY <2>6, <2>7, PaidIs
  <2>9. PaidDown(r, q)
    <3>1. r.handed \in Int /\ r.outstanding = x
      BY <2>2 DEF Record
    <3>2. q.outstanding + q.handed = r.outstanding + r.handed
      BY <2>4, <2>8, <3>1
    <3>3. r.status \notin {"NONE", "EXPECTED"}
      BY <1>2, <2>1 DEF Open
    <3> QED
      BY <2>4, <2>6, <2>8, <3>1, <3>2, <3>3 DEF PaidDown
  <2>10. acc.cash[o] = r /\ o \notin acc.written
    BY <2>1 DEF AccFits
  <2>11. PICK c : c = [acc.cash EXCEPT ![o] = q]
    OBVIOUS
  <2>12. Spread(acc, o, records[o], Sign(amount)) =
           [remaining |-> n - take, cash |-> c, written |-> acc.written \cup {o}]
    BY <1>2, <2>1, <2>2, <2>3, <2>4, <2>5, <2>7, <2>11 DEF Spread, Paid
  <2>13. Owed(c) = Owed(records) - Used(amount, n - take)
    <3>1. acc.cash \in [Order -> Record]
      BY DEF AccFits
    <3>2. PICK a \in Int, b \in Int, k \in Int :
            a = Owed(acc.cash) /\ b = Owed(records) /\ k = Owed(c)
      <4>1. c \in [Order -> Record]
        BY <2>8, <2>11, <3>1
      <4> QED
        BY <3>1, <4>1, OwedIsInt
    <3>3. k = a - x + left
      BY <2>2, <2>8, <2>10, <2>11, <3>1, <3>2, OwedUpdated
    <3>4. PICK u \in Int, v \in Int : u = Used(amount, n) /\ v = Used(amount, n - take)
      <4>1. Used(amount, n) \in Int /\ Used(amount, n - take) \in Int
        BY <2>4 DEF Used
      <4> QED
        BY <4>1
    <3>5. a = b - u
      BY <2>3, <3>2, <3>4 DEF AccFits
    <3>6. x - left = v - u
      BY <2>4, <3>4
    <3>7. k = b - v
      BY <3>3, <3>5, <3>6
    <3> QED
      BY <3>2, <3>4, <3>7
  <2>14. /\ c \in [Order -> Record] /\ c[o] = q
         /\ \A p \in Order \ {o} : c[p] = acc.cash[p]
    BY <2>8, <2>11 DEF AccFits
  <2>15. n - take \in Nat
    BY <2>4
  <2>16. PICK w : w = acc.written \cup {o}
    OBVIOUS
  <2>17. /\ w \subseteq done \cup {o}
         /\ \A p \in Order \ w : c[p] = records[p]
         /\ \A p \in w : PaidDown(records[p], c[p])
    BY <2>1, <2>9, <2>14, <2>16 DEF AccFits
  <2>18. PICK new : new = [remaining |-> n - take, cash |-> c, written |-> w]
    OBVIOUS
  <2>19. new.remaining = n - take /\ new.cash = c /\ new.written = w
    BY <2>18
  <2>20. AccFits(new, records, amount, done \cup {o})
    BY <2>13, <2>14, <2>15, <2>17, <2>19 DEF AccFits
  <2> QED
    BY <2>12, <2>16, <2>18, <2>20
<1> QED
  BY <1>1, <1>2

LEMMA StartFits ==
  ASSUME NEW amount \in Int \ {0}, NEW records \in [Order -> Record], NEW acc,
         acc = [remaining |-> Size(amount), cash |-> records, written |-> {}]
  PROVE  AccFits(acc, records, amount, {})
<1>1. acc.remaining = Size(amount) /\ acc.cash = records /\ acc.written = {}
  OBVIOUS
<1>2. Size(amount) \in Nat /\ Used(amount, Size(amount)) = 0
  BY DEF Size, Used
<1>3. Owed(records) \in Int
  BY OwedIsInt
<1>4. Owed(records) = Owed(records) - Used(amount, Size(amount))
  BY <1>2, <1>3
<1> QED
  BY <1>1, <1>2, <1>4 DEF AccFits

(* A handover moves what of its amount it uses, and pays down what it writes:
   every record is tried once. *)
LEMMA AllocateFits ==
  ASSUME NEW amount \in Int \ {0}, NEW records \in [Order -> Record], NEW oldest \in Seq(Order),
         \A i, j \in DOMAIN oldest : oldest[i] = oldest[j] => i = j
  PROVE  AccFits(Allocate(records, oldest, amount), records, amount, Order)
<1>1. PICK acc : /\ Accumulates(records, oldest, amount, acc)
                 /\ Allocate(records, oldest, amount) = acc[Len(oldest)]
  BY AllocateIs
<1>2. PICK n \in Nat : n = Len(oldest) /\ DOMAIN oldest = 1 .. n
  OBVIOUS
<1>3. /\ acc[0] = [remaining |-> Size(amount), cash |-> records, written |-> {}]
      /\ \A i \in 1 .. n : acc[i] = Spread(acc[i - 1], oldest[i], records[oldest[i]], Sign(amount))
  <2> DEFINE a0 == [remaining |-> Size(amount), cash |-> records, written |-> {}]
             Step(a, i) == Spread(a, oldest[i], records[oldest[i]], Sign(amount))
  <2>1. acc = [i \in 0 .. n |-> IF i = 0 THEN a0 ELSE Step(acc[i - 1], i)]
    BY <1>1, <1>2 DEF Accumulates
  <2> HIDE DEF a0, Step
  <2>2. acc[0] = a0
    BY <2>1
  <2>3. ASSUME NEW i \in 1 .. n PROVE acc[i] = Step(acc[i - 1], i)
    BY <2>1
  <2> QED
    BY <2>2, <2>3 DEF a0, Step
<1> DEFINE Done(i) == {oldest[j] : j \in 1 .. i}
           B == {i \in 0 .. n : ~AccFits(acc[i], records, amount, Done(i))}
<1>4. B = {}
  <2> SUFFICES ASSUME B # {} PROVE FALSE
    OBVIOUS
  <2>1. B \subseteq 0 .. n
    OBVIOUS
  <2>2. PICK m \in B : \A j \in B : m <= j
    <3> HIDE DEF B
    <3> QED
      BY <2>1, Least
  <2>3. m \in 0 .. n /\ ~AccFits(acc[m], records, amount, Done(m))
    OBVIOUS
  <2>4. m # 0
    <3>1. Done(0) = {}
      OBVIOUS
    <3>2. AccFits(acc[0], records, amount, {})
      BY <1>3, StartFits
    <3> QED
      BY <2>3, <3>1, <3>2
  <2>5. PICK l \in 0 .. n : l = m - 1
    BY <2>3, <2>4
  <2>6. AccFits(acc[l], records, amount, Done(l))
    <3>1. l \notin B
      <4> HIDE DEF B
      <4> QED
        BY <2>2, <2>3, <2>5
    <3> QED
      BY <3>1
  <2>7. m \in 1 .. n /\ oldest[m] \in Order
    BY <1>2, <2>3, <2>4
  <2>8. PICK o : o = oldest[m]
    OBVIOUS
  <2>9. o \in Order \ Done(l) /\ Done(m) = Done(l) \cup {o} /\ Done(l) \in SUBSET Order
    <3>1. \A j \in 1 .. l : j \in DOMAIN oldest /\ oldest[j] \in Order /\ j # m
      BY <1>2, <2>5, <2>7
    <3>2. o \notin Done(l)
      BY <1>2, <2>7, <2>8, <3>1
    <3>3. 1 .. m = (1 .. l) \cup {m}
      BY <2>5, <2>7
    <3>4. Done(m) = Done(l) \cup {o}
      BY <2>8, <3>3
    <3>5. Done(l) \in SUBSET Order
      BY <3>1
    <3>6. o \in Order
      BY <2>7, <2>8
    <3> QED
      <4> HIDE DEF Done
      <4> QED
        BY <3>2, <3>4, <3>5, <3>6
  <2>10. acc[m] = Spread(acc[l], o, records[o], Sign(amount))
    BY <1>3, <2>5, <2>7, <2>8
  <2> HIDE DEF Done, B
  <2>11. AccFits(acc[m], records, amount, Done(m))
    BY <2>6, <2>9, <2>10, SpreadKeeps
  <2> QED
    BY <2>3, <2>11
<1>5. AccFits(acc[n], records, amount, Done(n))
  <2> SUFFICES ASSUME ~AccFits(acc[n], records, amount, Done(n)) PROVE FALSE
    OBVIOUS
  <2> n \in B
    OBVIOUS
  <2> QED
    BY <1>4
<1>6. Done(n) \subseteq Order
  BY <1>2
<1>7. AccFits(acc[n], records, amount, Order)
  <2> HIDE DEF Done
  <2> QED
    BY <1>5, <1>6 DEF AccFits
<1> QED
  BY <1>1, <1>2, <1>7

-----------------------------------------------------------------------------
(* What a step makes of an order's record: it still fits, and what it adds to
   the pocket changes by the money that changed hands. *)
LEMMA ContributionIsInt == \A r \in Record : Contribution(r) \in Int
BY DEF Contribution, Record

LEMMA PickupFits ==
  ASSUME NEW d \in DeliveryType, NEW s \in Nat, s <= d.subtotal, NEW rc \in Recovery,
         NEW r \in Record, Fits("DRIVER_ASSIGNED", rc, r)
  PROVE  /\ Fits("OUT_FOR_DELIVERY", rc, PickupCash(d, s))
         /\ Contribution(PickupCash(d, s)) = Contribution(r) - (d.subtotal - s)
<1>1. PICK q : q = PickupCash(d, s)
  OBVIOUS
<1>2. PICK p \in Nat : p = d.subtotal - s
  BY DEF DeliveryType
<1>3. /\ q.status = "EXPECTED" /\ q.paid = p
      /\ q.collected = 0 /\ q.outstanding = 0 /\ q.handed = 0
      /\ q.returned = 0 /\ q.loss = 0
  BY <1>1, <1>2, PickupIs
<1>4. r.status = "NONE" /\ r.outstanding = 0 /\ rc = "NONE"
  BY DEF Fits
<1>5. Fits("OUT_FOR_DELIVERY", rc, q)
  BY <1>3, <1>4 DEF Fits
<1>6. Contribution(q) = Contribution(r) - p
  BY <1>3, <1>4 DEF Contribution
<1> QED
  BY <1>1, <1>2, <1>5, <1>6

LEMMA CollectionFits ==
  ASSUME NEW rc \in Recovery, NEW r \in Record, NEW c \in Nat, Fits("OUT_FOR_DELIVERY", rc, r)
  PROVE  /\ Fits("DELIVERED", rc, Collection(r, c))
         /\ Contribution(Collection(r, c)) = Contribution(r) + c - r.keeps
<1>1. PICK q : q = Collection(r, c)
  OBVIOUS
<1>2. /\ q \in Record /\ q.status \in {"SHORT", "COLLECTED"}
      /\ q.paid = r.paid /\ q.keeps = r.keeps /\ q.returned = r.returned
      /\ q.loss = r.loss /\ q.handed = r.handed /\ q.collected = c
      /\ q.outstanding = DueFrom(q)
  BY <1>1, CollectionIs
<1>3. /\ r.status = "EXPECTED" /\ r.returned = 0 /\ r.loss = 0 /\ r.handed = 0 /\ rc = "NONE"
  BY DEF Fits
<1>4. q.outstanding \in Int /\ r.paid \in Nat /\ r.keeps \in Nat
  BY <1>2 DEF Record
<1>5. Fits("DELIVERED", rc, q)
  BY <1>2, <1>3, <1>4 DEF Fits
<1>6. q.outstanding = c + 0 - r.paid - r.keeps
  BY <1>2, <1>3 DEF DueFrom
<1>7. Contribution(q) = q.outstanding /\ Contribution(r) = -r.paid
  BY <1>2, <1>3 DEF Contribution
<1>8. Contribution(q) = Contribution(r) + c - r.keeps
  BY <1>4, <1>6, <1>7
<1> QED
  BY <1>1, <1>5, <1>8

LEMMA OutcomeIs ==
  ASSUME NEW r \in Record, NEW on \in BOOLEAN, NEW outcome \in Recovery
  PROVE  /\ ReturnOf(r, outcome) \in Nat /\ LossOf(r, on, outcome) \in Nat
         /\ ReturnOf(r, outcome) + LossOf(r, on, outcome) <= r.paid
         /\ outcome = "RECOVERABLE_PENDING" =>
              ReturnOf(r, outcome) = 0 /\ LossOf(r, on, outcome) = 0
BY DEF ReturnOf, LossOf, Record

LEMMA FailureFits ==
  ASSUME NEW rc \in Recovery, NEW r \in Record, Fits("OUT_FOR_DELIVERY", rc, r),
         NEW on \in BOOLEAN, NEW outcome \in Recovery
  PROVE  /\ Fits("CANCELLED", outcome, Failure(r, on, outcome))
         /\ Contribution(Failure(r, on, outcome)) = Contribution(r) + ReturnOf(r, outcome)
<1>1. PICK q : q = Failure(r, on, outcome)
  OBVIOUS
<1>2. PICK n \in Nat, l \in Nat : n = ReturnOf(r, outcome) /\ l = LossOf(r, on, outcome)
  BY OutcomeIs
<1>3. n + l <= r.paid /\ (outcome = "RECOVERABLE_PENDING" => n = 0 /\ l = 0)
  BY <1>2, OutcomeIs
<1>4. /\ q \in Record /\ q.status = "FAILED" /\ q.recovery = outcome
      /\ q.paid = r.paid /\ q.keeps = 0 /\ q.returned = n /\ q.loss = l
      /\ q.handed = r.handed /\ q.collected = r.collected
      /\ q.outstanding = DueFrom(q)
  BY <1>1, <1>2, FailureIs
<1>5. r.status = "EXPECTED" /\ r.collected = 0 /\ r.handed = 0
  BY DEF Fits
<1>6. q.outstanding \in Int /\ r.paid \in Nat
  BY <1>4 DEF Record
<1>7. Fits("CANCELLED", outcome, q)
  BY <1>3, <1>4, <1>5, <1>6 DEF Fits
<1>8. q.outstanding = 0 + n - r.paid - 0
  BY <1>4, <1>5 DEF DueFrom
<1>9. Contribution(q) = q.outstanding /\ Contribution(r) = -r.paid
  BY <1>4, <1>5 DEF Contribution
<1>10. Contribution(q) = Contribution(r) + n
  BY <1>6, <1>8, <1>9
<1> QED
  BY <1>1, <1>2, <1>7, <1>10

LEMMA ResolvedFits ==
  ASSUME NEW st, NEW r \in Record, Fits(st, "RECOVERABLE_PENDING", r),
         NEW on \in BOOLEAN, NEW outcome \in Recovery
  PROVE  /\ Fits(st, outcome, Resolved(r, on, outcome))
         /\ Contribution(Resolved(r, on, outcome)) = Contribution(r) + ReturnOf(r, outcome)
<1>1. PICK q : q = Resolved(r, on, outcome)
  OBVIOUS
<1>2. PICK n \in Nat, l \in Nat : n = ReturnOf(r, outcome) /\ l = LossOf(r, on, outcome)
  BY OutcomeIs
<1>3. n + l <= r.paid /\ (outcome = "RECOVERABLE_PENDING" => n = 0 /\ l = 0)
  BY <1>2, OutcomeIs
<1>4. /\ q \in Record /\ q.status = r.status /\ q.recovery = outcome
      /\ q.paid = r.paid /\ q.keeps = r.keeps /\ q.returned = n /\ q.loss = l
      /\ q.handed = r.handed /\ q.collected = r.collected
      /\ q.outstanding = DueFrom(q) - q.handed
  BY <1>1, <1>2, ResolvedIs
<1>5. r.status = "FAILED" /\ r.returned = 0 /\ r.outstanding + r.handed = DueFrom(r)
      /\ st # "DRIVER_ASSIGNED" /\ st # "OUT_FOR_DELIVERY"
  BY DEF Fits
<1>6. /\ r.paid \in Nat /\ r.keeps \in Nat /\ r.handed \in Int /\ r.outstanding \in Int
      /\ r.collected \in Nat
  BY DEF Record
<1>7. /\ DueFrom(q) = r.collected + n - r.paid - r.keeps
      /\ DueFrom(r) = r.collected + 0 - r.paid - r.keeps
  BY <1>4, <1>5 DEF DueFrom
<1>8. q.outstanding + q.handed = DueFrom(q)
  BY <1>4, <1>6, <1>7
<1>9. Fits(st, outcome, q)
  BY <1>3, <1>4, <1>5, <1>8 DEF Fits
<1>10. q.outstanding = r.outstanding + n
  BY <1>4, <1>5, <1>6, <1>7
<1>11. Contribution(q) = q.outstanding /\ Contribution(r) = r.outstanding
  BY <1>4, <1>5 DEF Contribution
<1> QED
  BY <1>1, <1>2, <1>9, <1>10, <1>11

LEMMA PaidDownFits ==
  ASSUME NEW st, NEW rc, NEW r \in Record, NEW q, Fits(st, rc, r), PaidDown(r, q)
  PROVE  /\ Fits(st, rc, q)
         /\ Contribution(r) = r.outstanding /\ Contribution(q) = q.outstanding
<1>1. DueFrom(q) = DueFrom(r)
  BY DEF PaidDown, DueFrom
<1>2. Fits(st, rc, q)
  BY <1>1 DEF PaidDown, Fits
<1> QED
  BY <1>2 DEF PaidDown, Contribution

-----------------------------------------------------------------------------
(* Movements and batches are appended. *)
LEMMA AppendIs ==
  ASSUME NEW T, NEW s \in Seq(T), NEW e \in T, NEW t, t = Append(s, e)
  PROVE  /\ t \in Seq(T) /\ Len(t) = Len(s) + 1 /\ Len(s) \in Nat
         /\ DOMAIN s = 1 .. Len(s) /\ DOMAIN t = 1 .. Len(s) + 1
         /\ t[Len(s) + 1] = e /\ \A i \in DOMAIN s : t[i] = s[i] /\ s[i] \in T
OBVIOUS

LEMMA DomainIsFinite ==
  ASSUME NEW T, NEW s \in Seq(T)
  PROVE  IsFiniteSet(DOMAIN s) /\ \A i \in DOMAIN s : s[i] \in T
<1>1. PICK n \in Nat : n = Len(s) /\ DOMAIN s = 1 .. n
  OBVIOUS
<1>2. IsFiniteSet(1 .. n)
  BY FS_Interval
<1> QED
  BY <1>1, <1>2

LEMMA AmountsAreInt ==
  ASSUME NEW ms \in Seq(Movement), NEW type, NEW S, NEW f,
         S = OfType(ms, type), f = [i \in S |-> ms[i].amount]
  PROVE  IsFiniteSet(S) /\ \A i \in S : f[i] \in Int
<1>1. S \in SUBSET DOMAIN ms
  BY DEF OfType
<1>2. IsFiniteSet(S)
  BY <1>1, DomainIsFinite, FS_Subset
<1>3. ASSUME NEW i \in S PROVE f[i] \in Int
  <2>1. ms[i] \in Movement
    BY <1>1, DomainIsFinite
  <2> QED
    BY <2>1 DEF Movement
<1> QED
  BY <1>2, <1>3

LEMMA TotalIsInt ==
  ASSUME NEW ms \in Seq(Movement), NEW type
  PROVE  TotalOf(ms, type) \in Int
<1>1. PICK S, f : S = OfType(ms, type) /\ f = [i \in S |-> ms[i].amount]
  OBVIOUS
<1>3. IsFiniteSet(S)
  BY <1>1, AmountsAreInt
<1>4. \A i \in S : f[i] \in Int
  BY <1>1, AmountsAreInt
<1>5. SumFunctionOnSet(f, S) \in Int
  BY <1>3, <1>4, SumIsInt
<1> QED
  BY <1>1, <1>5 DEF TotalOf

(* A sum with one more summand. *)
OneMore(f, S, g, T, y) ==
  /\ IsFiniteSet(S) /\ y \in T /\ y \notin S /\ T \ {y} = S
  /\ \A i \in T : g[i] \in Int
  /\ \A i \in S : g[i] = f[i]

LEMMA OneMoreAdds ==
  ASSUME NEW S, NEW T, NEW f, NEW g, NEW y, OneMore(f, S, g, T, y)
  PROVE  SumFunctionOnSet(g, T) = SumFunctionOnSet(f, S) + g[y]
<1> SUFFICES ASSUME IsFiniteSet(S), y \in T, T \ {y} = S, y \notin S,
                    \A i \in T : g[i] \in Int, \A i \in S : g[i] = f[i]
             PROVE  SumFunctionOnSet(g, T) = SumFunctionOnSet(f, S) + g[y]
  BY DEF OneMore
<1>1. g[y] \in Int
  OBVIOUS
<1> QED
  BY <1>1, SumExtended

(* One more movement. *)
OneLonger(ns, ms, m) == ns = Append(ms, m)

LEMMA TotalAdded ==
  ASSUME NEW ms \in Seq(Movement), NEW m \in Movement, NEW type, NEW ns, OneLonger(ns, ms, m)
  PROVE  TotalOf(ns, type) = TotalOf(ms, type) + (IF m.type = type THEN m.amount ELSE 0)
<1>1. PICK n \in Nat : n = Len(ms) + 1
  OBVIOUS
<1>2. /\ ns \in Seq(Movement) /\ DOMAIN ms = 1 .. n - 1 /\ DOMAIN ns = 1 .. n
      /\ ns[n] = m /\ \A i \in DOMAIN ms : ns[i] = ms[i]
  BY <1>1, AppendIs DEF OneLonger
<1>3. PICK S, T, f, g : /\ S = OfType(ms, type) /\ T = OfType(ns, type)
                        /\ f = [i \in S |-> ms[i].amount] /\ g = [i \in T |-> ns[i].amount]
  OBVIOUS
<1>4. TotalOf(ms, type) = SumFunctionOnSet(f, S) /\ TotalOf(ns, type) = SumFunctionOnSet(g, T)
  BY <1>3 DEF TotalOf
<1>5. IsFiniteSet(S) /\ IsFiniteSet(T)
  BY <1>2, <1>3, AmountsAreInt
<1>6. \A i \in T : g[i] \in Int
  BY <1>2, <1>3, AmountsAreInt
<1>7. n \notin S /\ n \in DOMAIN ns
  BY <1>1, <1>2, <1>3 DEF OfType
<1>8. CASE m.type = type
  <2>1. n \in T /\ T \ {n} = S
    BY <1>1, <1>2, <1>3, <1>8 DEF OfType
  <2>2. \A i \in S : g[i] = f[i]
    BY <1>2, <1>3, <2>1 DEF OfType
  <2>3. g[n] = m.amount
    BY <1>2, <1>3, <2>1
  <2>4. TotalOf(ns, type) = TotalOf(ms, type) + m.amount
    <3>1. OneMore(f, S, g, T, n)
      BY <1>5, <1>6, <1>7, <2>1, <2>2 DEF OneMore
    <3>2. SumFunctionOnSet(g, T) = SumFunctionOnSet(f, S) + g[n]
      BY <3>1, OneMoreAdds
    <3> QED
      BY <1>4, <2>3, <3>2
  <2> QED
    BY <1>8, <2>4
<1>9. CASE m.type # type
  <2>1. T = S
    BY <1>1, <1>2, <1>3, <1>9 DEF OfType
  <2>2. \A i \in S : g[i] = f[i]
    BY <1>2, <1>3, <2>1 DEF OfType
  <2>3. SumFunctionOnSet(g, T) = SumFunctionOnSet(f, S)
    BY <1>5, <2>1, <2>2, SumCongruence
  <2>4. TotalOf(ms, type) \in Int
    BY TotalIsInt
  <2> QED
    BY <1>4, <1>9, <2>3, <2>4
<1> QED
  BY <1>8, <1>9

LEMMA UnmatchedIsInt ==
  ASSUME NEW bs \in Seq(Batch)
  PROVE  UnmatchedOf(bs) \in Int
<1>1. PICK S, f : S = DOMAIN bs /\ f = [i \in S |-> bs[i].unallocated]
  OBVIOUS
<1>2. IsFiniteSet(S) /\ \A i \in S : bs[i] \in Batch
  BY <1>1, DomainIsFinite
<1>3. \A i \in S : f[i] \in Int
  BY <1>1, <1>2 DEF Batch
<1>4. SumFunctionOnSet(f, S) \in Int
  BY <1>2, <1>3, SumIsInt
<1> QED
  BY <1>1, <1>4 DEF UnmatchedOf

LEMMA UnmatchedAdded ==
  ASSUME NEW bs \in Seq(Batch), NEW e \in Batch, NEW cs, cs = Append(bs, e)
  PROVE  UnmatchedOf(cs) = UnmatchedOf(bs) + e.unallocated
<1>1. PICK n \in Nat : n = Len(bs) + 1
  OBVIOUS
<1>2. /\ cs \in Seq(Batch) /\ DOMAIN bs = 1 .. n - 1 /\ DOMAIN cs = 1 .. n
      /\ cs[n] = e /\ \A i \in DOMAIN bs : cs[i] = bs[i]
  BY <1>1, AppendIs
<1>3. PICK S, T, f, g : /\ S = DOMAIN bs /\ T = DOMAIN cs
                        /\ f = [i \in S |-> bs[i].unallocated]
                        /\ g = [i \in T |-> cs[i].unallocated]
  OBVIOUS
<1>4. UnmatchedOf(bs) = SumFunctionOnSet(f, S) /\ UnmatchedOf(cs) = SumFunctionOnSet(g, T)
  BY <1>3 DEF UnmatchedOf
<1>5. IsFiniteSet(S) /\ \A i \in T : cs[i] \in Batch
  BY <1>2, <1>3, DomainIsFinite
<1>6. \A i \in T : g[i] \in Int
  BY <1>3, <1>5 DEF Batch
<1>7. n \notin S /\ n \in T /\ T \ {n} = S
  BY <1>1, <1>2, <1>3
<1>8. \A i \in S : g[i] = f[i]
  BY <1>2, <1>3, <1>7
<1>9. g[n] = e.unallocated
  BY <1>2, <1>3, <1>7
<1>10. UnmatchedOf(cs) = UnmatchedOf(bs) + e.unallocated
  <2>1. OneMore(f, S, g, T, n)
    BY <1>5, <1>6, <1>7, <1>8 DEF OneMore
  <2>2. SumFunctionOnSet(g, T) = SumFunctionOnSet(f, S) + g[n]
    BY <2>1, OneMoreAdds
  <2> QED
    BY <1>4, <1>9, <2>2
<1> QED
  BY <1>10

-----------------------------------------------------------------------------
(* The steps of a delivery. *)
LEMMA FloatIs == CurrentFloat = TotalOf(movements, "ISSUED") - TotalOf(movements, "RETURNED")
BY DEF CurrentFloat, Total, TotalOf, OfType, SumFunction

LEMMA MoneyIsInt ==
  ASSUME TypeOK
  PROVE  pocket \in Int /\ CurrentFloat \in Int /\ Contributed \in Int /\ Unmatched \in Int
<1>1. pocket \in Int /\ Unmatched \in Int
  BY UnmatchedIsInt DEF TypeOK, Unmatched
<1>2. CurrentFloat \in Int
  <2>1. TotalOf(movements, "ISSUED") \in Int /\ TotalOf(movements, "RETURNED") \in Int
    BY TotalIsInt DEF TypeOK
  <2> QED
    BY <2>1, FloatIs
<1>3. Contributed \in Int
  <2>1. PICK f : f = [o \in Order |-> Contribution(cash[o])]
    OBVIOUS
  <2>2. \A o \in Order : f[o] \in Int
    BY <2>1, ContributionIsInt DEF TypeOK
  <2>3. SumFunctionOnSet(f, Order) \in Int
    BY <2>2, OrderAssumption, SumIsInt
  <2> QED
    BY <2>1, <2>3 DEF Contributed
<1> QED
  BY <1>1, <1>2, <1>3

LEMMA ContributedMoves ==
  ASSUME TypeOK, NEW o \in Order, NEW q \in Record, cash' = [cash EXCEPT ![o] = q]
  PROVE  Contributed' = Contributed - Contribution(cash[o]) + Contribution(q)
<1>1. cash \in [Order -> Record]
  BY DEF TypeOK
<1>2. PICK c, d : c = cash /\ d = cash'
  OBVIOUS
<1>3. c \in [Order -> Record] /\ d = [c EXCEPT ![o] = q]
  BY <1>1, <1>2
<1>4. PICK f, g, S : /\ f = [p \in Order |-> Contribution(c[p])] /\ S = Order
                     /\ g = [p \in Order |-> Contribution(d[p])]
  OBVIOUS
<1>5. \A p \in S : f[p] \in Int
  BY <1>3, <1>4, ContributionIsInt
<1>6. \A p \in S \ {o} : g[p] = f[p]
  BY <1>3, <1>4
<1>7. o \in S /\ f[o] = Contribution(c[o]) /\ g[o] = Contribution(q)
  BY <1>3, <1>4
<1>8. SumFunctionOnSet(g, S) = SumFunctionOnSet(f, S) - f[o] + g[o]
  <2>1. Contribution(q) \in Int
    BY ContributionIsInt
  <2>2. \A p \in S : f[p] \in Int /\ g[p] \in Int
    BY <1>5, <1>6, <1>7, <2>1
  <2>3. PICK y : y = o
    OBVIOUS
  <2>4. y \in S /\ \A p \in S \ {y} : g[p] = f[p]
    BY <1>6, <1>7, <2>3
  <2>5. IsFiniteSet(S)
    BY <1>4, OrderAssumption
  <2>6. SumFunctionOnSet(g, S) = SumFunctionOnSet(f, S) - f[y] + g[y]
    BY <2>2, <2>4, <2>5, SumUpdated
  <2> QED
    BY <2>3, <2>6
<1>9. Contributed = SumFunctionOnSet(f, S)
  BY <1>2, <1>4 DEF Contributed
<1>10. Contributed' = SumFunctionOnSet(g, S)
  <2>1. Contributed' = SumFunctionOnSet([p \in Order |-> Contribution(cash'[p])], Order)
    BY DEF Contributed, Contribution
  <2> QED
    BY <1>2, <1>4, <2>1
<1> QED
  BY <1>2, <1>7, <1>8, <1>9, <1>10

(* One order's status, recovery and record change, and the pocket with it. *)
LEMMA OneOrder ==
  ASSUME IInv, NEW o \in Order, NEW st \in Status, NEW rc \in Recovery, NEW q \in Record,
         NEW delta \in Int,
         status' = [status EXCEPT ![o] = st], recovery' = [recovery EXCEPT ![o] = rc],
         cash' = [cash EXCEPT ![o] = q], pocket' = pocket + delta,
         Fits(st, rc, q), Contribution(q) = Contribution(cash[o]) + delta,
         UNCHANGED <<delivery, movements, batches, txn>>,
         paidOrder' \in Seq(Order), PaidFit'
  PROVE  IInv'
<1>1. TypeOK'
  <2>1. TypeOK
    BY DEF IInv
  <2>2. /\ status' \in [Order -> Status] /\ recovery' \in [Order -> Recovery]
        /\ cash' \in [Order -> Record] /\ pocket' \in Int
    BY <2>1 DEF TypeOK
  <2> QED
    BY <2>1, <2>2 DEF TypeOK
<1>2. RecordsFit'
  <2>1. ASSUME NEW p \in Order PROVE Fits(status'[p], recovery'[p], cash'[p])
    <3>1. CASE p = o
      BY <3>1 DEF IInv, TypeOK
    <3>2. CASE p # o
      <4>1. status'[p] = status[p] /\ recovery'[p] = recovery[p] /\ cash'[p] = cash[p]
        BY <3>2 DEF IInv, TypeOK
      <4> QED
        BY <4>1 DEF IInv, RecordsFit
    <3> QED
      BY <3>1, <3>2
  <2>2. RecordsFit' <=> \A p \in Order : Fits(status'[p], recovery'[p], cash'[p])
    BY DEF RecordsFit, Fits, DueFrom
  <2> QED
    BY <2>1, <2>2
<1>3. Balanced'
  <2>1. PICK p \in Int, f \in Int, c \in Int, u \in Int :
          p = pocket /\ f = CurrentFloat /\ c = Contributed /\ u = Unmatched
    BY MoneyIsInt DEF IInv
  <2>2. p = f + c - u
    BY <2>1 DEF IInv, Balanced
  <2>3. CurrentFloat' = f /\ Unmatched' = u
    BY <2>1 DEF CurrentFloat, Total, Unmatched
  <2>4. PICK a \in Int, b \in Int : a = Contribution(cash[o]) /\ b = Contribution(q)
    BY ContributionIsInt DEF IInv, TypeOK
  <2>5. Contributed' = c - a + b
    BY <2>1, <2>4, ContributedMoves DEF IInv
  <2>6. p + delta = f + (c - a + b) - u
    <3>1. b = a + delta
      BY <2>4
    <3> QED
      BY <2>2, <3>1
  <2>7. pocket' = p + delta
    BY <2>1
  <2>8. pocket' = CurrentFloat' + Contributed' - Unmatched'
    BY <2>3, <2>5, <2>6, <2>7, Zenon
  <2> QED
    BY <2>8 DEF Balanced
<1> QED
  BY <1>1, <1>2, <1>3 DEF IInv

(* Nobody was paid anew, and no order was given back to the pool. *)
LEMMA PaidStays ==
  ASSUME IInv, NEW o \in Order, NEW st \in Status, st # "DRIVER_ASSIGNED",
         status' = [status EXCEPT ![o] = st], UNCHANGED paidOrder
  PROVE  paidOrder' \in Seq(Order) /\ PaidFit'
<1>1. paidOrder' \in Seq(Order)
  BY DEF IInv, TypeOK
<1>2. \A i \in DOMAIN paidOrder : paidOrder[i] \in Order
  BY DEF IInv, TypeOK
<1>3. PaidFit'
  BY <1>2 DEF IInv, TypeOK, PaidFit
<1> QED
  BY <1>1, <1>3

LEMMA RecordOf ==
  ASSUME IInv, NEW o \in Order
  PROVE  /\ cash[o] \in Record /\ status[o] \in Status /\ recovery[o] \in Recovery
         /\ delivery[o] \in DeliveryType /\ delivery[o].online \in BOOLEAN
         /\ Fits(status[o], recovery[o], cash[o])
<1>1. cash[o] \in Record /\ status[o] \in Status /\ recovery[o] \in Recovery
  BY DEF IInv, TypeOK
<1>2. delivery[o] \in DeliveryType
  BY DeliveryAssumption DEF IInv, TypeOK
<1>3. delivery[o].online \in BOOLEAN
  BY <1>2 DEF DeliveryType
<1> QED
  BY <1>1, <1>2, <1>3 DEF IInv, RecordsFit

LEMMA OnMerchantPickupKeeps ==
  ASSUME IInv, NEW o \in Order, OnMerchantPickup(o)
  PROVE  IInv'
<1>1. PICK s \in Nat :
        /\ s <= delivery[o].subtotal
        /\ cash' = [cash EXCEPT ![o] = PickupCash(delivery[o], s)]
        /\ pocket' = pocket - (delivery[o].subtotal - s)
  BY AmountAssumption DEF OnMerchantPickup
<1>2. PICK d, r, rc : d = delivery[o] /\ r = cash[o] /\ rc = recovery[o]
  OBVIOUS
<1>3. d \in DeliveryType /\ r \in Record /\ rc \in Recovery /\ Fits("DRIVER_ASSIGNED", rc, r)
  BY <1>2, RecordOf DEF OnMerchantPickup
<1>4. PICK q : q = PickupCash(d, s)
  OBVIOUS
<1>5. s <= d.subtotal
  BY <1>1, <1>2
<1>6. q \in Record
  BY <1>3, <1>4, <1>5, PickupIs
<1>7. /\ Fits("OUT_FOR_DELIVERY", rc, q)
      /\ Contribution(q) = Contribution(r) - (d.subtotal - s)
  BY <1>3, <1>4, <1>5, PickupFits
<1>8. PICK delta \in Int : delta = -(d.subtotal - s)
  BY <1>3 DEF DeliveryType
<1>9. Contribution(q) = Contribution(cash[o]) + delta /\ pocket' = pocket + delta
  <2>1. Contribution(r) \in Int /\ pocket \in Int /\ d.subtotal \in Nat
    BY <1>3, ContributionIsInt DEF IInv, TypeOK, DeliveryType
  <2>2. pocket' = pocket - (d.subtotal - s)
    BY <1>1, <1>2
  <2> QED
    BY <1>2, <1>7, <1>8, <2>1, <2>2
<1>10. /\ status' = [status EXCEPT ![o] = "OUT_FOR_DELIVERY"]
       /\ recovery' = [recovery EXCEPT ![o] = rc]
       /\ cash' = [cash EXCEPT ![o] = q]
       /\ UNCHANGED <<delivery, movements, batches, txn>>
  BY <1>1, <1>2, <1>4 DEF OnMerchantPickup, IInv, TypeOK
<1>11. paidOrder' \in Seq(Order) /\ PaidFit'
  <2>1. paidOrder' = Append(paidOrder, o) /\ paidOrder \in Seq(Order)
    BY DEF OnMerchantPickup, IInv, TypeOK
  <2>2. PICK n \in Nat : n = Len(paidOrder)
    BY <2>1
  <2>3. /\ paidOrder' \in Seq(Order) /\ DOMAIN paidOrder = 1 .. n /\ DOMAIN paidOrder' = 1 .. n + 1
        /\ paidOrder'[n + 1] = o
        /\ \A i \in 1 .. n : paidOrder'[i] = paidOrder[i] /\ paidOrder[i] \in Order
    BY <2>1, <2>2
  <2>4. \A i \in 1 .. n : paidOrder[i] # o /\ status[paidOrder[i]] # "DRIVER_ASSIGNED"
    BY <2>3 DEF IInv, PaidFit, OnMerchantPickup
  <2>5. \A i \in 1 .. n : status'[paidOrder[i]] # "DRIVER_ASSIGNED"
    BY <1>10, <2>3, <2>4 DEF IInv, TypeOK
  <2>6. status'[o] # "DRIVER_ASSIGNED"
    BY <1>10 DEF IInv, TypeOK
  <2>7. \A i \in 1 .. n + 1 : i \in 1 .. n \/ i = n + 1
    BY <2>2
  <2>8. \A i \in 1 .. n + 1 : status'[paidOrder'[i]] # "DRIVER_ASSIGNED"
    BY <2>3, <2>5, <2>6, <2>7
  <2>9. \A i, j \in 1 .. n : paidOrder[i] = paidOrder[j] => i = j
    BY <2>3 DEF IInv, PaidFit
  <2>10. \A i, j \in 1 .. n + 1 : paidOrder'[i] = paidOrder'[j] => i = j
    BY <2>3, <2>4, <2>7, <2>9
  <2> QED
    BY <2>3, <2>8, <2>10 DEF PaidFit
<1>12. "OUT_FOR_DELIVERY" \in Status
  BY DEF Status
<1> QED
  BY <1>3, <1>6, <1>7, <1>9, <1>10, <1>11, <1>12, OneOrder

LEMMA OnDeliveredKeeps ==
  ASSUME IInv, NEW o \in Order, OnDelivered(o)
  PROVE  IInv'
<1>1. PICK r, rc : r = cash[o] /\ rc = recovery[o]
  OBVIOUS
<1>2. r \in Record /\ rc \in Recovery /\ Fits("OUT_FOR_DELIVERY", rc, r)
  BY <1>1, RecordOf DEF OnDelivered
<1>3. PICK c \in Nat :
        cash' = [cash EXCEPT ![o] = Collection(r, c)] /\ pocket' = pocket + c - r.keeps
  <2>1. PICK c \in Door \cup {cash[o].expected} :
          cash' = [cash EXCEPT ![o] = Collection(@, c)] /\ pocket' = pocket + c - cash[o].keeps
    BY DEF OnDelivered
  <2>2. c \in Nat
    BY <1>1, <1>2, AmountAssumption DEF Record
  <2>3. cash \in [Order -> Record]
    BY DEF IInv, TypeOK
  <2> QED
    BY <1>1, <2>1, <2>2, <2>3
<1>4. PICK q : q = Collection(r, c)
  OBVIOUS
<1>5. q \in Record
  BY <1>2, <1>4, CollectionIs
<1>6. Fits("DELIVERED", rc, q) /\ Contribution(q) = Contribution(r) + c - r.keeps
  BY <1>2, <1>4, CollectionFits
<1>7. PICK delta \in Int : delta = c - r.keeps
  BY <1>2 DEF Record
<1>8. Contribution(q) = Contribution(cash[o]) + delta /\ pocket' = pocket + delta
  <2>1. Contribution(r) \in Int /\ pocket \in Int /\ r.keeps \in Nat
    BY <1>2, ContributionIsInt DEF IInv, TypeOK, Record
  <2> QED
    BY <1>1, <1>3, <1>6, <1>7, <2>1
<1>9. /\ status' = [status EXCEPT ![o] = "DELIVERED"]
      /\ recovery' = [recovery EXCEPT ![o] = rc]
      /\ cash' = [cash EXCEPT ![o] = q]
      /\ UNCHANGED <<delivery, movements, batches, txn, paidOrder>>
  BY <1>1, <1>3, <1>4 DEF OnDelivered, IInv, TypeOK
<1>10. "DELIVERED" \in Status /\ "DELIVERED" # "DRIVER_ASSIGNED"
  BY DEF Status
<1>11. paidOrder' \in Seq(Order) /\ PaidFit'
  BY <1>9, <1>10, PaidStays
<1> QED
  BY <1>2, <1>5, <1>6, <1>8, <1>9, <1>10, <1>11, OneOrder

LEMMA OnFailedKeeps ==
  ASSUME IInv, NEW o \in Order, NEW outcome \in Recovery \ {"NONE"}, OnFailed(o, outcome)
  PROVE  IInv'
<1>1. PICK r, on : r = cash[o] /\ on = delivery[o].online
  OBVIOUS
<1>2. r \in Record /\ on \in BOOLEAN
  BY <1>1, RecordOf
<1>3. PICK rc \in Recovery : Fits("OUT_FOR_DELIVERY", rc, r)
  BY <1>1, RecordOf DEF OnFailed
<1>4. PICK q : q = Failure(r, on, outcome)
  OBVIOUS
<1>5. q \in Record
  BY <1>2, <1>4, FailureIs
<1>6. Fits("CANCELLED", outcome, q) /\ Contribution(q) = Contribution(r) + ReturnOf(r, outcome)
  BY <1>2, <1>3, <1>4, FailureFits
<1>7. PICK delta \in Int : delta = ReturnOf(r, outcome)
  BY <1>2 DEF ReturnOf, Record
<1>8. /\ status' = [status EXCEPT ![o] = "CANCELLED"]
      /\ recovery' = [recovery EXCEPT ![o] = outcome]
      /\ cash' = [cash EXCEPT ![o] = q] /\ pocket' = pocket + delta
      /\ UNCHANGED <<delivery, movements, batches, txn, paidOrder>>
  <2>1. cash \in [Order -> Record]
    BY DEF IInv, TypeOK
  <2> QED
    BY <1>1, <1>4, <1>7, <2>1 DEF OnFailed
<1>9. "CANCELLED" \in Status /\ "CANCELLED" # "DRIVER_ASSIGNED"
  BY DEF Status
<1>10. paidOrder' \in Seq(Order) /\ PaidFit'
  BY <1>8, <1>9, PaidStays
<1>11. Contribution(q) = Contribution(cash[o]) + delta
  BY <1>1, <1>6, <1>7
<1> QED
  BY <1>5, <1>6, <1>8, <1>9, <1>10, <1>11, OneOrder

LEMMA ResolveKeeps ==
  ASSUME IInv, NEW o \in Order, NEW outcome \in Recovery, ResolveFailedRecovery(o, outcome)
  PROVE  IInv'
<1>1. PICK r, on, st : r = cash[o] /\ on = delivery[o].online /\ st = status[o]
  OBVIOUS
<1>2. r \in Record /\ on \in BOOLEAN /\ st \in Status
  BY <1>1, RecordOf
<1>3. Fits(st, "RECOVERABLE_PENDING", r)
  BY <1>1, RecordOf DEF ResolveFailedRecovery
<1>4. PICK q : q = Resolved(r, on, outcome)
  OBVIOUS
<1>5. q \in Record
  BY <1>2, <1>4, ResolvedIs
<1>6. Fits(st, outcome, q) /\ Contribution(q) = Contribution(r) + ReturnOf(r, outcome)
  BY <1>2, <1>3, <1>4, ResolvedFits
<1>7. PICK delta \in Int : delta = ReturnOf(r, outcome)
  BY <1>2 DEF ReturnOf, Record
<1>8. /\ status' = [status EXCEPT ![o] = st]
      /\ recovery' = [recovery EXCEPT ![o] = outcome]
      /\ cash' = [cash EXCEPT ![o] = q] /\ pocket' = pocket + delta
      /\ UNCHANGED <<delivery, movements, batches, txn, paidOrder>>
  <2>1. cash \in [Order -> Record] /\ status \in [Order -> Status]
    BY DEF IInv, TypeOK
  <2> QED
    BY <1>1, <1>4, <1>7, <2>1 DEF ResolveFailedRecovery
<1>9. st # "DRIVER_ASSIGNED"
  BY <1>3 DEF Fits
<1>10. paidOrder' \in Seq(Order) /\ PaidFit'
  BY <1>2, <1>8, <1>9, PaidStays
<1>11. Contribution(q) = Contribution(cash[o]) + delta
  BY <1>1, <1>6, <1>7
<1> QED
  BY <1>2, <1>5, <1>6, <1>8, <1>10, <1>11, OneOrder

LEMMA CancelledKeeps ==
  ASSUME IInv, NEW o \in Order, CancelledOnTheWay(o)
  PROVE  IInv'
<1>1. PICK r, rc : r = cash[o] /\ rc = recovery[o]
  OBVIOUS
<1>2. r \in Record /\ rc \in Recovery /\ Fits("OUT_FOR_DELIVERY", rc, r)
  BY <1>1, RecordOf DEF CancelledOnTheWay
<1>3. Fits("CANCELLED", rc, r)
  BY <1>2 DEF Fits
<1>4. PICK delta \in Int : delta = 0
  OBVIOUS
<1>5. /\ status' = [status EXCEPT ![o] = "CANCELLED"]
      /\ recovery' = [recovery EXCEPT ![o] = rc] /\ cash' = [cash EXCEPT ![o] = r]
      /\ UNCHANGED <<delivery, movements, batches, txn, paidOrder, pocket>>
  BY <1>1 DEF CancelledOnTheWay, IInv, TypeOK
<1>6. pocket' = pocket + delta /\ Contribution(r) = Contribution(cash[o]) + delta
  <2>1. pocket \in Int /\ Contribution(r) \in Int
    BY <1>2, ContributionIsInt DEF IInv, TypeOK
  <2> QED
    BY <1>1, <1>4, <1>5, <2>1
<1>7. "CANCELLED" \in Status /\ "CANCELLED" # "DRIVER_ASSIGNED"
  BY DEF Status
<1>8. paidOrder' \in Seq(Order) /\ PaidFit'
  BY <1>5, <1>7, PaidStays
<1> QED
  BY <1>2, <1>3, <1>5, <1>6, <1>7, <1>8, OneOrder

-----------------------------------------------------------------------------
(* The steps of an administrator. *)
TxnType ==
  {Idle} \cup [kind : {"handover"}, amount : Counted, seen : [Order -> Record]]
         \cup [kind : {"float"}, move : Movement, seen : Int]

LEMMA TxnOf ==
  ASSUME TypeOK, NEW a \in Admin
  PROVE  /\ txn \in [Admin -> TxnType] /\ txn[a] \in TxnType
         /\ txn[a].kind = "handover" =>
              txn[a] \in [kind : {"handover"}, amount : Counted, seen : [Order -> Record]]
         /\ txn[a].kind = "float" =>
              txn[a] \in [kind : {"float"}, move : Movement, seen : Int]
<1>1. txn \in [Admin -> TxnType]
  BY DEF TypeOK, TxnType
<1>2. txn[a] \in TxnType
  BY <1>1
<1>3. Idle.kind = "idle"
  BY DEF Idle
<1> QED
  BY <1>1, <1>2, <1>3 DEF TxnType

(* Only the transaction moves. *)
LEMMA OnlyTxn ==
  ASSUME IInv, NEW a \in Admin, NEW t \in TxnType, txn' = [txn EXCEPT ![a] = t],
         UNCHANGED <<delivery, status, recovery, cash, paidOrder, movements, batches, pocket>>
  PROVE  IInv'
<1>1. txn' \in [Admin -> TxnType]
  BY TxnOf DEF IInv
<1>2. TypeOK'
  BY <1>1 DEF IInv, TypeOK, TxnType
<1>3. RecordsFit'
  BY DEF IInv, RecordsFit, Fits, DueFrom
<1>4. PaidFit'
  BY DEF IInv, PaidFit
<1>5. Balanced'
  <2>1. CurrentFloat' = CurrentFloat /\ Contributed' = Contributed /\ Unmatched' = Unmatched
    BY DEF CurrentFloat, Total, Contributed, Contribution, Unmatched
  <2> QED
    BY <2>1 DEF IInv, Balanced
<1> QED
  BY <1>2, <1>3, <1>4, <1>5 DEF IInv

LEMMA ReadHandoverKeeps ==
  ASSUME IInv, NEW a \in Admin, NEW amount \in Counted, ReadHandover(a, amount)
  PROVE  IInv'
<1>1. PICK t : t = [kind |-> "handover", amount |-> amount, seen |-> cash]
  OBVIOUS
<1>2. t \in TxnType
  BY <1>1 DEF IInv, TypeOK, TxnType
<1> QED
  BY <1>1, <1>2, OnlyTxn DEF ReadHandover

LEMMA RetryHandoverKeeps ==
  ASSUME IInv, NEW a \in Admin, RetryHandover(a)
  PROVE  IInv'
<1>1. txn[a] \in [kind : {"handover"}, amount : Counted, seen : [Order -> Record]]
  BY TxnOf DEF RetryHandover, IInv
<1>2. PICK t : t = [txn[a] EXCEPT !.seen = cash]
  OBVIOUS
<1>3. t \in TxnType
  BY <1>1, <1>2 DEF IInv, TypeOK, TxnType
<1>4. txn' = [txn EXCEPT ![a] = t]
  BY <1>2, TxnOf DEF RetryHandover, IInv
<1> QED
  BY <1>3, <1>4, OnlyTxn DEF RetryHandover

LEMMA AbandonHandoverKeeps ==
  ASSUME IInv, NEW a \in Admin, AbandonHandover(a)
  PROVE  IInv'
<1>1. Idle \in TxnType
  BY DEF TxnType
<1> QED
  BY <1>1, OnlyTxn DEF AbandonHandover

LEMMA ReadFloatKeeps ==
  ASSUME IInv, NEW a \in Admin, NEW type \in {"ISSUED", "RETURNED"}, NEW amount \in FloatAmount,
         ReadFloat(a, [type |-> type, amount |-> amount])
  PROVE  IInv'
<1>1. PICK move : move = [type |-> type, amount |-> amount]
  OBVIOUS
<1>2. amount \in Nat
  BY AmountAssumption
<1>3. move \in Movement
  BY <1>1, <1>2 DEF Movement
<1>4. PICK n \in Int : n = CurrentFloat
  BY MoneyIsInt DEF IInv
<1>5. PICK t : t = [kind |-> "float", move |-> move, seen |-> n]
  OBVIOUS
<1>6. t \in TxnType
  BY <1>3, <1>4, <1>5 DEF TxnType
<1> QED
  BY <1>1, <1>4, <1>5, <1>6, OnlyTxn DEF ReadFloat

LEMMA InsertMovementKeeps ==
  ASSUME IInv, NEW a \in Admin, InsertMovement(a)
  PROVE  IInv'
<1>1. PICK m \in Movement : m = txn[a].move
  BY TxnOf DEF InsertMovement, IInv
<1>2. PICK ms, ns : ms = movements /\ ns = movements'
  OBVIOUS
<1>3. ms \in Seq(Movement) /\ ns = Append(ms, m)
  BY <1>1, <1>2 DEF InsertMovement, IInv, TypeOK
<1>4. ns \in Seq(Movement)
  BY <1>3, AppendIs
<1>5. PICK delta \in Int : delta = IF m.type = "ISSUED" THEN m.amount ELSE -m.amount
  BY DEF Movement
<1>6. pocket \in Int /\ pocket' = pocket + delta
  <2>1. pocket \in Int /\ m.amount \in Nat
    BY DEF IInv, TypeOK, Movement
  <2>2. pocket' = IF m.type = "ISSUED" THEN pocket + m.amount ELSE pocket - m.amount
    BY <1>1 DEF InsertMovement
  <2> QED
    BY <1>5, <2>1, <2>2
<1>7. txn' \in [Admin -> TxnType]
  <2>1. Idle \in TxnType /\ txn \in [Admin -> TxnType]
    BY TxnOf DEF TxnType, IInv
  <2> QED
    BY <2>1 DEF InsertMovement
<1>8. TypeOK'
  <2>1. pocket' \in Int
    BY <1>6
  <2>2. movements' \in Seq(Movement)
    BY <1>2, <1>4
  <2> QED
    BY <1>7, <2>1, <2>2 DEF IInv, TypeOK, TxnType, InsertMovement
<1>9. RecordsFit'
  BY DEF IInv, RecordsFit, Fits, DueFrom, InsertMovement
<1>10. PaidFit'
  BY DEF IInv, PaidFit, InsertMovement
<1>11. Balanced'
  <2>1. Contributed' = Contributed /\ Unmatched' = Unmatched
    BY DEF Contributed, Contribution, Unmatched, InsertMovement
  <2>2. PICK i \in Int, r \in Int : i = TotalOf(ms, "ISSUED") /\ r = TotalOf(ms, "RETURNED")
    BY <1>3, TotalIsInt
  <2>3. PICK j \in Int, s \in Int : j = TotalOf(ns, "ISSUED") /\ s = TotalOf(ns, "RETURNED")
    BY <1>4, TotalIsInt
  <2>4. CurrentFloat = i - r
    BY <1>2, <2>2, FloatIs
  <2>5. CurrentFloat' = j - s
    <3>1. (CurrentFloat = TotalOf(movements, "ISSUED") - TotalOf(movements, "RETURNED"))'
      BY FloatIs, PTL
    <3>2. /\ (TotalOf(movements, "ISSUED"))' = TotalOf(ns, "ISSUED")
          /\ (TotalOf(movements, "RETURNED"))' = TotalOf(ns, "RETURNED")
      BY <1>2 DEF TotalOf, OfType
    <3> QED
      BY <2>3, <3>1, <3>2
  <2>6. PICK ty \in {"ISSUED", "RETURNED"}, am \in Nat : ty = m.type /\ am = m.amount
    BY DEF Movement
  <2>7. PICK x \in Nat, y \in Nat : /\ x = (IF ty = "ISSUED" THEN am ELSE 0)
                                    /\ y = (IF ty = "RETURNED" THEN am ELSE 0)
    OBVIOUS
  <2>8. j = i + x /\ s = r + y
    <3>1. ASSUME NEW t
          PROVE  TotalOf(ns, t) = TotalOf(ms, t) + (IF m.type = t THEN m.amount ELSE 0)
      <4>1. OneLonger(ns, ms, m)
        BY <1>3 DEF OneLonger
      <4>2. ms \in Seq(Movement)
        BY <1>3
      <4> QED
        BY <4>1, <4>2, TotalAdded
    <3>2. /\ TotalOf(ns, "ISSUED") = TotalOf(ms, "ISSUED") + x
          /\ TotalOf(ns, "RETURNED") = TotalOf(ms, "RETURNED") + y
      BY <2>6, <2>7, <3>1
    <3> QED
      BY <2>2, <2>3, <3>2
  <2>9. j - s = i - r + delta
    BY <1>5, <2>6, <2>7, <2>8
  <2>10. PICK f \in Int, g \in Int, p \in Int, c \in Int, u \in Int :
          f = CurrentFloat /\ g = CurrentFloat' /\ p = pocket /\ c = Contributed /\ u = Unmatched
    BY <2>4, <2>5, MoneyIsInt DEF IInv
  <2>11. p = f + c - u
    BY <2>10 DEF IInv, Balanced
  <2>12. g = f + delta
    BY <2>4, <2>5, <2>9, <2>10
  <2>13. p + delta = g + c - u
    BY <2>11, <2>12
  <2> QED
    BY <1>6, <2>1, <2>10, <2>13 DEF Balanced
<1> QED
  BY <1>8, <1>9, <1>10, <1>11 DEF IInv

-----------------------------------------------------------------------------
(* The commit of a handover: what it writes nobody has written since it was
   read, so the debts that are paid down are the present ones. *)
LEMMA CommitIs ==
  ASSUME IInv, NEW a \in Admin, CommitHandover(a)
  PROVE  \E amount \in Int \ {0}, rest \in Nat :
           /\ pocket' = pocket - amount
           /\ \E w, c : /\ cash' = [o \in Order |-> IF o \in w THEN c[o] ELSE cash[o]]
                        /\ c \in [Order -> Record]
                        /\ \A o \in w : PaidDown(cash[o], c[o])
           /\ Contributed' = Contributed - Used(amount, rest)
           /\ batches' = Append(batches, [amount |-> amount, unallocated |-> Sign(amount) * rest])
<1>1. PICK amount \in Int \ {0}, seen \in [Order -> Record] :
        amount = txn[a].amount /\ seen = txn[a].seen
  BY TxnOf, AmountAssumption DEF CommitHandover, IInv
<1>2. PICK done : done = Allocate(seen, paidOrder, amount)
  OBVIOUS
<1>3. AccFits(done, seen, amount, Order)
  BY <1>2, AllocateFits DEF IInv, TypeOK, PaidFit
<1>4. PICK rest, w, c : /\ rest = done.remaining /\ w = done.written /\ c = done.cash
                        /\ rest \in Nat
  BY <1>3 DEF AccFits
<1>5. /\ c \in [Order -> Record] /\ w \subseteq Order
      /\ \A o \in Order \ w : c[o] = seen[o]
      /\ \A o \in w : PaidDown(seen[o], c[o])
      /\ Owed(c) = Owed(seen) - Used(amount, rest)
  BY <1>3, <1>4 DEF AccFits
<1>6. Allocated(a) = done
  BY <1>1, <1>2 DEF Allocated
<1>7. \A o \in w : cash[o] = seen[o]
  BY <1>1, <1>4, <1>6 DEF CommitHandover, HandoverConflict
<1>8. /\ cash' = [o \in Order |-> IF o \in w THEN c[o] ELSE cash[o]]
      /\ batches' = Append(batches, [amount |-> amount, unallocated |-> Sign(amount) * rest])
      /\ pocket' = pocket - amount
  BY <1>1, <1>4, <1>6 DEF CommitHandover
<1>9. \A o \in w : PaidDown(cash[o], c[o])
  BY <1>5, <1>7
<1>10. Contributed' = Contributed - Used(amount, rest)
  <2>1. PICK f, g, s, d : /\ f = [o \in Order |-> Contribution(cash[o])]
                          /\ g = [o \in Order |-> Contribution(cash'[o])]
                          /\ s = [o \in Order |-> seen[o].outstanding]
                          /\ d = [o \in Order |-> c[o].outstanding]
    OBVIOUS
  <2>2. /\ Contributed = SumFunctionOnSet(f, Order) /\ Owed(seen) = SumFunctionOnSet(s, Order)
        /\ Owed(c) = SumFunctionOnSet(d, Order)
    BY <2>1 DEF Contributed, Owed
  <2>3. Contributed' = SumFunctionOnSet(g, Order)
    BY <2>1 DEF Contributed, Contribution
  <2>4. ASSUME NEW o \in Order
        PROVE  /\ f[o] \in Int /\ g[o] \in Int /\ s[o] \in Int /\ d[o] \in Int
               /\ g[o] + s[o] = f[o] + d[o]
    <3>1. cash[o] \in Record /\ seen[o] \in Record /\ c[o] \in Record
      BY <1>5 DEF IInv, TypeOK
    <3>2. cash'[o] = IF o \in w THEN c[o] ELSE cash[o]
      BY <1>8
    <3>3. cash'[o] \in Record
      BY <3>1, <3>2
    <3>4. f[o] = Contribution(cash[o]) /\ s[o] = seen[o].outstanding /\ d[o] = c[o].outstanding
      BY <2>1
    <3>5. g[o] = Contribution(cash'[o])
      BY <2>1
    <3>6. f[o] \in Int /\ g[o] \in Int
      BY <3>1, <3>3, <3>4, <3>5, ContributionIsInt
    <3>7. s[o] \in Int /\ d[o] \in Int
      BY <3>1, <3>4 DEF Record
    <3>8. CASE o \in w
      <4>1. PICK st, rc : Fits(st, rc, cash[o])
        BY DEF IInv, RecordsFit
      <4>2. PICK r, q : r = cash[o] /\ q = c[o]
        OBVIOUS
      <4>3. Contribution(r) = r.outstanding /\ Contribution(q) = q.outstanding
        BY <1>9, <3>1, <3>8, <4>1, <4>2, PaidDownFits
      <4>4. f[o] = s[o] /\ g[o] = d[o]
        BY <1>7, <3>2, <3>4, <3>5, <3>8, <4>2, <4>3
      <4> QED
        BY <3>6, <3>7, <4>4
    <3>9. CASE o \notin w
      <4>1. g[o] = f[o] /\ s[o] = d[o]
        BY <1>5, <3>2, <3>4, <3>5, <3>9
      <4> QED
        BY <3>6, <3>7, <4>1
    <3> QED
      BY <3>6, <3>7, <3>8, <3>9
  <2>5. PICK S : S = Order
    OBVIOUS
  <2>6. PICK h : h = [o \in S |-> g[o] + s[o]]
    OBVIOUS
  <2>7. \A o \in S : g[o] \in Int /\ s[o] \in Int /\ h[o] = g[o] + s[o]
    BY <2>4, <2>5, <2>6
  <2>8. \A o \in S : f[o] \in Int /\ d[o] \in Int /\ h[o] = f[o] + d[o]
    BY <2>4, <2>5, <2>6
  <2>9. IsFiniteSet(S)
    BY <2>5, OrderAssumption
  <2>10. PICK x, y, u, v, t : /\ x = SumFunctionOnSet(f, S) /\ y = SumFunctionOnSet(g, S)
                              /\ u = SumFunctionOnSet(s, S) /\ v = SumFunctionOnSet(d, S)
                              /\ t = SumFunctionOnSet(h, S)
    OBVIOUS
  <2>11. SumFunctionOnSet(h, S) = SumFunctionOnSet(g, S) + SumFunctionOnSet(s, S)
    BY <2>7, <2>9, SumOfTwo
  <2>12. SumFunctionOnSet(h, S) = SumFunctionOnSet(f, S) + SumFunctionOnSet(d, S)
    BY <2>8, <2>9, SumOfTwo
  <2>13. t = y + u /\ t = x + v
    BY <2>10, <2>11, <2>12
  <2>14. x \in Int /\ u \in Int
    BY <2>2, <2>5, <2>10, MoneyIsInt, OwedIsInt DEF IInv
  <2>15. y \in Int
    <3>1. \A o \in S : g[o] \in Int
      BY <2>7
    <3>2. SumFunctionOnSet(g, S) \in Int
      BY <2>9, <3>1, SumIsInt
    <3> QED
      BY <2>10, <3>2
  <2>16. PICK n \in Int : n = Used(amount, rest)
    <3>1. Used(amount, rest) \in Int
      BY <1>4 DEF Used
    <3> QED
      BY <3>1
  <2>17. v = u - n
    BY <1>5, <2>2, <2>5, <2>10, <2>16
  <2>18. y = x - n
    BY <2>13, <2>14, <2>15, <2>17
  <2> QED
    BY <2>2, <2>3, <2>5, <2>10, <2>16, <2>18
<1> QED
  BY <1>4, <1>5, <1>8, <1>9, <1>10

LEMMA UsedIs ==
  ASSUME NEW amount \in Int \ {0}, NEW rest \in Nat
  PROVE  /\ Sign(amount) * rest \in Int
         /\ Used(amount, rest) = amount - Sign(amount) * rest
<1>1. CASE amount > 0
  BY <1>1 DEF Sign, Used
<1>2. CASE amount < 0
  BY <1>2 DEF Sign, Used
<1> QED
  BY <1>1, <1>2

LEMMA CommitHandoverKeeps ==
  ASSUME IInv, NEW a \in Admin, CommitHandover(a)
  PROVE  IInv'
<1>1. PICK amount \in Int \ {0}, rest \in Nat :
           /\ pocket' = pocket - amount
           /\ \E w, c : /\ cash' = [o \in Order |-> IF o \in w THEN c[o] ELSE cash[o]]
                        /\ c \in [Order -> Record]
                        /\ \A o \in w : PaidDown(cash[o], c[o])
           /\ Contributed' = Contributed - Used(amount, rest)
           /\ batches' = Append(batches, [amount |-> amount, unallocated |-> Sign(amount) * rest])
  BY CommitIs
<1>2. PICK w, c : /\ cash' = [o \in Order |-> IF o \in w THEN c[o] ELSE cash[o]]
                  /\ c \in [Order -> Record]
                  /\ \A o \in w : PaidDown(cash[o], c[o])
  BY <1>1
<1>3. PICK k \in Int : k = Sign(amount) * rest
  BY UsedIs
<1>4. PICK e : e = [amount |-> amount, unallocated |-> k]
  OBVIOUS
<1>5. e \in Batch /\ e.unallocated = k
  BY <1>4 DEF Batch
<1>6. batches \in Seq(Batch) /\ batches' = Append(batches, e)
  BY <1>1, <1>3, <1>4 DEF IInv, TypeOK
<1>7. PICK bs, cs : bs = batches /\ cs = batches'
  OBVIOUS
<1>8. cs \in Seq(Batch) /\ UnmatchedOf(cs) = UnmatchedOf(bs) + k
  <2>1. bs \in Seq(Batch) /\ cs = Append(bs, e)
    BY <1>6, <1>7
  <2>2. cs \in Seq(Batch)
    BY <1>5, <2>1, AppendIs
  <2>3. UnmatchedOf(cs) = UnmatchedOf(bs) + e.unallocated
    BY <1>5, <2>1, UnmatchedAdded
  <2> QED
    BY <1>5, <2>2, <2>3
<1>9. /\ UNCHANGED <<delivery, status, recovery, paidOrder, movements>>
      /\ txn' = [txn EXCEPT ![a] = Idle]
  BY DEF CommitHandover
<1>10. txn' \in [Admin -> TxnType]
  BY <1>9, TxnOf DEF TxnType, IInv
<1>11. cash' \in [Order -> Record]
  BY <1>2 DEF IInv, TypeOK
<1>12. pocket \in Int /\ pocket' \in Int
  BY <1>1 DEF IInv, TypeOK
<1>13. TypeOK'
  BY <1>7, <1>8, <1>9, <1>10, <1>11, <1>12 DEF IInv, TypeOK, TxnType
<1>14. RecordsFit'
  <2>1. ASSUME NEW o \in Order PROVE Fits(status[o], recovery[o], cash'[o])
    <3>1. cash[o] \in Record /\ Fits(status[o], recovery[o], cash[o])
      BY DEF IInv, TypeOK, RecordsFit
    <3>2. CASE o \in w
      <4>1. cash'[o] = c[o] /\ PaidDown(cash[o], c[o])
        BY <1>2, <3>2
      <4> QED
        BY <3>1, <4>1, PaidDownFits
    <3>3. CASE o \notin w
      BY <1>2, <3>1, <3>3
    <3> QED
      BY <3>2, <3>3
  <2> QED
    BY <1>9, <2>1 DEF RecordsFit, Fits, DueFrom
<1>15. PaidFit'
  BY <1>9 DEF IInv, PaidFit
<1>16. Balanced'
  <2>1. CurrentFloat' = CurrentFloat
    BY <1>9 DEF CurrentFloat, Total
  <2>2. PICK p \in Int, f \in Int, x \in Int, u \in Int :
          p = pocket /\ f = CurrentFloat /\ x = Contributed /\ u = Unmatched
    BY MoneyIsInt DEF IInv
  <2>3. p = f + x - u
    BY <2>2 DEF IInv, Balanced
  <2>4. Contributed' = x - (amount - k)
    BY <1>1, <1>3, <2>2, UsedIs
  <2>5. Unmatched' = u + k
    <3>1. Unmatched' = UnmatchedOf(cs) /\ u = UnmatchedOf(bs)
      BY <1>7, <2>2 DEF Unmatched, UnmatchedOf
    <3> QED
      BY <1>8, <3>1
  <2>6. p - amount = f + (x - (amount - k)) - (u + k)
    BY <2>3
  <2> QED
    BY <1>1, <2>1, <2>2, <2>4, <2>5, <2>6 DEF Balanced
<1> QED
  BY <1>13, <1>14, <1>15, <1>16 DEF IInv

-----------------------------------------------------------------------------
LEMMA InitInv == Init => IInv
<1> SUFFICES ASSUME Init PROVE IInv
  OBVIOUS
<1>1. NoRecord \in Record /\ Contribution(NoRecord) = 0
  BY NoRecordIs DEF Contribution
<1>2. TypeOK
  BY <1>1 DEF Init, TypeOK, Status, Recovery
<1>3. RecordsFit
  BY NoRecordIs DEF Init, RecordsFit, Fits
<1>4. PaidFit
  BY DEF Init, PaidFit
<1>5. Balanced
  <2>1. Contributed = 0
    <3>1. PICK f : f = [o \in Order |-> Contribution(cash[o])]
      OBVIOUS
    <3>2. \A o \in Order : f[o] = 0
      BY <1>1, <3>1 DEF Init
    <3>3. SumFunctionOnSet(f, Order) = 0
      BY <3>2, OrderAssumption, SumIsZero
    <3> QED
      BY <3>1, <3>3 DEF Contributed
  <2>2. Unmatched = 0
    <3>1. DOMAIN batches = {}
      BY DEF Init
    <3> QED
      BY <3>1, SumEmpty DEF Unmatched, UnmatchedOf
  <2>3. ASSUME NEW type PROVE TotalOf(movements, type) = 0
    <3>1. OfType(movements, type) = {}
      BY DEF Init, OfType
    <3> QED
      BY <3>1, SumEmpty DEF TotalOf
  <2>4. CurrentFloat = 0
    <3>1. TotalOf(movements, "ISSUED") = 0 /\ TotalOf(movements, "RETURNED") = 0
      BY <2>3
    <3> QED
      BY <3>1, FloatIs
  <2>5. pocket = 0
    BY DEF Init
  <2> QED
    BY <2>1, <2>2, <2>4, <2>5 DEF Balanced
<1> QED
  BY <1>2, <1>3, <1>4, <1>5 DEF IInv

LEMMA NextKeeps == IInv /\ [Next]_vars => IInv'
<1> SUFFICES ASSUME IInv, [Next]_vars PROVE IInv'
  OBVIOUS
<1>1. ASSUME NEW o \in Order, DeliveryStep(o) PROVE IInv'
  BY <1>1, OnMerchantPickupKeeps, OnDeliveredKeeps, CancelledKeeps, OnFailedKeeps, ResolveKeeps
     DEF DeliveryStep, Recovery
<1>2. ASSUME NEW a \in Admin, AdminStep(a) PROVE IInv'
  BY <1>2, ReadHandoverKeeps, CommitHandoverKeeps, RetryHandoverKeeps, AbandonHandoverKeeps,
     ReadFloatKeeps, InsertMovementKeeps
     DEF AdminStep
<1>3. CASE UNCHANGED vars
  <2>1. TypeOK'
    BY <1>3 DEF IInv, TypeOK, vars
  <2>2. RecordsFit'
    BY <1>3 DEF IInv, RecordsFit, Fits, DueFrom, vars
  <2>3. PaidFit'
    BY <1>3 DEF IInv, PaidFit, vars
  <2>4. Balanced'
    BY <1>3 DEF IInv, Balanced, CurrentFloat, Total, Contributed, Contribution, Unmatched, vars
  <2> QED
    BY <2>1, <2>2, <2>3, <2>4 DEF IInv
<1> QED
  BY <1>1, <1>2, <1>3 DEF Next

LEMMA Invariance == Spec => []IInv
BY InitInv, NextKeeps, PTL DEF Spec

-----------------------------------------------------------------------------
(* The requirements. *)

(* The state of driver-cash.service.ts is of its type: a record's amounts keep
   the signs the schema gives them, and a request in flight holds what it read. *)
THEOREM CashTypeCorrect == Spec => []TypeOK
<1>1. IInv => TypeOK
  BY DEF IInv
<1> QED
  BY <1>1, Invariance, PTL

(* onFailed and resolveFailedRecovery decide a failed delivery's money once:
   the merchant returns it or TFTW books the loss, never both. *)
THEOREM FailureIsSettledOnce == Spec => []FailureSettledOnce
<1>1. IInv => FailureSettledOnce
  <2> SUFFICES ASSUME IInv, NEW o \in Order
               PROVE  /\ cash[o].returned + cash[o].loss <= cash[o].paid
                      /\ cash[o].status = "FAILED" =>
                           /\ cash[o].recovery = recovery[o]
                           /\ cash[o].recovery = "RECOVERABLE_PENDING" =>
                                cash[o].returned + cash[o].loss = 0
    BY DEF FailureSettledOnce
  <2>1. cash[o] \in Record /\ Fits(status[o], recovery[o], cash[o])
    BY RecordOf
  <2> QED
    BY <2>1 DEF Fits, Record
<1> QED
  BY <1>1, Invariance, PTL

(* What reconciliation() says the driver owes, less what it says TFTW owes the
   driver, less what the merchants of deliveries on the way were paid. *)
LEMMA ContributedIs ==
  ASSUME IInv
  PROVE  Contributed = SumFunction([o \in Settling |-> Larger(0, cash[o].outstanding)])
                     - SumFunction([o \in Settling |-> Larger(0, -cash[o].outstanding)])
                     - SumFunction([o \in Waiting |-> cash[o].paid])
<1>1. PICK T, S, W : T = Order /\ S = Settling /\ W = Waiting
  OBVIOUS
<1>2. /\ S \subseteq T /\ W \subseteq T /\ IsFiniteSet(T)
      /\ \A o \in T : /\ o \in S <=> cash[o].status \notin {"NONE", "EXPECTED"}
                      /\ o \in W <=> cash[o].status = "EXPECTED"
  BY <1>1, OrderAssumption DEF Settling, Waiting
<1>3. PICK p, n, w : /\ p = [o \in S |-> Larger(0, cash[o].outstanding)]
                     /\ n = [o \in S |-> Larger(0, -cash[o].outstanding)]
                     /\ w = [o \in W |-> cash[o].paid]
  OBVIOUS
<1>4. PICK P, N, V :
        /\ P = [o \in T |-> IF o \in S THEN p[o] ELSE 0]
        /\ N = [o \in T |-> IF o \in S THEN n[o] ELSE 0]
        /\ V = [o \in T |-> IF o \in W THEN w[o] ELSE 0]
  OBVIOUS
<1>5. PICK f : f = [o \in T |-> Contribution(cash[o])]
  OBVIOUS
<1>6. PICK Q : Q = [o \in T |-> f[o] + N[o]]
  OBVIOUS
<1>7. /\ P = [o \in T |-> IF o \in S THEN p[o] ELSE 0]
      /\ N = [o \in T |-> IF o \in S THEN n[o] ELSE 0]
      /\ V = [o \in T |-> IF o \in W THEN w[o] ELSE 0]
      /\ f = [o \in T |-> Contribution(cash[o])]
      /\ Q = [o \in T |-> f[o] + N[o]]
  BY <1>4, <1>5, <1>6
<1>8. ASSUME NEW o \in T
      PROVE  /\ o \in S => p[o] \in Int /\ n[o] \in Int
             /\ o \in W => w[o] \in Int
             /\ f[o] \in Int /\ P[o] \in Int /\ N[o] \in Int /\ V[o] \in Int
             /\ P[o] = Q[o] + V[o] /\ Q[o] = f[o] + N[o] /\ Q[o] \in Int
  <2>1. cash[o] \in Record /\ Fits(status[o], recovery[o], cash[o])
    BY <1>1, RecordOf
  <2>2. PICK x \in Int, m \in Nat, st \in CashStatus :
          x = cash[o].outstanding /\ m = cash[o].paid /\ st = cash[o].status
    BY <2>1 DEF Record
  <2>3. f[o] = IF st = "EXPECTED" THEN -m ELSE x
    BY <1>7, <2>2 DEF Contribution
  <2>4. CASE st = "NONE"
    <3>1. x = 0 /\ o \notin S /\ o \notin W
      BY <1>2, <2>1, <2>2, <2>4 DEF Fits
    <3>2. P[o] = 0 /\ N[o] = 0 /\ V[o] = 0 /\ f[o] = 0
      BY <1>7, <2>3, <2>4, <3>1
    <3> QED
      BY <1>7, <3>1, <3>2
  <2>5. CASE st = "EXPECTED"
    <3>1. o \notin S /\ o \in W
      BY <1>2, <2>2, <2>5
    <3>2. P[o] = 0 /\ N[o] = 0 /\ V[o] = m /\ f[o] = -m /\ w[o] = m
      BY <1>3, <1>7, <2>2, <2>3, <2>5, <3>1
    <3> QED
      BY <1>7, <3>1, <3>2
  <2>6. CASE st \notin {"NONE", "EXPECTED"}
    <3>1. o \in S /\ o \notin W
      BY <1>2, <2>2, <2>6
    <3>2. /\ P[o] = Larger(0, x) /\ N[o] = Larger(0, -x) /\ V[o] = 0 /\ f[o] = x
          /\ p[o] = Larger(0, x) /\ n[o] = Larger(0, -x)
      BY <1>3, <1>7, <2>2, <2>3, <2>6, <3>1
    <3>3. Larger(0, x) \in Int /\ Larger(0, -x) \in Int /\ Larger(0, x) = x + Larger(0, -x)
      BY DEF Larger
    <3> QED
      BY <1>7, <3>1, <3>2, <3>3
  <2> QED
    BY <2>4, <2>5, <2>6
<1>9. /\ SumFunctionOnSet(P, T) = SumFunctionOnSet(p, S)
      /\ SumFunctionOnSet(N, T) = SumFunctionOnSet(n, S)
  <2>1. /\ \A o \in S : p[o] \in Int /\ n[o] \in Int /\ P[o] = p[o] /\ N[o] = n[o]
        /\ \A o \in T \ S : P[o] = 0 /\ N[o] = 0
    BY <1>2, <1>7, <1>8
  <2> QED
    BY <1>2, <2>1, SumPadded
<1>10. SumFunctionOnSet(V, T) = SumFunctionOnSet(w, W)
  <2>1. /\ \A o \in W : w[o] \in Int /\ V[o] = w[o]
        /\ \A o \in T \ W : V[o] = 0
    BY <1>2, <1>7, <1>8
  <2> QED
    BY <1>2, <2>1, SumPadded
<1>11. SumFunctionOnSet(P, T) = SumFunctionOnSet(Q, T) + SumFunctionOnSet(V, T)
  <2>1. \A o \in T : Q[o] \in Int /\ V[o] \in Int /\ P[o] = Q[o] + V[o]
    BY <1>8
  <2> QED
    BY <1>2, <2>1, SumOfTwo
<1>12. SumFunctionOnSet(Q, T) = SumFunctionOnSet(f, T) + SumFunctionOnSet(N, T)
  <2>1. \A o \in T : f[o] \in Int /\ N[o] \in Int /\ Q[o] = f[o] + N[o]
    BY <1>8
  <2> QED
    BY <1>2, <2>1, SumOfTwo
<1>13. /\ SumFunctionOnSet(f, T) \in Int /\ SumFunctionOnSet(N, T) \in Int
       /\ SumFunctionOnSet(V, T) \in Int
  <2>1. \A o \in T : f[o] \in Int /\ N[o] \in Int /\ V[o] \in Int
    BY <1>8
  <2> QED
    BY <1>2, <2>1, SumIsInt
<1>14. Contributed = SumFunctionOnSet(f, T)
  BY <1>1, <1>7 DEF Contributed
<1>15. /\ SumFunction([o \in Settling |-> Larger(0, cash[o].outstanding)]) = SumFunctionOnSet(p, S)
       /\ SumFunction([o \in Settling |-> Larger(0, -cash[o].outstanding)]) = SumFunctionOnSet(n, S)
       /\ SumFunction([o \in Waiting |-> cash[o].paid]) = SumFunctionOnSet(w, W)
  <2>1. DOMAIN p = S /\ DOMAIN n = S /\ DOMAIN w = W
    BY <1>3
  <2>2. /\ SumFunction(p) = SumFunctionOnSet(p, S) /\ SumFunction(n) = SumFunctionOnSet(n, S)
        /\ SumFunction(w) = SumFunctionOnSet(w, W)
    BY <2>1 DEF SumFunction
  <2> QED
    BY <1>1, <1>3, <2>2
<1>16. PICK a \in Int, b \in Int, c \in Int :
         a = SumFunctionOnSet(f, T) /\ b = SumFunctionOnSet(N, T) /\ c = SumFunctionOnSet(V, T)
  BY <1>13
<1>17. SumFunctionOnSet(p, S) = a + b + c /\ SumFunctionOnSet(n, S) = b
       /\ SumFunctionOnSet(w, W) = c
  BY <1>9, <1>10, <1>11, <1>12, <1>16
<1>18. a = (a + b + c) - b - c
  OBVIOUS
<1> QED
  BY <1>14, <1>15, <1>16, <1>17, <1>18

(* The cash a driver really holds is what reconciliation() works out from the
   float and the open records, once the merchants paid for deliveries on the
   way and the handovers that matched no record are set off: whatever order the
   driver's steps, the float movements and recordHandover's two halves come in. *)
THEOREM PocketIsExplained == Spec => []PocketExplained
<1>1. IInv => PocketExplained
  <2> SUFFICES ASSUME IInv PROVE PocketExplained
    OBVIOUS
  <2>1. PICK x, y, w, u : /\ x = SumFunction([o \in Settling |-> Larger(0, cash[o].outstanding)])
                          /\ y = SumFunction([o \in Settling |-> Larger(0, -cash[o].outstanding)])
                          /\ w = SumFunction([o \in Waiting |-> cash[o].paid])
                          /\ u = SumFunction([i \in DOMAIN batches |-> batches[i].unallocated])
    OBVIOUS
  <2>2. Unmatched = u
    BY <2>1 DEF Unmatched, UnmatchedOf, SumFunction
  <2>3. Contributed = x - y - w
    BY <2>1, ContributedIs
  <2>4. x \in Int /\ y \in Int /\ w \in Int
    <3>1. PICK S, W : S = Settling /\ W = Waiting
      OBVIOUS
    <3>2. IsFiniteSet(S) /\ IsFiniteSet(W)
      BY <3>1, OrderAssumption, FS_Subset DEF Settling, Waiting
    <3>3. \A o \in Order : cash[o].outstanding \in Int /\ cash[o].paid \in Int
      BY RecordOf DEF Record
    <3>4. PICK f, g, h : /\ f = [o \in S |-> Larger(0, cash[o].outstanding)]
                         /\ g = [o \in S |-> Larger(0, -cash[o].outstanding)]
                         /\ h = [o \in W |-> cash[o].paid]
      OBVIOUS
    <3>5. /\ \A o \in S : f[o] \in Int /\ g[o] \in Int
          /\ \A o \in W : h[o] \in Int
      BY <3>1, <3>3, <3>4 DEF Settling, Waiting, Larger
    <3>6. SumFunctionOnSet(f, S) \in Int /\ SumFunctionOnSet(g, S) \in Int
          /\ SumFunctionOnSet(h, W) \in Int
      BY <3>2, <3>5, SumIsInt
    <3>7. x = SumFunctionOnSet(f, S) /\ y = SumFunctionOnSet(g, S) /\ w = SumFunctionOnSet(h, W)
      BY <2>1, <3>1, <3>4 DEF SumFunction
    <3> QED
      BY <3>6, <3>7
  <2>5. PICK F \in Int, U \in Int : F = CurrentFloat /\ U = u
    BY <2>2, MoneyIsInt DEF IInv
  <2>6. pocket = F + (x - y - w) - U
    BY <2>2, <2>3, <2>5 DEF IInv, Balanced
  <2>7. pocket = F + x - y - w - U
    BY <2>4, <2>6
  <2>8. CashDriverShouldHold = F + x - y
    BY <2>1, <2>5 DEF CashDriverShouldHold
  <2>9. PICK C : C = CashDriverShouldHold
    OBVIOUS
  <2>10. pocket = C - w - U
    BY <2>4, <2>5, <2>7, <2>8, <2>9
  <2>11. pocket = CashDriverShouldHold - w - u
    BY <2>5, <2>9, <2>10
  <2> QED
    BY <2>1, <2>11, Zenon DEF PocketExplained
<1> QED
  BY <1>1, Invariance, PTL

(* A handover that commits only pays debts down. *)
LEMMA PaidDownIs ==
  ASSUME NEW r \in Record, NEW q, PaidDown(r, q)
  PROVE  /\ Size(q.outstanding) <= Size(r.outstanding)
         /\ q.outstanding * r.outstanding >= 0
         /\ r.status \in {"SHORT", "FAILED"} => q.status = r.status
<1>1. PICK x \in Int, y \in Int : x = r.outstanding /\ y = q.outstanding
  BY DEF PaidDown, Record
<1>2. (0 <= y /\ y <= x) \/ (x <= y /\ y <= 0)
  <2>1. \/ 0 <= q.outstanding /\ q.outstanding <= r.outstanding
        \/ r.outstanding <= q.outstanding /\ q.outstanding <= 0
    BY DEF PaidDown
  <2> QED
    BY <1>1, <2>1
<1>3. Size(y) <= Size(x)
  BY <1>2 DEF Size
<1>4. y * x >= 0
  <2>1. CASE 0 <= y /\ y <= x
    <3>1. x \in Nat /\ y \in Nat
      BY <2>1
    <3>2. \A i, j \in Nat : i * j >= 0
      OBVIOUS
    <3> QED
      BY <3>1, <3>2
  <2>2. CASE x <= y /\ y <= 0
    <3>1. PICK i \in Nat, j \in Nat : i = -x /\ j = -y
      BY <2>2
    <3>2. j * i >= 0
      OBVIOUS
    <3>3. y = -j /\ x = -i
      BY <3>1
    <3>4. (-j) * (-i) = j * i
      OBVIOUS
    <3> QED
      BY <3>2, <3>3, <3>4
  <2> QED
    BY <1>2, <2>1, <2>2
<1> QED
  BY <1>1, <1>3, <1>4 DEF PaidDown

LEMMA SizeSame ==
  ASSUME NEW x \in Int
  PROVE  Size(x) <= Size(x) /\ x * x >= 0
<1>1. Size(x) <= Size(x)
  BY DEF Size
<1>2. x * x >= 0
  <2>1. CASE x >= 0
    BY <2>1
  <2>2. CASE x < 0
    BY <2>2
  <2> QED
    BY <2>1, <2>2
<1> QED
  BY <1>1, <1>2

(* Only a handover that commits writes a batch. *)
LEMMA BatchesByCommit ==
  ASSUME IInv, [Next]_vars, batches' # batches
  PROVE  \E a \in Admin : CommitHandover(a)
<1>1. Next
  BY DEF vars
<1>2. ASSUME NEW o \in Order, DeliveryStep(o) PROVE FALSE
  BY <1>2 DEF DeliveryStep, OnMerchantPickup, OnDelivered, CancelledOnTheWay, OnFailed,
              ResolveFailedRecovery
<1>3. ASSUME NEW a \in Admin, AdminStep(a) PROVE CommitHandover(a)
  BY <1>3 DEF AdminStep, ReadHandover, RetryHandover, AbandonHandover, ReadFloat, InsertMovement
<1> QED
  BY <1>1, <1>2, <1>3 DEF Next

(* recordHandover pays open records down, never past zero and never the flag of
   a short or failed delivery, also when a record changed between its read and
   its commit: the version check of the transaction makes it run again. *)
THEOREM HandoversPayDown == Spec => HandoverPaysDown
<1>1. IInv /\ [Next]_vars =>
        [batches' # batches =>
          \A o \in Order :
            /\ Size(cash'[o].outstanding) <= Size(cash[o].outstanding)
            /\ cash'[o].outstanding * cash[o].outstanding >= 0
            /\ cash[o].status \in {"SHORT", "FAILED"} => cash'[o].status = cash[o].status]_vars
  <2> SUFFICES ASSUME IInv, [Next]_vars, batches' # batches, NEW o \in Order
               PROVE  /\ Size(cash'[o].outstanding) <= Size(cash[o].outstanding)
                      /\ cash'[o].outstanding * cash[o].outstanding >= 0
                      /\ cash[o].status \in {"SHORT", "FAILED"} => cash'[o].status = cash[o].status
    OBVIOUS
  <2>1. PICK a \in Admin : CommitHandover(a)
    BY BatchesByCommit
  <2>2. \E w, c : /\ cash' = [p \in Order |-> IF p \in w THEN c[p] ELSE cash[p]]
                  /\ c \in [Order -> Record]
                  /\ \A p \in w : PaidDown(cash[p], c[p])
    BY <2>1, CommitIs
  <2>3. PICK w, c : /\ cash' = [p \in Order |-> IF p \in w THEN c[p] ELSE cash[p]]
                    /\ c \in [Order -> Record]
                    /\ \A p \in w : PaidDown(cash[p], c[p])
    BY <2>2
  <2>4. cash[o] \in Record
    BY RecordOf
  <2>5. CASE o \in w
    <3>1. cash'[o] = c[o] /\ PaidDown(cash[o], c[o])
      BY <2>3, <2>5
    <3> QED
      BY <2>4, <3>1, PaidDownIs
  <2>6. CASE o \notin w
    <3>1. cash'[o] = cash[o] /\ cash[o].outstanding \in Int
      BY <2>3, <2>4, <2>6 DEF Record
    <3> QED
      BY <3>1, SizeSame
  <2> QED
    BY <2>5, <2>6
<1> QED
  BY <1>1, Invariance, PTL DEF Spec, HandoverPaysDown
================================================================================
