----------------------------- MODULE DriverDispatch -----------------------------
(***************************************************************************)
(* A delivery order's passage through the drivers' pool: drivers accept it,*)
(* drop it, collect it and deliver it, a delayed Bull job takes it back     *)
(* from a driver who went dark, and the order routes (a plain status write, *)
(* a cancellation, the expiry sweep) write the same document from outside. *)
(*                                                                         *)
(* A request is a handler's run. It stops at every await between two writes *)
(* of shared state, and any number of other steps may happen there. The    *)
(* delayed job's id is the order's id, so an order has at most one job.    *)
(***************************************************************************)
EXTENDS Naturals, FiniteSets

CONSTANTS Driver, DeliveryOrder, Request,
          NoDriver,
          MaxConcurrent,    \* DRIVER_MAX_CONCURRENT_ORDERS
          MaxReleases,      \* bound of the model on driverCancellationCount
          QueueMayFail      \* whether the queue may refuse a job

ASSUME DriverAssumption == NoDriver \notin Driver
ASSUME LimitAssumption == MaxConcurrent \in Nat \ {0} /\ MaxReleases \in Nat
ASSUME QueueAssumption == QueueMayFail \in BOOLEAN

VARIABLES orderStatus,    \* order.status
          driver,         \* order.driverId
          releases,       \* order.driverCancellationCount
          pickups,        \* DriverDeliveryCash records of the order: merchants paid
          online,         \* DriverProfile.isOnline
          job,            \* the order's job in driver-delivery-timeouts
          request         \* Request -> the handler it is running

dispatchVars == <<orderStatus, driver, releases, pickups, online, job, request>>

OrderStatus == {"CONFIRMED", "READY_FOR_PICKUP", "DRIVER_ASSIGNED", "OUT_FOR_DELIVERY",
                "DELIVERED", "CANCELLED", "EXPIRED"}

ActiveStatus == {"DRIVER_ASSIGNED", "OUT_FOR_DELIVERY"}   \* DRIVER_ACTIVE_STATUSES

NoHandler == [pc |-> "idle"]
NoJob == [state |-> "none", driver |-> NoDriver]

DispatchTypeOK ==
  /\ orderStatus \in [DeliveryOrder -> OrderStatus]
  /\ driver \in [DeliveryOrder -> Driver \cup {NoDriver}]
  /\ releases \in [DeliveryOrder -> 0..MaxReleases]
  /\ pickups \in [DeliveryOrder -> Nat]
  /\ online \in [Driver -> BOOLEAN]
  /\ job \in [DeliveryOrder -> [state : {"none", "delayed", "active", "handled", "failed"},
                        driver : Driver \cup {NoDriver}]]
  /\ request \in [Request -> {NoHandler}
       \cup [pc : {"claim", "schedule"}, driver : Driver, order : DeliveryOrder]
       \cup [pc : {"removeJob"}, order : DeliveryOrder]
       \cup [pc : {"write"}, order : DeliveryOrder, target : OrderStatus]]

\* createOrder puts a delivery order in the pool at once.
DispatchInit ==
  /\ orderStatus = [o \in DeliveryOrder |-> "CONFIRMED"]
  /\ driver = [o \in DeliveryOrder |-> NoDriver]
  /\ releases = [o \in DeliveryOrder |-> 0]
  /\ pickups = [o \in DeliveryOrder |-> 0]
  /\ online = [d \in Driver |-> TRUE]
  /\ job = [o \in DeliveryOrder |-> NoJob]
  /\ request = [r \in Request |-> NoHandler]

Becomes(r, pending) == request' = [request EXCEPT ![r] = pending]

--------------------------------------------------------------------------------
(* acceptOrder                                                              *)

SetOnlineStatus(d) ==
  /\ online' = [online EXCEPT ![d] = ~@]
  /\ UNCHANGED <<orderStatus, driver, releases, pickups, job, request>>

Carried(d) == {o \in DeliveryOrder : driver[o] = d /\ orderStatus[o] \in ActiveStatus}

HasReachedConcurrencyLimit(d) == Cardinality(Carried(d)) >= MaxConcurrent

\* The profile and the count are read; the order is not.
StartAccept(r, d, o) ==
  /\ request[r] = NoHandler
  /\ online[d]
  /\ ~HasReachedConcurrencyLimit(d)
  /\ Becomes(r, [pc |-> "claim", driver |-> d, order |-> o])
  /\ UNCHANGED <<orderStatus, driver, releases, pickups, online, job>>

\* Mutation: an order on its way is taken over from its driver.
ClaimAnyStatus(r) ==
  /\ request[r].pc = "claim"
  /\ LET d == request[r].driver
         o == request[r].order
     IN  IF orderStatus[o] \in {"CONFIRMED", "OUT_FOR_DELIVERY"}
         THEN /\ orderStatus' = [orderStatus EXCEPT ![o] = "DRIVER_ASSIGNED"]
              /\ driver' = [driver EXCEPT ![o] = d]
              /\ Becomes(r, [request[r] EXCEPT !.pc = "schedule"])
         ELSE /\ Becomes(r, NoHandler)
              /\ UNCHANGED <<orderStatus, driver>>
  /\ UNCHANGED <<releases, pickups, online, job>>

\* The findOneAndUpdate on { driverId: null, status: CONFIRMED }.
Claim(r) ==
  /\ request[r].pc = "claim"
  /\ LET d == request[r].driver
         o == request[r].order
     IN  IF orderStatus[o] = "CONFIRMED" /\ driver[o] = NoDriver
         THEN /\ orderStatus' = [orderStatus EXCEPT ![o] = "DRIVER_ASSIGNED"]
              /\ driver' = [driver EXCEPT ![o] = d]
              /\ Becomes(r, [request[r] EXCEPT !.pc = "schedule"])
         ELSE /\ Becomes(r, NoHandler)               \* DRIVER_ORDER_TAKEN
              /\ UNCHANGED <<orderStatus, driver>>
  /\ UNCHANGED <<releases, pickups, online, job>>

\* scheduleDeliveryTimeout. Bull ignores a job whose id it still holds, waiting
\* or active, and an error of the queue is logged and swallowed.
ScheduleTimeout(r) ==
  /\ request[r].pc = "schedule"
  /\ LET o == request[r].order IN
     \/ job' = [job EXCEPT ![o] =
                  IF @.state = "none" THEN [state |-> "delayed", driver |-> request[r].driver]
                  ELSE @]
     \/ QueueMayFail /\ UNCHANGED job
  /\ Becomes(r, NoHandler)
  /\ UNCHANGED <<orderStatus, driver, releases, pickups, online>>

--------------------------------------------------------------------------------
(* The driver's own transitions.                                            *)

\* onMerchantPickup, one transaction
MarkPickedUp(o, d) ==
  /\ orderStatus[o] = "DRIVER_ASSIGNED" /\ driver[o] = d
  /\ orderStatus' = [orderStatus EXCEPT ![o] = "OUT_FOR_DELIVERY"]
  /\ pickups' = [pickups EXCEPT ![o] = @ + 1]
  /\ UNCHANGED <<driver, releases, online, job, request>>

\* onDelivered or onFailed, one transaction each; the job is removed after it.
Finish(r, o, d, final) ==
  /\ request[r] = NoHandler
  /\ orderStatus[o] = "OUT_FOR_DELIVERY" /\ driver[o] = d
  /\ orderStatus' = [orderStatus EXCEPT ![o] = final]
  /\ Becomes(r, [pc |-> "removeJob", order |-> o])
  /\ UNCHANGED <<driver, releases, pickups, online, job>>

\* Mutation: a delivery ends in the status of a pickup.
MarkCompleted(r, o, d) == Finish(r, o, d, "COMPLETED")

MarkDelivered(r, o, d) == Finish(r, o, d, "DELIVERED")
FailDelivery(r, o, d) == Finish(r, o, d, "CANCELLED")

\* Mutations: the drop is allowed whoever the order is with now, or only from
\* a driver who is offline.
ReleasableByAnyone(o, d) == orderStatus[o] = "DRIVER_ASSIGNED"
ReleasableOffline(o, d) == driver[o] = d /\ orderStatus[o] = "DRIVER_ASSIGNED" /\ ~online[d]

\* The filter of releaseOrder.
Releasable(o, d) == driver[o] = d /\ orderStatus[o] = "DRIVER_ASSIGNED"

Release(o) ==
  /\ orderStatus' = [orderStatus EXCEPT ![o] = "CONFIRMED"]
  /\ driver' = [driver EXCEPT ![o] = NoDriver]
  /\ releases' = [releases EXCEPT ![o] = @ + 1]

UnassignOrder(r, o, d) ==
  /\ request[r] = NoHandler
  /\ releases[o] < MaxReleases
  /\ Releasable(o, d)
  /\ Release(o)
  /\ Becomes(r, [pc |-> "removeJob", order |-> o])
  /\ UNCHANGED <<pickups, online, job>>

\* cancelDeliveryTimeout: a job that a worker has locked cannot be removed, and
\* the error is swallowed.
RemoveJob(r) ==
  /\ request[r].pc = "removeJob"
  /\ LET o == request[r].order IN
     job' = [job EXCEPT ![o] = IF @.state = "delayed" THEN NoJob ELSE @]
  /\ Becomes(r, NoHandler)
  /\ UNCHANGED <<orderStatus, driver, releases, pickups, online>>

--------------------------------------------------------------------------------
(* DeliveryTimeoutProcessor: the worker locks the job, runs                 *)
(* autoUnassignOnTimeout, and Bull deletes the job when it is done.         *)

TimeoutFires(o) ==
  /\ job[o].state = "delayed"
  /\ job' = [job EXCEPT ![o].state = "active"]
  /\ UNCHANGED <<orderStatus, driver, releases, pickups, online, request>>

AutoUnassign(o) ==
  /\ job[o].state = "active"
  /\ job' = [job EXCEPT ![o].state = "handled"]
  /\ IF Releasable(o, job[o].driver)
     THEN releases[o] < MaxReleases /\ Release(o)
     ELSE UNCHANGED <<orderStatus, driver, releases>>
  /\ UNCHANGED <<pickups, online, request>>

\* The handler throws before it writes. The job has a single attempt.
TimeoutThrows(o) ==
  /\ job[o].state = "active"
  /\ job' = [job EXCEPT ![o].state = "failed"]
  /\ UNCHANGED <<orderStatus, driver, releases, pickups, online, request>>

\* removeOnComplete and removeOnFail
JobRemoved(o) ==
  /\ job[o].state \in {"handled", "failed"}
  /\ job' = [job EXCEPT ![o] = NoJob]
  /\ UNCHANGED <<orderStatus, driver, releases, pickups, online, request>>

--------------------------------------------------------------------------------
(* OrdersService writes the status by id alone, on a status it read before. *)

\* updateStatus (the plain targets a delivery order can be moved to), cancel,
\* and updateExpiredOrders.
MayWrite(o, target) ==
  CASE target = "CONFIRMED"        -> orderStatus[o] \in ActiveStatus
    [] target = "READY_FOR_PICKUP" -> orderStatus[o] = "CONFIRMED"
    [] target = "CANCELLED"        -> orderStatus[o] \notin {"DELIVERED", "CANCELLED", "EXPIRED"}
    [] target = "EXPIRED"          -> orderStatus[o] \notin {"DELIVERED", "CANCELLED", "EXPIRED"}
    [] OTHER                       -> FALSE

ReadForWrite(r, o, target) ==
  /\ request[r] = NoHandler
  /\ MayWrite(o, target)
  /\ Becomes(r, [pc |-> "write", order |-> o, target |-> target])
  /\ UNCHANGED <<orderStatus, driver, releases, pickups, online, job>>

WriteStatus(r) ==
  /\ request[r].pc = "write"
  /\ orderStatus' = [orderStatus EXCEPT ![request[r].order] = request[r].target]
  /\ Becomes(r, NoHandler)
  /\ UNCHANGED <<driver, releases, pickups, online, job>>

--------------------------------------------------------------------------------
Handler(r) == Claim(r) \/ ScheduleTimeout(r) \/ RemoveJob(r) \/ WriteStatus(r)

Worker(o) == TimeoutFires(o) \/ AutoUnassign(o) \/ TimeoutThrows(o) \/ JobRemoved(o)

DispatchNext ==
  \/ \E d \in Driver : SetOnlineStatus(d)
  \/ \E r \in Request, d \in Driver, o \in DeliveryOrder :
       \/ StartAccept(r, d, o) \/ UnassignOrder(r, o, d)
       \/ MarkDelivered(r, o, d) \/ FailDelivery(r, o, d)
  \/ \E d \in Driver, o \in DeliveryOrder : MarkPickedUp(o, d)
  \/ \E r \in Request, o \in DeliveryOrder, target \in OrderStatus : ReadForWrite(r, o, target)
  \/ \E r \in Request : Handler(r)
  \/ \E o \in DeliveryOrder : Worker(o)

\* A handler that has started runs to its end, and the queue's worker takes
\* every job whose delay has passed; its handler may always throw. Drivers and
\* admins owe nothing.
Fairness ==
  /\ \A r \in Request : WF_dispatchVars(Handler(r))
  /\ \A o \in DeliveryOrder : WF_dispatchVars(Worker(o))

DispatchSpec == DispatchInit /\ [][DispatchNext]_dispatchVars /\ Fairness

--------------------------------------------------------------------------------
(* Properties.                                                              *)

\* Once a driver has collected the food and paid the merchant from the float,
\* the order never goes to another driver: neither a drop, nor the timeout,
\* nor a status write from outside opens a way back to the pool.
CollectedStaysWithDriver ==
  [][\A o \in DeliveryOrder : pickups[o] > 0 => driver'[o] = driver[o]]_dispatchVars

\* The job of a driver who has since dropped the order, finding it in the
\* hands of somebody else, does not take it from them.
TimeoutSparesNextDriver ==
  [][\A o \in DeliveryOrder :
       job[o].state = "active" /\ job'[o].state = "handled" /\ driver[o] # job[o].driver
         => driver'[o] = driver[o]]_dispatchVars

\* A driver who accepted an order nobody had dropped before, and went dark, is
\* relieved of it, unless the handler of the job that was scheduled throws: the
\* job is lost or ignored in no other way.
FirstDriverIsRelieved ==
  \A o \in DeliveryOrder :
    (orderStatus[o] = "DRIVER_ASSIGNED" /\ releases[o] = 0 /\ job[o].state = "delayed")
      ~> (orderStatus[o] # "DRIVER_ASSIGNED" \/ job[o].state = "failed")
================================================================================
