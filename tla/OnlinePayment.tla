----------------------------- MODULE OnlinePayment -----------------------------
(***************************************************************************)
(* The payment of an order through Konnect: checkout sessions and retries, *)
(* the webhook, the expiry and reconciliation jobs, and the cancellations  *)
(* and refunds that write the same order.                                  *)
(*                                                                         *)
(* A process runs one handler at a time and stops at every await between   *)
(* two accesses to shared state, where any number of steps of the others   *)
(* may happen and where it may die. What one MongoDB transaction writes is *)
(* one step. The two jobs run under a cron lock, so each is one process.   *)
(***************************************************************************)
EXTENDS Integers, FiniteSets

CONSTANTS Order, Ref,                     \* Ref: references Konnect may issue
          Request, Expiry, Reconciliation, \* API calls, and the two jobs
          NoRef,
          Mode,                           \* the delivery modes of the orders
          MaxCrashes                      \* bound of the model

ASSUME ProcessAssumption == Expiry # Reconciliation /\ {Expiry, Reconciliation} \cap Request = {}
ASSUME RefAssumption == NoRef \notin Ref \cup Order
ASSUME ModeAssumption == Mode \subseteq {"pickup", "delivery"}
ASSUME BoundAssumption == MaxCrashes \in Nat

VARIABLES mode,      \* Order -> order.deliveryMode
          order,     \* Order -> status, paymentStatus, paymentSession.reference
          attempt,   \* Ref -> its PaymentAttempt
          provider,  \* Ref -> the payment at Konnect
          refund,    \* Order -> its RefundRequest
          sales,     \* orders with a SALE row in wallet_transactions
          refunds,   \* orders with a REFUND row
          pending,   \* MerchantWallet.pendingBalance, in sales
          available, \* its availableBalance, in sales (less commission in the code)
          held,      \* orders with a Payment document that is HELD
          process,   \* Process -> the handler it is running
          crashes

wallet == <<sales, refunds, pending, available, held>>
data == <<mode, order, attempt, provider, refund, wallet>>
vars == <<data, process, crashes>>

Process == Request \cup {Expiry, Reconciliation}

\* LIVE stands for RESERVED, CONFIRMED, READY_FOR_PICKUP and the driver's two
\* statuses; COMPLETED for PICKED_UP, COMPLETED and DELIVERED.
Status == {"PENDING_PAYMENT", "LIVE", "COMPLETED", "CANCELLED", "EXPIRED", "REFUNDED"}
Pay == {"PENDING", "PAID", "FAILED", "REFUND_PENDING", "REFUNDED"}
AttemptStatus == {"none", "pending", "processing", "paid", "expired", "anomalous"}

NoAttempt == [order |-> NoRef, status |-> "none", active |-> FALSE]
Idle == [pc |-> "idle"]

\* The handlers, by what they do next.
OnAttempt ==
  [pc : {"read", "verify", "mark", "refund", "claim", "settle", "revert", "reset"}, ref : Ref]
OnRetry ==
  [pc : {"retry", "open"}, order : Order]
    \cup [pc : {"supersede"}, order : Order, ref : Ref]
    \cup [pc : {"record"}, order : Order, ref : Ref, left : SUBSET {"attempt", "session"}]
OnOrder ==
  [pc : {"check"}, order : Order, session : Ref \cup {NoRef}]
    \cup [pc : {"expire", "cancelPending", "cancelPaid", "issueRefund"}, order : Order]
    \cup [pc : {"write"}, order : Order, target : Status]
    \cup [pc : {"adminCancel", "admin"}, order : Order, memory : Pay, stale : BOOLEAN]

TypeOK ==
  /\ mode \in [Order -> Mode]
  /\ order \in [Order -> [status : Status, pay : Pay, session : Ref \cup {NoRef}]]
  /\ attempt \in [Ref -> [order : Order \cup {NoRef}, status : AttemptStatus, active : BOOLEAN]]
  /\ provider \in [Ref -> {"none", "open", "completed", "wrongAmount", "failed"}]
  /\ refund \in [Order -> {"none", "anomalous", "cancel"}]
  /\ sales \subseteq Order /\ refunds \subseteq Order
  /\ pending \in Int /\ available \in Nat
  /\ held \subseteq Order
  /\ process \in [Process -> {Idle} \cup OnAttempt \cup OnRetry \cup OnOrder]
  /\ crashes \in 0..MaxCrashes

\* The order has been created; the checkout that follows in the controller is
\* initOrderPayment, the retry of an order without an attempt. Nothing in the
\* backend creates Payment documents: an order may have one, or none.
Init ==
  /\ mode \in [Order -> Mode]
  /\ order = [o \in Order |-> [status |-> "PENDING_PAYMENT", pay |-> "PENDING", session |-> NoRef]]
  /\ attempt = [r \in Ref |-> NoAttempt]
  /\ provider = [r \in Ref |-> "none"]
  /\ refund = [o \in Order |-> "none"]
  /\ sales = {} /\ refunds = {}
  /\ pending = 0 /\ available = 0
  /\ held \in SUBSET Order
  /\ process = [p \in Process |-> Idle]
  /\ crashes = 0

--------------------------------------------------------------------------------
(* How a process moves on.                                                  *)

Goes(p, next) == process' = [process EXCEPT ![p] = next]

\* The same, when the step writes the order o, and the wallet or not: an open
\* transaction of an administrator that will write one of them is now stale.
Touched(q, o, walletToo) ==
  /\ process[q].pc = "admin"
  /\ \/ process[q].order = o
     \/ walletToo /\ process[q].memory = "PAID" /\ mode[process[q].order] = "pickup"

AfterWrite(o, walletToo) ==
  [q \in Process |-> IF Touched(q, o, walletToo) THEN [process[q] EXCEPT !.stale = TRUE]
                     ELSE process[q]]

GoesWriting(p, next, o, walletToo) == process' = [AfterWrite(o, walletToo) EXCEPT ![p] = next]

Starts(p, first) ==
  /\ process[p] = Idle
  /\ Goes(p, first)
  /\ UNCHANGED <<data, crashes>>

\* Mutation: a status the schema does not have.
AttemptsCancelled(o) ==
  [r \in Ref |-> IF attempt[r].order = o /\ attempt[r].active
                 THEN [attempt[r] EXCEPT !.status = "cancelled", !.active = FALSE]
                 ELSE attempt[r]]

\* updateMany({ orderId, active: true }, { status: 'expired', active: false })
AttemptsExpired(o) ==
  [r \in Ref |-> IF attempt[r].order = o /\ attempt[r].active
                 THEN [attempt[r] EXCEPT !.status = "expired", !.active = FALSE]
                 ELSE attempt[r]]

--------------------------------------------------------------------------------
(* Konnect and the customer: a session stays open until it is paid or fails. *)

Captured(r) == provider[r] \in {"completed", "wrongAmount"}

CustomerPays(r) ==
  /\ provider[r] = "open"
  /\ \E outcome \in {"completed", "wrongAmount", "failed"} :
       provider' = [provider EXCEPT ![r] = outcome]
  /\ UNCHANGED <<mode, order, attempt, refund, wallet, process, crashes>>

--------------------------------------------------------------------------------
(* createRetrySession, and initOrderPayment                                 *)

StartRetry(p, o) ==
  /\ order[o].status = "PENDING_PAYMENT"
  /\ Starts(p, [pc |-> "retry", order |-> o])

\* The active attempt, and its payment at Konnect: a captured one is settled
\* instead, an open one is resumed; a failed or lapsed one, and one Konnect
\* could not be asked about, is superseded.
FindActiveAttempt(p) ==
  /\ process[p].pc = "retry"
  /\ LET o == process[p].order
         active == {r \in Ref : attempt[r].order = o /\ attempt[r].active}
     IN  \/ active = {} /\ Goes(p, [pc |-> "open", order |-> o])
         \/ \E r \in active :
              \/ Captured(r) /\ Goes(p, [pc |-> "read", ref |-> r])
              \/ provider[r] = "open" /\ order[o].session # NoRef /\ Goes(p, Idle)
              \/ Goes(p, [pc |-> "supersede", order |-> o, ref |-> r])
  /\ UNCHANGED <<data, crashes>>

Supersede(p) ==
  /\ process[p].pc = "supersede"
  /\ attempt' = [attempt EXCEPT ![process[p].ref].status = "expired",
                                ![process[p].ref].active = FALSE]
  /\ Goes(p, [pc |-> "open", order |-> process[p].order])
  /\ UNCHANGED <<mode, order, provider, refund, wallet, crashes>>

\* initPayment at Konnect, beside the $inc of paymentAttemptSequence. Konnect
\* may refuse.
OpenSession(p) ==
  /\ process[p].pc = "open"
  /\ LET o == process[p].order IN
     \/ \E r \in Ref :
          /\ provider[r] = "none"
          /\ provider' = [provider EXCEPT ![r] = "open"]
          /\ GoesWriting(p, [pc |-> "record", order |-> o, ref |-> r,
                             left |-> {"attempt", "session"}], o, FALSE)
     \/ GoesWriting(p, Idle, o, FALSE) /\ UNCHANGED provider
  /\ UNCHANGED <<mode, order, attempt, refund, wallet, crashes>>

Recorded(p, write) ==
  IF process[p].left = {write} THEN Idle ELSE [process[p] EXCEPT !.left = @ \ {write}]

\* The two writes run side by side, and the second is not called off when the
\* unique (orderId, active) index refuses the attempt.
RecordAttempt(p) ==
  /\ process[p].pc = "record" /\ "attempt" \in process[p].left
  /\ LET o == process[p].order
         r == process[p].ref
     IN  attempt' = IF \E s \in Ref : attempt[s].order = o /\ attempt[s].active
                    THEN attempt
                    ELSE [attempt EXCEPT ![r] = [order |-> o, status |-> "pending", active |-> TRUE]]
  /\ Goes(p, Recorded(p, "attempt"))
  /\ UNCHANGED <<mode, order, provider, refund, wallet, crashes>>

RecordSession(p) ==
  /\ process[p].pc = "record" /\ "session" \in process[p].left
  /\ order' = [order EXCEPT ![process[p].order].session = process[p].ref]
  /\ GoesWriting(p, Recorded(p, "session"), process[p].order, FALSE)
  /\ UNCHANGED <<mode, attempt, provider, refund, wallet, crashes>>

--------------------------------------------------------------------------------
(* handleOrderWebhook                                                       *)

StartWebhook(p, r) ==
  /\ provider[r] # "none"
  /\ Starts(p, [pc |-> "read", ref |-> r])

ReadAttempt(p) ==
  /\ process[p].pc = "read"
  /\ LET r == process[p].ref IN
     Goes(p, IF attempt[r].status \in {"none", "paid", "processing", "anomalous"} THEN Idle
             ELSE [pc |-> "verify", ref |-> r])
  /\ UNCHANGED <<data, crashes>>

\* Mutation: the amount Konnect captured is not compared.
DecisionIgnoringAmount(r) ==
  LET doc == order[attempt[r].order] IN
  IF ~Captured(r) THEN "idle"
  ELSE IF doc.pay = "PAID" THEN IF doc.session = r THEN "idle" ELSE "mark"
  ELSE IF doc.status \in {"CANCELLED", "EXPIRED"} THEN "mark"
  ELSE "claim"

\* What getPaymentDetails says, then what the order read after it says.
Decision(r) ==
  LET doc == order[attempt[r].order] IN
  IF ~Captured(r) THEN "idle"
  ELSE IF provider[r] = "wrongAmount" THEN "mark"
  ELSE IF doc.pay = "PAID" THEN IF doc.session = r THEN "idle" ELSE "mark"
  ELSE IF doc.status \in {"CANCELLED", "EXPIRED"} THEN "mark"
  ELSE "claim"

VerifyAndReadOrder(p) ==
  /\ process[p].pc = "verify"
  /\ LET r == process[p].ref IN
     Goes(p, IF Decision(r) = "idle" THEN Idle ELSE [pc |-> Decision(r), ref |-> r])
  /\ UNCHANGED <<data, crashes>>

MarkAnomalous(p) ==
  /\ process[p].pc = "mark"
  /\ attempt' = [attempt EXCEPT ![process[p].ref].status = "anomalous",
                                ![process[p].ref].active = FALSE]
  /\ Goes(p, [process[p] EXCEPT !.pc = "refund"])
  /\ UNCHANGED <<mode, order, provider, refund, wallet, crashes>>

\* The upsert with $setOnInsert: the order's first request stays as it is.
RequestRefund(p) ==
  /\ process[p].pc = "refund"
  /\ LET o == attempt[process[p].ref].order IN
     refund' = [refund EXCEPT ![o] = IF @ = "none" THEN "anomalous" ELSE @]
  /\ Goes(p, Idle)
  /\ UNCHANGED <<mode, order, attempt, provider, wallet, crashes>>

ClaimAttempt(p) ==
  /\ process[p].pc = "claim"
  /\ LET r == process[p].ref IN
     IF attempt[r].status = "pending"
     THEN /\ attempt' = [attempt EXCEPT ![r].status = "processing"]
          /\ Goes(p, [pc |-> "settle", ref |-> r])
     ELSE Goes(p, Idle) /\ UNCHANGED attempt
  /\ UNCHANGED <<mode, order, provider, refund, wallet, crashes>>

\* Mutation: the SALE reference is not unique.
NeverBooked(o) == FALSE

\* The unique reference SALE-orderNumber; a delivery has no SALE row.
SaleBooked(o) == mode[o] = "pickup" /\ o \in sales

\* The settling transaction. It tests nothing it writes.
Settle(p) ==
  /\ process[p].pc = "settle"
  /\ LET r == process[p].ref
         o == attempt[r].order
     IN  IF SaleBooked(o)
         THEN /\ Goes(p, [pc |-> "revert", ref |-> r])
              /\ UNCHANGED <<order, attempt, sales, pending>>
         ELSE /\ attempt' = [attempt EXCEPT ![r].status = "paid", ![r].active = FALSE]
              /\ order' = [order EXCEPT ![o].pay = "PAID", ![o].status = "LIVE"]
              /\ sales' = IF mode[o] = "pickup" THEN sales \cup {o} ELSE sales
              /\ pending' = IF mode[o] = "pickup" THEN pending + 1 ELSE pending
              /\ GoesWriting(p, Idle, o, mode[o] = "pickup")
  /\ UNCHANGED <<mode, provider, refund, refunds, available, held, crashes>>

RevertClaim(p) ==
  /\ process[p].pc = "revert"
  /\ attempt' = [attempt EXCEPT ![process[p].ref].status = "pending"]
  /\ Goes(p, Idle)
  /\ UNCHANGED <<mode, order, provider, refund, wallet, crashes>>

--------------------------------------------------------------------------------
(* The reconciliation job.                                                  *)

\* Mutation: only the attempts nobody claimed are looked at.
StalePendingAttempt(r) == attempt[r].status = "pending"

StaleAttempt(r) == attempt[r].status \in {"pending", "processing"}

ReconcileAttempt(r) ==
  /\ StaleAttempt(r)
  /\ Starts(Reconciliation,
            [pc |-> IF attempt[r].status = "processing" THEN "reset" ELSE "read", ref |-> r])

ResetClaim(p) ==
  /\ process[p].pc = "reset"
  /\ attempt' = [attempt EXCEPT ![process[p].ref].status = "pending"]
  /\ Goes(p, [process[p] EXCEPT !.pc = "read"])
  /\ UNCHANGED <<mode, order, provider, refund, wallet, crashes>>

ReconcileOrder(o) ==
  /\ order[o].status = "PENDING_PAYMENT" /\ order[o].pay # "PAID" /\ order[o].session # NoRef
  /\ Starts(Reconciliation, [pc |-> "read", ref |-> order[o].session])

--------------------------------------------------------------------------------
(* The expiry job, on an order whose paymentExpiresAt has passed.           *)

FindExpired(o) ==
  /\ order[o].status = "PENDING_PAYMENT" /\ order[o].pay # "PAID"
  /\ Starts(Expiry, [pc |-> "check", order |-> o, session |-> order[o].session])

\* processOrderExpiry, on the session the list was read with. Konnect may be
\* unreachable.
CheckSession(p) ==
  /\ process[p].pc = "check"
  /\ LET o == process[p].order
         r == process[p].session
     IN  \/ /\ r = NoRef \/ (r # NoRef /\ ~Captured(r))
            /\ Goes(p, [pc |-> "expire", order |-> o])
         \/ r # NoRef /\ Captured(r) /\ Goes(p, [pc |-> "read", ref |-> r])
         \/ r # NoRef /\ Goes(p, Idle)
  /\ UNCHANGED <<data, crashes>>

ExpireOrder(p) ==
  /\ process[p].pc = "expire"
  /\ LET o == process[p].order IN
     /\ order' = [order EXCEPT ![o].status = "EXPIRED", ![o].pay = "FAILED"]
     /\ attempt' = AttemptsExpired(o)
     /\ GoesWriting(p, Idle, o, FALSE)
  /\ UNCHANGED <<mode, provider, refund, wallet, crashes>>

--------------------------------------------------------------------------------
(* Cancellations and refunds. (The stock they release is OfferStock's.)     *)

Terminal == {"COMPLETED", "CANCELLED", "EXPIRED"}

\* cancel(), by what the order it read was.
StartCancel(p, o) ==
  /\ order[o].status \notin Terminal
  /\ Starts(p, IF order[o].status = "PENDING_PAYMENT" THEN [pc |-> "cancelPending", order |-> o]
               ELSE IF order[o].pay = "PAID" THEN [pc |-> "cancelPaid", order |-> o]
               ELSE [pc |-> "write", order |-> o, target |-> "CANCELLED"])

CancelPending(p) ==
  /\ process[p].pc = "cancelPending"
  /\ LET o == process[p].order IN
     /\ order' = [order EXCEPT ![o].status = "CANCELLED"]
     /\ attempt' = AttemptsExpired(o)
     /\ GoesWriting(p, Idle, o, FALSE)
  /\ UNCHANGED <<mode, provider, refund, wallet, crashes>>

\* Mutation: the sale stays in the wallet of the merchant.
RefundKeepingSale(o) == refund' = [refund EXCEPT ![o] = "cancel"] /\ UNCHANGED wallet

\* processRefundRequest: the merchant's pending gives back what the SALE row
\* put in, and the customer's request is created.
ProcessRefundRequest(o) ==
  /\ refund' = [refund EXCEPT ![o] = "cancel"]
  /\ IF o \in sales
     THEN refunds' = refunds \cup {o} /\ pending' = pending - 1
     ELSE UNCHANGED <<refunds, pending>>
  /\ UNCHANGED <<sales, available, held>>

\* The transaction of a refund that leaves the order in status final; the
\* unique request of the order makes a second one abort.
Refunds(p, o, final) ==
  IF refund[o] # "none"
  THEN Goes(p, Idle) /\ UNCHANGED <<order, refund, wallet>>
  ELSE /\ order' = [order EXCEPT ![o].status = final, ![o].pay = "REFUND_PENDING"]
       /\ ProcessRefundRequest(o)
       /\ GoesWriting(p, Idle, o, o \in sales)

CancelPaid(p) ==
  /\ process[p].pc = "cancelPaid"
  /\ Refunds(p, process[p].order, "CANCELLED")
  /\ UNCHANGED <<mode, attempt, provider, crashes>>

StartIssueRefund(p, o) ==
  /\ order[o].pay = "PAID" /\ refund[o] = "none"
  /\ Starts(p, [pc |-> "issueRefund", order |-> o])

IssueRefund(p) ==
  /\ process[p].pc = "issueRefund"
  /\ Refunds(p, process[p].order, "REFUNDED")
  /\ UNCHANGED <<mode, attempt, provider, crashes>>

\* adminCancelOrder keeps the document it read in memory, changes it inside
\* the transaction, and saves what it changed.
StartAdminCancel(p, o) ==
  /\ order[o].status \notin Terminal \cup {"REFUNDED"}
  /\ Starts(p, [pc |-> "adminCancel", order |-> o, memory |-> order[o].pay, stale |-> FALSE])

\* The first access of the transaction fixes its snapshot.
BeginAdminCancel(p) ==
  /\ process[p].pc = "adminCancel"
  /\ Goes(p, [process[p] EXCEPT !.pc = "admin"])
  /\ UNCHANGED <<data, crashes>>

AdminCancel(p) ==
  /\ process[p].pc = "admin" /\ ~process[p].stale
  /\ LET o == process[p].order IN
     IF process[p].memory = "PAID"
     THEN Refunds(p, o, "CANCELLED")
     ELSE /\ order' = [order EXCEPT ![o].status = "CANCELLED",
                                    ![o].pay = IF process[p].memory = "REFUND_PENDING"
                                               THEN "REFUND_PENDING" ELSE @]
          /\ GoesWriting(p, Idle, o, FALSE)
          /\ UNCHANGED <<refund, wallet>>
  /\ UNCHANGED <<mode, attempt, provider, crashes>>

\* A write conflict: withTransaction runs the callback again, on the document
\* in memory, whose paymentStatus the first run has changed.
AdminCancelAgain(p) ==
  /\ process[p].pc = "admin" /\ process[p].stale
  /\ Goes(p, [process[p] EXCEPT !.stale = FALSE,
                                !.memory = IF @ = "PAID" THEN "REFUND_PENDING" ELSE @])
  /\ UNCHANGED <<data, crashes>>

--------------------------------------------------------------------------------
(* The other writers of order.status.                                       *)

\* updateStatus to CONFIRMED or READY_FOR_PICKUP, and updateExpiredOrders, each
\* a write by id after a read.
MayWrite(o, target) ==
  CASE target = "LIVE"    -> order[o].status \in {"PENDING_PAYMENT", "LIVE"}
    [] target = "EXPIRED" -> order[o].status \notin Terminal \cup {"REFUNDED"}
    [] OTHER              -> FALSE

StartWrite(p, o, target) ==
  /\ MayWrite(o, target)
  /\ Starts(p, [pc |-> "write", order |-> o, target |-> target])

WriteStatus(p) ==
  /\ process[p].pc = "write"
  /\ order' = [order EXCEPT ![process[p].order].status = process[p].target]
  /\ GoesWriting(p, Idle, process[p].order, FALSE)
  /\ UNCHANGED <<mode, attempt, provider, refund, wallet, crashes>>

\* The customer cancels a RESERVED order that is not paid: processFullRefund
\* refunds its HELD Payment. (WriteStatus is the cancellation without one, and
\* the one of the merchant.)
CancelReserved(p) ==
  /\ process[p].pc = "write" /\ process[p].target = "CANCELLED"
  /\ LET o == process[p].order IN
     /\ o \in held
     /\ held' = held \ {o}
     /\ order' = [order EXCEPT ![o].status = "CANCELLED", ![o].pay = "REFUNDED"]
     /\ GoesWriting(p, Idle, o, FALSE)
  /\ UNCHANGED <<mode, attempt, provider, refund, sales, refunds, pending, available, crashes>>

\* Mutation: the status of the Payment is not looked at.
MovesAtEachPickup(o) == mode[o] = "pickup" /\ o \in sales

\* A pickup makes a sale available when the Payment is HELD; it moves what the
\* SALE row put in, whatever a refund has taken out since.
MovesSale(o) == mode[o] = "pickup" /\ o \in sales \cap held

ProcessPickupConfirmation(o) ==
  IF MovesSale(o) THEN pending' = pending - 1 /\ available' = available + 1
  ELSE UNCHANGED <<pending, available>>

\* confirmPickup, onDelivered and onFailed claim the order in the transaction
\* itself, and the first two make the Payment EARNED. A failed delivery is
\* cancelled, and refunds nothing.
Complete(o) ==
  /\ order[o].status = "LIVE"
  /\ \/ /\ order' = [order EXCEPT ![o].status = "COMPLETED"]
        /\ held' = held \ {o}
        /\ ProcessPickupConfirmation(o)
        /\ process' = AfterWrite(o, MovesSale(o))
     \/ /\ mode[o] = "delivery"
        /\ order' = [order EXCEPT ![o].status = "CANCELLED"]
        /\ process' = AfterWrite(o, FALSE)
        /\ UNCHANGED <<held, pending, available>>
  /\ UNCHANGED <<mode, attempt, provider, refund, sales, refunds, crashes>>

\* The replica running the handler dies. (A call to Konnect that fails ends
\* the webhook in the same way.)
Crash(p) ==
  /\ process[p] # Idle
  /\ crashes < MaxCrashes
  /\ crashes' = crashes + 1
  /\ Goes(p, Idle)
  /\ UNCHANGED data

--------------------------------------------------------------------------------
Continue(p) ==
  \/ FindActiveAttempt(p) \/ Supersede(p) \/ OpenSession(p)
  \/ RecordAttempt(p) \/ RecordSession(p)
  \/ ReadAttempt(p) \/ VerifyAndReadOrder(p) \/ MarkAnomalous(p) \/ RequestRefund(p)
  \/ ClaimAttempt(p) \/ Settle(p) \/ RevertClaim(p) \/ ResetClaim(p)
  \/ CheckSession(p) \/ ExpireOrder(p)
  \/ CancelPending(p) \/ CancelPaid(p) \/ IssueRefund(p)
  \/ BeginAdminCancel(p) \/ AdminCancel(p) \/ AdminCancelAgain(p)
  \/ WriteStatus(p) \/ CancelReserved(p)

Start(p, o) ==
  \/ StartRetry(p, o) \/ StartCancel(p, o) \/ StartIssueRefund(p, o) \/ StartAdminCancel(p, o)
  \/ \E target \in Status : StartWrite(p, o, target)

Next ==
  \/ \E r \in Ref : CustomerPays(r) \/ ReconcileAttempt(r)
  \/ \E p \in Request, r \in Ref : StartWebhook(p, r)
  \/ \E o \in Order : FindExpired(o) \/ ReconcileOrder(o) \/ Complete(o)
  \/ \E p \in Request, o \in Order : Start(p, o)
  \/ \E p \in Process : Continue(p) \/ Crash(p)

\* A handler that has started runs on, and the reconciliation job comes round
\* to every attempt it lists, again and again. Webhooks may all be lost.
Fairness ==
  /\ \A p \in Process : WF_vars(Continue(p))
  /\ \A r \in Ref : SF_vars(ReconcileAttempt(r))

Spec == Init /\ [][Next]_vars /\ Fairness

--------------------------------------------------------------------------------
(* Properties.                                                              *)

Attempts(o) == {r \in Ref : attempt[r].order = o}

\* No sale is credited, no attempt paid and no refund requested without money:
\* whichever handlers interleave, somebody captured a payment for the order,
\* and a sale needs one of the right amount.
MoneyCameIn ==
  \A o \in Order :
    /\ (o \in sales \/ order[o].pay = "PAID" \/ \E r \in Attempts(o) : attempt[r].status = "paid")
         => \E r \in Attempts(o) : provider[r] = "completed"
    /\ refund[o] # "none" => \E r \in Attempts(o) : Captured(r)

\* The two balances of the merchant hold together what the SALE rows credited
\* less what the REFUND rows took back, and no pickup makes a sale available
\* twice, although reconciliation hands a claim that is being settled to a
\* second settler, a refund may come between the two, and a late write may
\* revive an order that was picked up. (Which balance a refund takes from is
\* another matter: it is always the pending one, also after the pickup, and
\* pending may fall below zero.)
WalletIsRows ==
  /\ refunds \subseteq sales
  /\ pending + available = Cardinality(sales) - Cardinality(refunds)
  /\ available <= Cardinality(sales \ held)

\* A pickup order is paid by one attempt at most, however many sessions were
\* paid at Konnect.
PaidByOne ==
  \A o \in Order : mode[o] = "pickup" =>
    Cardinality({r \in Attempts(o) : attempt[r].status = "paid"}) <= 1

\* The refund of a pickup order is booked: its sale has a REFUND row, and no
\* late settlement, cancellation or status write makes the order paid again.
\* (A sale that was picked up before stays available all the same: see
\* WalletIsRows.)
RefundIsBooked ==
  \A o \in Order : mode[o] = "pickup" =>
    /\ refund[o] = "cancel" => o \in refunds
    /\ o \in refunds => order[o].pay # "PAID"

Unsettled(r) == provider[r] = "completed" /\ attempt[r].status \in {"pending", "processing"}

\* A captured payment whose attempt is open does not stay unnoticed: whatever
\* webhook is lost and whichever replica dies, the attempt is settled, set
\* aside or superseded, or the order is paid or written off.
ReconciliationRescues ==
  \A r \in Ref :
    (Unsettled(r) /\ order[attempt[r].order].pay = "PENDING")
      ~> (~Unsettled(r) \/ order[attempt[r].order].pay # "PENDING")

\* Claim of payment-expiry.task.ts: "Expires unpaid orders and releases their
\* reserved stock."
ExpiredIsUnpaid ==
  \A o \in Order : order[o].pay = "FAILED" => \A r \in Attempts(o) : attempt[r].status # "paid"
================================================================================
