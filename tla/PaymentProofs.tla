---------------------------- MODULE PaymentProofs ----------------------------
(***************************************************************************)
(* What holds of the payment of orders for any number of orders, payment   *)
(* references and API calls: the money behind every sale and refund, the   *)
(* merchant's balances, and the refund that is booked once and for all.    *)
(***************************************************************************)
EXTENDS OnlinePayment, FiniteSetTheorems, TLAPS

Handling == {Idle} \cup OnAttempt \cup OnRetry \cup OnOrder
OrderType == [Order -> [status : Status, pay : Pay, session : Ref \cup {NoRef}]]
AttemptType ==
  [Ref -> [order : Order \cup {NoRef}, status : AttemptStatus, active : BOOLEAN]]

(* An attempt that was recorded has a session at Konnect. *)
AttemptsFit ==
  \A r \in Ref :
    /\ attempt[r].order = NoRef => attempt[r].status = "none"
    /\ attempt[r].order # NoRef => provider[r] # "none"

(* Somebody paid for order o, and a pickup has its SALE row. *)
Completed(o) == \E r \in Attempts(o) : provider[r] = "completed"
SaleMade(o) == Completed(o) /\ (mode[o] = "pickup" => o \in sales)

(* A handler past its first reading works on an attempt that was recorded; one
   that sets it aside found money captured, one that settles it the right
   amount; one that gives money back found the order paid. *)
Fits(h) ==
  /\ h.pc \in {"verify", "mark", "refund", "claim", "settle", "revert", "reset", "supersede"}
       => attempt[h.ref].order # NoRef
  /\ h.pc \in {"claim", "settle", "revert"} => provider[h.ref] = "completed"
  /\ h.pc \in {"mark", "refund"} => Captured(h.ref)
  /\ h.pc \in {"cancelPaid", "issueRefund"} => SaleMade(h.order)
  /\ h.pc \in {"adminCancel", "admin"} /\ h.memory = "PAID" => SaleMade(h.order)

HandlersFit == \A p \in Process : Fits(process[p])

(* The reference a checkout records is its own, and new as long as its attempt
   is to be inserted. *)
RecordsFit ==
  /\ \A p \in Process : process[p].pc = "record" =>
       /\ provider[process[p].ref] # "none"
       /\ "attempt" \in process[p].left => attempt[process[p].ref].order = NoRef
  /\ \A p, q \in Process :
       process[p].pc = "record" /\ process[q].pc = "record" /\ process[p].ref = process[q].ref
         => p = q

(* A pickup order that is paid, or has an attempt that is, has its SALE row;
   the settlement that wrote the row marked the only attempt that is paid. *)
SalesFit ==
  \A o \in Order : mode[o] = "pickup" =>
    /\ order[o].pay = "PAID" => o \in sales
    /\ \A r \in Attempts(o) : attempt[r].status = "paid" =>
         /\ o \in sales
         /\ \A s \in Attempts(o) : attempt[s].status = "paid" => s = r

(* A REFUND row belongs to the order's request, and is the last of the sale. *)
RefundsFit ==
  \A o \in Order :
    /\ o \in refunds => refund[o] = "cancel"
    /\ mode[o] = "pickup" /\ refund[o] = "cancel" => o \in refunds
    /\ mode[o] = "pickup" /\ o \in refunds => order[o].pay # "PAID"

BalanceFits == IsFiniteSet(sales) /\ WalletIsRows

IInv ==
  /\ TypeOK
  /\ AttemptsFit /\ HandlersFit /\ RecordsFit
  /\ MoneyCameIn
  /\ SalesFit /\ RefundsFit /\ BalanceFits

------------------------------------------------------------------------------
(* What the parts of a step do. *)

LEMMA Types ==
  ASSUME TypeOK
  PROVE  /\ process \in [Process -> Handling] /\ order \in OrderType /\ attempt \in AttemptType
         /\ mode \in [Order -> Mode]
         /\ provider \in [Ref -> {"none", "open", "completed", "wrongAmount", "failed"}]
         /\ refund \in [Order -> {"none", "anomalous", "cancel"}]
         /\ sales \subseteq Order /\ refunds \subseteq Order /\ pending \in Int /\ crashes \in 0..MaxCrashes
         /\ available \in Nat /\ held \subseteq Order
BY DEF TypeOK, Handling, OrderType, AttemptType

LEMMA TypesBack ==
  ASSUME process' \in [Process -> Handling], order' \in OrderType, attempt' \in AttemptType,
         mode' \in [Order -> Mode],
         provider' \in [Ref -> {"none", "open", "completed", "wrongAmount", "failed"}],
         refund' \in [Order -> {"none", "anomalous", "cancel"}],
         sales' \subseteq Order, refunds' \subseteq Order, pending' \in Int, crashes' \in 0..MaxCrashes,
         available' \in Nat, held' \subseteq Order
  PROVE  TypeOK'
BY DEF TypeOK, Handling, OrderType, AttemptType

LEMMA HandlerFields ==
  ASSUME IInv, NEW p \in Process
  PROVE  /\ process[p] \in Handling /\ Fits(process[p])
         /\ process[p].pc \in {"read", "verify", "mark", "refund", "claim", "settle", "revert", "reset"}
              => process[p] \in OnAttempt
         /\ process[p].pc \in {"retry", "open"} => process[p].order \in Order
         /\ process[p].pc = "supersede" => process[p].order \in Order /\ process[p].ref \in Ref
         /\ process[p].pc = "record" =>
              process[p] \in [pc : {"record"}, order : Order, ref : Ref, left : SUBSET {"attempt", "session"}]
         /\ process[p].pc = "check" => process[p].order \in Order /\ process[p].session \in Ref \cup {NoRef}
         /\ process[p].pc \in {"expire", "cancelPending", "cancelPaid", "issueRefund"} => process[p].order \in Order
         /\ process[p].pc = "write" => process[p].order \in Order /\ process[p].target \in Status
         /\ process[p].pc \in {"adminCancel", "admin"} =>
              process[p] \in [pc : {"adminCancel", "admin"}, order : Order, memory : Pay, stale : BOOLEAN]
<1>1. process[p] \in Handling /\ Fits(process[p])
  BY Types DEF IInv, HandlersFit
<1> QED
  BY <1>1 DEF Handling, Idle, OnAttempt, OnRetry, OnOrder

LEMMA IdleFits == Idle \in Handling /\ Fits(Idle) /\ Idle.pc = "idle"
BY DEF Handling, Idle, Fits

(* A handler moves on, or none does; an open transaction of an administrator
   may turn stale. *)
Moves(movers, next) ==
  /\ process' \in [Process -> Handling]
  /\ \A q \in movers : process'[q] = next
  /\ \A q \in Process \ movers :
       \/ process'[q] = process[q]
       \/ process[q].pc = "admin" /\ process'[q] = [process[q] EXCEPT !.stale = TRUE]

LEMMA GoesMoves ==
  ASSUME IInv, NEW p \in Process, NEW next \in Handling, Goes(p, next)
  PROVE  Moves({p}, next)
BY Types DEF IInv, Goes, Moves

LEMMA AfterWriteType ==
  ASSUME IInv, NEW o, NEW walletToo
  PROVE  /\ AfterWrite(o, walletToo) \in [Process -> Handling]
         /\ \A q \in Process :
              \/ AfterWrite(o, walletToo)[q] = process[q]
              \/ process[q].pc = "admin" /\ AfterWrite(o, walletToo)[q] = [process[q] EXCEPT !.stale = TRUE]
<1>1. ASSUME NEW q \in Process, process[q].pc = "admin"
      PROVE  [process[q] EXCEPT !.stale = TRUE] \in Handling
  <2>1. process[q] \in [pc : {"adminCancel", "admin"}, order : Order, memory : Pay, stale : BOOLEAN]
    BY <1>1, HandlerFields
  <2>2. [process[q] EXCEPT !.stale = TRUE]
          \in [pc : {"adminCancel", "admin"}, order : Order, memory : Pay, stale : BOOLEAN]
    BY <2>1
  <2> QED
    BY <2>2 DEF Handling, OnOrder
<1>2. process \in [Process -> Handling]
  BY Types DEF IInv
<1> QED
  BY <1>1, <1>2 DEF AfterWrite, Touched

LEMMA WritingMoves ==
  ASSUME IInv, NEW p \in Process, NEW next \in Handling, NEW o, NEW walletToo,
         GoesWriting(p, next, o, walletToo)
  PROVE  Moves({p}, next)
BY AfterWriteType DEF GoesWriting, Moves

(* The data only grow: attempts stay with their order, what Konnect captured
   stays captured, and SALE rows stay. *)
Grows ==
  /\ UNCHANGED mode
  /\ \A r \in Ref :
       /\ attempt[r].order # NoRef => attempt'[r].order = attempt[r].order
       /\ provider[r] \in {"completed", "wrongAmount"} => provider'[r] = provider[r]
       /\ provider[r] # "none" => provider'[r] # "none"
  /\ sales \subseteq sales'

LEMMA SaleMadeKept ==
  ASSUME IInv, Grows, NEW o \in Order
  PROVE  /\ Completed(o) => Completed(o)'
         /\ SaleMade(o) => SaleMade(o)'
<1>1. \A r \in Attempts(o) : r \in Attempts(o)'
  BY RefAssumption DEF Attempts, Grows
<1>2. Completed(o) => Completed(o)'
  BY <1>1 DEF Completed, Grows, Attempts
<1> QED
  BY <1>2 DEF SaleMade, Grows

LEMMA FitsKept ==
  ASSUME IInv, Grows, NEW h \in Handling, Fits(h)
  PROVE  Fits(h)'
<1>1. h.pc \in {"verify", "mark", "refund", "claim", "settle", "revert", "reset", "supersede"} => h.ref \in Ref
  BY DEF Handling, Idle, OnAttempt, OnRetry, OnOrder
<1>2. h.pc \in {"cancelPaid", "issueRefund", "adminCancel", "admin"} => h.order \in Order
  BY DEF Handling, Idle, OnAttempt, OnRetry, OnOrder
<1>3. h.pc \in {"cancelPaid", "issueRefund"} => SaleMade(h.order)'
  BY <1>2, SaleMadeKept DEF Fits
<1>4. h.pc \in {"adminCancel", "admin"} /\ h.memory = "PAID" => SaleMade(h.order)'
  BY <1>2, SaleMadeKept DEF Fits
<1> QED
  BY <1>1, <1>3, <1>4 DEF Fits, Grows, Captured

LEMMA HandlersStep ==
  ASSUME IInv, Grows, NEW movers \in SUBSET Process, NEW next \in Handling, Fits(next), Moves(movers, next)
  PROVE  HandlersFit'
<1> SUFFICES ASSUME NEW q \in Process PROVE Fits(process[q])'
  BY DEF HandlersFit
<1>1. CASE q \in movers
  <2>1. Fits(next)'
    BY FitsKept
  <2> QED
    BY <1>1, <2>1 DEF Moves
<1>2. CASE process'[q] = process[q]
  <2>1. process[q] \in Handling /\ Fits(process[q])
    BY HandlerFields
  <2>2. PICK h \in Handling : h = process[q]
    BY <2>1
  <2>3. Fits(h)'
    BY <2>1, <2>2, FitsKept
  <2> QED
    BY <1>2, <2>2, <2>3
<1>3. CASE process[q].pc = "admin" /\ process'[q] = [process[q] EXCEPT !.stale = TRUE]
  <2>1. process[q] \in [pc : {"adminCancel", "admin"}, order : Order, memory : Pay, stale : BOOLEAN]
        /\ Fits(process[q])
    BY <1>3, HandlerFields
  <2>2. PICK h \in Handling : h = [process[q] EXCEPT !.stale = TRUE]
    BY <2>1 DEF Handling, OnOrder
  <2>3. h.pc = "admin" /\ h.order = process[q].order /\ h.memory = process[q].memory
    BY <1>3, <2>1, <2>2
  <2>4. Fits(h)
    BY <1>3, <2>1, <2>3 DEF Fits
  <2>5. Fits(h)'
    BY <2>4, FitsKept
  <2> QED
    BY <1>3, <2>2, <2>5
<1> QED
  BY <1>1, <1>2, <1>3 DEF Moves

(* No reference is opened and none is recorded by this step. *)
LEMMA RecordsStep ==
  ASSUME IInv, Grows, \A r \in Ref : attempt[r].order = NoRef => attempt'[r].order = NoRef,
         NEW movers \in SUBSET Process, NEW next \in Handling, next.pc # "record", Moves(movers, next)
  PROVE  RecordsFit'
<1>1. \A q \in Process : process'[q].pc = "record" => q \notin movers /\ process'[q] = process[q]
  <2> SUFFICES ASSUME NEW q \in Process, process'[q].pc = "record"
               PROVE  q \notin movers /\ process'[q] = process[q]
    OBVIOUS
  <2>1. q \notin movers
    BY DEF Moves
  <2>2. ASSUME process[q].pc = "admin", process'[q] = [process[q] EXCEPT !.stale = TRUE] PROVE FALSE
    <3>1. process[q] \in [pc : {"adminCancel", "admin"}, order : Order, memory : Pay, stale : BOOLEAN]
      BY <2>2, HandlerFields
    <3> QED
      BY <2>2, <3>1
  <2> QED
    BY <2>1, <2>2 DEF Moves
<1>2. \A q \in Process : process'[q].pc = "record" => process[q].ref \in Ref
  BY <1>1, HandlerFields
<1> QED
  BY <1>1, <1>2 DEF IInv, RecordsFit, Grows

(* No row is written; a pickup may move a sale from one balance to the other,
   and a Payment may cease to be held. *)
WalletKept ==
  /\ UNCHANGED <<sales, refunds>>
  /\ pending' \in Int /\ available' \in Nat
  /\ pending' + available' = pending + available
  /\ held' \subseteq held
  /\ available' <= Cardinality(sales \ held')

LEMMA WalletRests ==
  ASSUME IInv, UNCHANGED wallet
  PROVE  WalletKept
<1>1. UNCHANGED <<sales, refunds, pending, available, held>>
  BY DEF wallet
<1>2. pending \in Int /\ available \in Nat /\ available <= Cardinality(sales \ held)
  BY Types DEF IInv, BalanceFits, WalletIsRows
<1> QED
  BY <1>1, <1>2 DEF WalletKept

(* The sales whose Payment is not held only become more. *)
LEMMA Unheld ==
  ASSUME IInv, NEW h \in SUBSET held
  PROVE  Cardinality(sales \ held) <= Cardinality(sales \ h) /\ Cardinality(sales \ h) \in Nat
<1>1. IsFiniteSet(sales)
  BY DEF IInv, BalanceFits
<1>2. IsFiniteSet(sales \ h)
  BY <1>1, FS_Difference
<1>3. sales \ held \subseteq sales \ h
  OBVIOUS
<1> QED
  BY <1>2, <1>3, FS_Subset, FS_CardinalityType

LEMMA PaymentEnds ==
  ASSUME IInv, held' \subseteq held,
         UNCHANGED <<sales, refunds, pending, available>>
  PROVE  WalletKept
<1>1. pending \in Int /\ available \in Nat /\ available <= Cardinality(sales \ held)
      /\ Cardinality(sales \ held) \in Nat
  BY Types, Unheld DEF IInv, BalanceFits, WalletIsRows
<1>2. PICK h \in SUBSET held : h = held'
  OBVIOUS
<1>3. Cardinality(sales \ held) <= Cardinality(sales \ h) /\ Cardinality(sales \ h) \in Nat
  BY Unheld
<1>4. available <= Cardinality(sales \ h)
  BY <1>1, <1>3
<1> QED
  BY <1>1, <1>2, <1>4 DEF WalletKept

(* Nobody is credited, settled or refunded by this step, but an order without
   a request may get one for the money somebody captured. *)
LEMMA MoneyKept ==
  ASSUME IInv, Grows, WalletKept,
         \A o \in Order : order'[o].pay = "PAID" => order[o].pay = "PAID",
         \A r \in Ref : attempt'[r].status = "paid" =>
                          attempt[r].status = "paid" /\ attempt'[r].order = attempt[r].order,
         \A o \in Order : refund'[o] # refund[o] =>
           refund[o] = "none" /\ refund'[o] = "anomalous" /\ \E r \in Attempts(o) : Captured(r)
  PROVE  MoneyCameIn' /\ SalesFit' /\ RefundsFit' /\ BalanceFits'
<1>1. UNCHANGED <<mode, sales, refunds>>
  BY DEF Grows, WalletKept
<1>2. \A o \in Order : Completed(o) => Completed(o)'
  BY SaleMadeKept
<1>3. \A o \in Order : (\E r \in Attempts(o) : Captured(r)) => (\E r \in Attempts(o) : Captured(r))'
  BY RefAssumption DEF Attempts, Captured, Grows
<1>4. \A o \in Order : \A r \in Attempts(o)' : attempt'[r].status = "paid" => r \in Attempts(o) /\ attempt[r].status = "paid"
  BY DEF Attempts
<1>5. MoneyCameIn'
  <2> SUFFICES ASSUME NEW o \in Order
               PROVE  /\ (o \in sales' \/ order'[o].pay = "PAID" \/ \E r \in Attempts(o)' : attempt'[r].status = "paid")
                           => Completed(o)'
                      /\ refund'[o] # "none" => (\E r \in Attempts(o) : Captured(r))'
    BY DEF MoneyCameIn, Completed
  <2>1. (o \in sales \/ order[o].pay = "PAID" \/ \E r \in Attempts(o) : attempt[r].status = "paid")
          => Completed(o)
    BY DEF IInv, MoneyCameIn, Completed
  <2>2. refund[o] # "none" => \E r \in Attempts(o) : Captured(r)
    BY DEF IInv, MoneyCameIn
  <2> QED
    BY <1>1, <1>2, <1>3, <1>4, <2>1, <2>2
<1>6. SalesFit'
  BY <1>1, <1>4 DEF IInv, SalesFit
<1>7. RefundsFit'
  BY <1>1 DEF IInv, RefundsFit
<1>8. BalanceFits'
  <2>1. pending + available = Cardinality(sales) - Cardinality(refunds)
    BY DEF IInv, BalanceFits, WalletIsRows
  <2>2. pending' + available' = Cardinality(sales) - Cardinality(refunds)
        /\ available' <= Cardinality(sales \ held')
    BY <2>1 DEF WalletKept
  <2> QED
    BY <1>1, <2>2 DEF IInv, BalanceFits, WalletIsRows
<1> QED
  BY <1>5, <1>6, <1>7, <1>8

(* A handler reads, starts or dies: the data stay as they are. *)
LEMMA Observes ==
  ASSUME IInv, UNCHANGED data, crashes' \in 0..MaxCrashes,
         NEW p \in Process, NEW next \in Handling, Goes(p, next), Fits(next), next.pc # "record"
  PROVE  IInv'
<1>1. UNCHANGED <<mode, order, attempt, provider, refund, sales, refunds, pending, available, held>>
  BY DEF data, wallet
<1>2. Grows /\ WalletKept
  BY <1>1, WalletRests DEF Grows, wallet
<1>3. Moves({p}, next)
  BY GoesMoves
<1>4. HandlersFit' /\ RecordsFit'
  BY <1>1, <1>2, <1>3, HandlersStep, RecordsStep
<1>5. MoneyCameIn' /\ SalesFit' /\ RefundsFit' /\ BalanceFits'
  BY <1>1, <1>2, MoneyKept
<1>6. AttemptsFit'
  BY <1>1 DEF IInv, AttemptsFit
<1>7. TypeOK'
  BY <1>1, <1>3, Types, TypesBack DEF IInv, Moves
<1> QED
  BY <1>4, <1>5, <1>6, <1>7 DEF IInv

(* A document is written. *)
OrderSet(o, status, pay) ==
  \/ order' = [order EXCEPT ![o].status = status, ![o].pay = pay]
  \/ order' = [order EXCEPT ![o].pay = pay, ![o].status = status]

LEMMA OrderWritten ==
  ASSUME TypeOK, NEW o \in Order, NEW status \in Status, NEW pay \in Pay,
         OrderSet(o, status, pay)
  PROVE  /\ order' \in OrderType
         /\ order'[o].pay = pay /\ \A x \in Order \ {o} : order'[x].pay = order[x].pay
<1>1. order \in OrderType /\ order[o] \in [status : Status, pay : Pay, session : Ref \cup {NoRef}]
  BY Types DEF OrderType
<1> DEFINE new == [status |-> status, pay |-> pay, session |-> order[o].session]
           first == [status |-> status, pay |-> order[o].pay, session |-> order[o].session]
           other == [status |-> order[o].status, pay |-> pay, session |-> order[o].session]
<1>2. [order[o] EXCEPT !.status = status] = first /\ [order[o] EXCEPT !.pay = pay] = other
  BY <1>1
<1>3. [first EXCEPT !.pay = pay] = new /\ [other EXCEPT !.status = status] = new
  OBVIOUS
<1>4. new \in [status : Status, pay : Pay, session : Ref \cup {NoRef}] /\ new.pay = pay
  BY <1>1
<1> HIDE DEF new, first, other
<1>5. order' = [order EXCEPT ![o] = new]
  <2>1. CASE order' = [order EXCEPT ![o].status = status, ![o].pay = pay]
    <3>1. order' = [[order EXCEPT ![o] = first] EXCEPT ![o].pay = pay]
      BY <1>2, <2>1
    <3>2. [order EXCEPT ![o] = first][o] = first
      BY <1>1 DEF OrderType
    <3>3. order' = [[order EXCEPT ![o] = first] EXCEPT ![o] = new]
      BY <1>3, <3>1, <3>2
    <3> QED
      BY <1>1, <3>3 DEF OrderType
  <2>2. CASE order' = [order EXCEPT ![o].pay = pay, ![o].status = status]
    <3>1. order' = [[order EXCEPT ![o] = other] EXCEPT ![o].status = status]
      BY <1>2, <2>2
    <3>2. [order EXCEPT ![o] = other][o] = other
      BY <1>1 DEF OrderType
    <3>3. order' = [[order EXCEPT ![o] = other] EXCEPT ![o] = new]
      BY <1>3, <3>1, <3>2
    <3> QED
      BY <1>1, <3>3 DEF OrderType
  <2> QED
    BY <2>1, <2>2 DEF OrderSet
<1> QED
  BY <1>1, <1>4, <1>5 DEF OrderType

LEMMA StatusWritten ==
  ASSUME TypeOK, NEW o \in Order, NEW status \in Status,
         order' = [order EXCEPT ![o].status = status]
  PROVE  order' \in OrderType /\ \A x \in Order : order'[x].pay = order[x].pay
<1>1. order \in OrderType /\ order[o] \in [status : Status, pay : Pay, session : Ref \cup {NoRef}]
  BY Types DEF OrderType
<1>2. [order[o] EXCEPT !.status = status] = [status |-> status, pay |-> order[o].pay, session |-> order[o].session]
  BY <1>1
<1>3. order' = [order EXCEPT ![o] = [status |-> status, pay |-> order[o].pay, session |-> order[o].session]]
  BY <1>2
<1> QED
  BY <1>1, <1>3 DEF OrderType

LEMMA AttemptEnds ==
  ASSUME NEW a \in [order : Order \cup {NoRef}, status : AttemptStatus, active : BOOLEAN],
         NEW status \in AttemptStatus
  PROVE  /\ [a EXCEPT !.status = status]
              \in [order : Order \cup {NoRef}, status : AttemptStatus, active : BOOLEAN]
         /\ [a EXCEPT !.status = status].order = a.order /\ [a EXCEPT !.status = status].status = status
         /\ [a EXCEPT !.active = FALSE]
              \in [order : Order \cup {NoRef}, status : AttemptStatus, active : BOOLEAN]
         /\ [a EXCEPT !.active = FALSE].order = a.order /\ [a EXCEPT !.active = FALSE].status = a.status
OBVIOUS

LEMMA AttemptWritten ==
  ASSUME TypeOK, NEW r \in Ref, NEW status \in AttemptStatus,
         \/ attempt' = [attempt EXCEPT ![r].status = status, ![r].active = FALSE]
         \/ attempt' = [attempt EXCEPT ![r].status = status]
  PROVE  /\ attempt' \in AttemptType
         /\ \A x \in Ref : attempt'[x].order = attempt[x].order
         /\ attempt'[r].status = status
         /\ \A x \in Ref \ {r} : attempt'[x].status = attempt[x].status
<1>1. /\ attempt \in AttemptType
      /\ attempt[r] \in [order : Order \cup {NoRef}, status : AttemptStatus, active : BOOLEAN]
  BY Types DEF AttemptType
<1> DEFINE marked == [attempt[r] EXCEPT !.status = status]
           ended == [marked EXCEPT !.active = FALSE]
<1>2. /\ marked \in [order : Order \cup {NoRef}, status : AttemptStatus, active : BOOLEAN]
      /\ marked.order = attempt[r].order /\ marked.status = status
  BY <1>1, AttemptEnds
<1>3. /\ ended \in [order : Order \cup {NoRef}, status : AttemptStatus, active : BOOLEAN]
      /\ ended.order = attempt[r].order /\ ended.status = status
  <2> HIDE DEF marked
  <2> QED
    BY <1>2, AttemptEnds
<1>4. attempt' = [attempt EXCEPT ![r] = marked] \/ attempt' = [attempt EXCEPT ![r] = ended]
  <2>1. CASE attempt' = [attempt EXCEPT ![r].status = status]
    BY <2>1
  <2>2. CASE attempt' = [attempt EXCEPT ![r].status = status, ![r].active = FALSE]
    <3>1. attempt' = [[attempt EXCEPT ![r] = marked] EXCEPT ![r].active = FALSE]
      BY <2>2
    <3> HIDE DEF marked
    <3>2. [attempt EXCEPT ![r] = marked][r] = marked
      BY <1>1 DEF AttemptType
    <3>3. attempt' = [[attempt EXCEPT ![r] = marked] EXCEPT ![r] = ended]
      BY <3>1, <3>2
    <3> HIDE DEF ended
    <3>4. attempt' = [attempt EXCEPT ![r] = ended]
      BY <1>1, <3>3 DEF AttemptType
    <3> QED
      BY <3>4
  <2> QED
    BY <2>1, <2>2
<1> HIDE DEF marked, ended
<1> QED
  BY <1>1, <1>2, <1>3, <1>4 DEF AttemptType

LEMMA AttemptsExpiredType ==
  ASSUME IInv, NEW o \in Order, attempt' = AttemptsExpired(o)
  PROVE  /\ attempt' \in AttemptType
         /\ \A x \in Ref : attempt'[x].order = attempt[x].order
         /\ \A x \in Ref : \/ attempt'[x].status = attempt[x].status
                           \/ attempt'[x].status = "expired" /\ attempt[x].order = o
<1> SUFFICES ASSUME NEW r \in Ref
             PROVE  /\ attempt'[r] \in [order : Order \cup {NoRef}, status : AttemptStatus, active : BOOLEAN]
                    /\ attempt'[r].order = attempt[r].order
                    /\ \/ attempt'[r].status = attempt[r].status
                       \/ attempt'[r].status = "expired" /\ attempt[r].order = o
  BY DEF AttemptsExpired, AttemptType
<1>1. attempt[r] \in [order : Order \cup {NoRef}, status : AttemptStatus, active : BOOLEAN]
  BY Types DEF IInv, AttemptType
<1>2. CASE attempt[r].order = o /\ attempt[r].active
  <2> DEFINE marked == [attempt[r] EXCEPT !.status = "expired"]
  <2>1. /\ marked \in [order : Order \cup {NoRef}, status : AttemptStatus, active : BOOLEAN]
        /\ marked.order = attempt[r].order /\ marked.status = "expired"
    BY <1>1, AttemptEnds DEF AttemptStatus
  <2>2. attempt'[r] = [marked EXCEPT !.active = FALSE]
    BY <1>2 DEF AttemptsExpired
  <2> HIDE DEF marked
  <2> QED
    BY <1>2, <2>1, <2>2, AttemptEnds
<1>3. CASE ~(attempt[r].order = o /\ attempt[r].active)
  BY <1>1, <1>3 DEF AttemptsExpired
<1> QED
  BY <1>2, <1>3

------------------------------------------------------------------------------
(* Steps that write and record no reference. *)
LEMMA Writes ==
  ASSUME IInv, UNCHANGED <<mode, provider, crashes>>,
         order' \in OrderType, attempt' \in AttemptType,
         refund' \in [Order -> {"none", "anomalous", "cancel"}],
         sales' \subseteq Order, refunds' \subseteq Order, pending' \in Int, sales \subseteq sales',
         available' \in Nat, held' \subseteq Order,
         \A r \in Ref : /\ attempt'[r].order = attempt[r].order
                        /\ attempt[r].order = NoRef => attempt'[r].status = attempt[r].status,
         NEW movers \in SUBSET Process, NEW next \in Handling, Fits(next), next.pc # "record",
         Moves(movers, next),
         MoneyCameIn', SalesFit', RefundsFit', BalanceFits'
  PROVE  IInv'
<1>1. Grows
  BY DEF Grows
<1>2. HandlersFit' /\ RecordsFit'
  BY <1>1, HandlersStep, RecordsStep
<1>3. AttemptsFit'
  BY DEF IInv, AttemptsFit
<1>4. TypeOK'
  BY Types, TypesBack DEF IInv, Moves
<1> QED
  BY <1>2, <1>3, <1>4 DEF IInv

LEMMA PlainWrites ==
  ASSUME IInv, WalletKept, UNCHANGED <<mode, provider, crashes>>,
         order' \in OrderType, attempt' \in AttemptType,
         refund' \in [Order -> {"none", "anomalous", "cancel"}],
         \A o \in Order : order'[o].pay = "PAID" => order[o].pay = "PAID",
         \A r \in Ref : /\ attempt'[r].order = attempt[r].order
                        /\ attempt'[r].status = "paid" => attempt[r].status = "paid"
                        /\ attempt[r].order = NoRef => attempt'[r].status = attempt[r].status,
         \A o \in Order : refund'[o] # refund[o] =>
           refund[o] = "none" /\ refund'[o] = "anomalous" /\ \E r \in Attempts(o) : Captured(r),
         NEW movers \in SUBSET Process, NEW next \in Handling, Fits(next), next.pc # "record",
         Moves(movers, next)
  PROVE  IInv'
<1>1. Grows
  BY DEF Grows, WalletKept
<1>2. MoneyCameIn' /\ SalesFit' /\ RefundsFit' /\ BalanceFits'
  BY <1>1, MoneyKept
<1>3. /\ sales' \subseteq Order /\ refunds' \subseteq Order /\ pending' \in Int
      /\ sales \subseteq sales' /\ available' \in Nat /\ held' \subseteq Order
  BY Types DEF IInv, WalletKept
<1> QED
  BY <1>2, <1>3, Writes

(* An attempt changes its status, but for "paid". *)
LEMMA AttemptKeeps ==
  ASSUME IInv, NEW p \in Process, NEW r \in Ref, attempt[r].order # NoRef,
         NEW status \in AttemptStatus \ {"paid"},
         \/ attempt' = [attempt EXCEPT ![r].status = status, ![r].active = FALSE]
         \/ attempt' = [attempt EXCEPT ![r].status = status],
         UNCHANGED <<mode, order, provider, refund, wallet, crashes>>,
         NEW next \in Handling, Fits(next), next.pc # "record", Goes(p, next)
  PROVE  IInv'
<1>1. /\ attempt' \in AttemptType
      /\ \A x \in Ref : attempt'[x].order = attempt[x].order
      /\ attempt'[r].status = status
      /\ \A x \in Ref \ {r} : attempt'[x].status = attempt[x].status
  BY AttemptWritten DEF IInv
<1>2. Moves({p}, next)
  BY GoesMoves
<1>3. \A x \in Ref : /\ attempt'[x].status = "paid" => attempt[x].status = "paid"
                     /\ attempt[x].order = NoRef => attempt'[x].status = attempt[x].status
  BY <1>1
<1>4. WalletKept
  BY WalletRests
<1> QED
  BY <1>1, <1>2, <1>3, <1>4, PlainWrites, Types DEF IInv

(* The order is written, its attempts lapse or not, and nobody is paid. *)
LEMMA OrderKeeps ==
  ASSUME IInv, NEW movers \in SUBSET Process, NEW o \in Order, order' \in OrderType,
         \A x \in Order : order'[x].pay = "PAID" => order[x].pay = "PAID",
         UNCHANGED attempt \/ attempt' = AttemptsExpired(o),
         WalletKept, UNCHANGED <<mode, provider, refund, crashes>>,
         Moves(movers, Idle)
  PROVE  IInv'
<1>1. /\ attempt' \in AttemptType
      /\ \A x \in Ref : attempt'[x].order = attempt[x].order
      /\ \A x \in Ref : \/ attempt'[x].status = attempt[x].status
                        \/ attempt'[x].status = "expired" /\ attempt[x].order = o
  BY AttemptsExpiredType, Types DEF IInv
<1>2. \A x \in Ref : /\ attempt'[x].status = "paid" => attempt[x].status = "paid"
                     /\ attempt[x].order = NoRef => attempt'[x].status = attempt[x].status
  BY <1>1, RefAssumption
<1> QED
  BY <1>1, <1>2, IdleFits, PlainWrites, Types DEF IInv

------------------------------------------------------------------------------
LEMMA StartKeeps ==
  ASSUME IInv, NEW p \in Process, NEW o \in Order, Start(p, o)
  PROVE  IInv'
<1>1. order \in OrderType /\ order[o].status \in Status /\ order[o].pay \in Pay /\ crashes \in 0..MaxCrashes
  BY Types DEF IInv, OrderType
<1>2. order[o].pay = "PAID" => SaleMade(o)
  BY DEF IInv, MoneyCameIn, SalesFit, SaleMade, Completed
<1>3. UNCHANGED <<data, crashes>>
  BY DEF Start, StartRetry, StartCancel, StartIssueRefund, StartAdminCancel, StartWrite, Starts
<1>4. \E next \in Handling : Goes(p, next) /\ Fits(next) /\ next.pc # "record"
  <2>1. CASE StartRetry(p, o)
    <3>1. [pc |-> "retry", order |-> o] \in Handling /\ Fits([pc |-> "retry", order |-> o])
      BY DEF Handling, OnRetry, Fits
    <3> QED
      BY <2>1, <3>1 DEF StartRetry, Starts
  <2>2. CASE StartCancel(p, o)
    <3>1. [pc |-> "cancelPending", order |-> o] \in Handling /\ Fits([pc |-> "cancelPending", order |-> o])
      BY DEF Handling, OnOrder, Fits
    <3>2. [pc |-> "cancelPaid", order |-> o] \in Handling
      BY DEF Handling, OnOrder
    <3>3. order[o].pay = "PAID" => Fits([pc |-> "cancelPaid", order |-> o])
      BY <1>2 DEF Fits
    <3>4. [pc |-> "write", order |-> o, target |-> "CANCELLED"] \in Handling
          /\ Fits([pc |-> "write", order |-> o, target |-> "CANCELLED"])
      BY DEF Handling, OnOrder, Fits, Status
    <3> QED
      BY <2>2, <3>1, <3>2, <3>3, <3>4 DEF StartCancel, Starts
  <2>3. CASE StartIssueRefund(p, o)
    <3>1. [pc |-> "issueRefund", order |-> o] \in Handling
      BY DEF Handling, OnOrder
    <3>2. Fits([pc |-> "issueRefund", order |-> o])
      BY <1>2, <2>3 DEF Fits, StartIssueRefund
    <3> QED
      BY <2>3, <3>1, <3>2 DEF StartIssueRefund, Starts
  <2>4. CASE StartAdminCancel(p, o)
    <3> DEFINE next == [pc |-> "adminCancel", order |-> o, memory |-> order[o].pay, stale |-> FALSE]
    <3>1. next \in Handling
      BY <1>1 DEF Handling, OnOrder
    <3>2. Fits(next)
      BY <1>2 DEF Fits
    <3>3. next.pc # "record" /\ Goes(p, next)
      BY <2>4 DEF StartAdminCancel, Starts
    <3> QED
      BY <3>1, <3>2, <3>3
  <2>5. ASSUME NEW target \in Status, StartWrite(p, o, target)
        PROVE  \E next \in Handling : Goes(p, next) /\ Fits(next) /\ next.pc # "record"
    <3> DEFINE next == [pc |-> "write", order |-> o, target |-> target]
    <3>1. next \in Handling /\ Fits(next) /\ next.pc # "record" /\ Goes(p, next)
      BY <2>5 DEF Handling, OnOrder, Fits, StartWrite, Starts
    <3> QED
      BY <3>1
  <2> QED
    BY <2>1, <2>2, <2>3, <2>4, <2>5 DEF Start
<1> QED
  BY <1>1, <1>3, <1>4, Observes

(* A reading of an attempt by reference. *)
LEMMA ReadFits ==
  ASSUME NEW r \in Ref
  PROVE  [pc |-> "read", ref |-> r] \in Handling /\ Fits([pc |-> "read", ref |-> r])
BY DEF Handling, OnAttempt, Fits

LEMMA JobsKeep ==
  ASSUME IInv,
         \/ \E r \in Ref : ReconcileAttempt(r)
         \/ \E p \in Request, r \in Ref : StartWebhook(p, r)
         \/ \E o \in Order : FindExpired(o) \/ ReconcileOrder(o)
  PROVE  IInv'
<1>1. order \in OrderType /\ attempt \in AttemptType /\ crashes \in 0..MaxCrashes
  BY Types DEF IInv
<1>2. \E p \in Process, next \in Handling :
        Goes(p, next) /\ Fits(next) /\ next.pc # "record" /\ UNCHANGED <<data, crashes>>
  <2>1. ASSUME NEW r \in Ref, ReconcileAttempt(r)
        PROVE  \E p \in Process, next \in Handling :
                 Goes(p, next) /\ Fits(next) /\ next.pc # "record" /\ UNCHANGED <<data, crashes>>
    <3> DEFINE reset == [pc |-> "reset", ref |-> r]
    <3>1. attempt[r].order # NoRef
      BY <2>1 DEF ReconcileAttempt, StaleAttempt, IInv, AttemptsFit
    <3>2. reset \in Handling /\ Fits(reset) /\ reset.pc # "record"
      BY <3>1 DEF Handling, OnAttempt, Fits
    <3>3. Goes(Reconciliation, reset) \/ Goes(Reconciliation, [pc |-> "read", ref |-> r])
      BY <2>1 DEF ReconcileAttempt, Starts
    <3> HIDE DEF reset
    <3> QED
      BY <2>1, <3>2, <3>3, ReadFits DEF ReconcileAttempt, Starts, Process
  <2>2. ASSUME NEW p \in Request, NEW r \in Ref, StartWebhook(p, r)
        PROVE  \E q \in Process, next \in Handling :
                 Goes(q, next) /\ Fits(next) /\ next.pc # "record" /\ UNCHANGED <<data, crashes>>
    BY <2>2, ReadFits DEF StartWebhook, Starts, Process
  <2>3. ASSUME NEW o \in Order, FindExpired(o)
        PROVE  \E p \in Process, next \in Handling :
                 Goes(p, next) /\ Fits(next) /\ next.pc # "record" /\ UNCHANGED <<data, crashes>>
    <3> DEFINE next == [pc |-> "check", order |-> o, session |-> order[o].session]
    <3>1. next \in Handling /\ Fits(next) /\ next.pc # "record"
      BY <1>1 DEF Handling, OnOrder, Fits, OrderType
    <3>2. Goes(Expiry, next) /\ UNCHANGED <<data, crashes>>
      BY <2>3 DEF FindExpired, Starts
    <3> QED
      BY <3>1, <3>2 DEF Process
  <2>4. ASSUME NEW o \in Order, ReconcileOrder(o)
        PROVE  \E p \in Process, next \in Handling :
                 Goes(p, next) /\ Fits(next) /\ next.pc # "record" /\ UNCHANGED <<data, crashes>>
    <3>1. PICK r \in Ref : r = order[o].session
      BY <1>1, <2>4 DEF ReconcileOrder, OrderType
    <3> QED
      BY <2>4, <3>1, ReadFits DEF ReconcileOrder, Starts, Process
  <2> QED
    BY <2>1, <2>2, <2>3, <2>4
<1> QED
  BY <1>1, <1>2, Observes

LEMMA CrashKeeps ==
  ASSUME IInv, NEW p \in Process, Crash(p)
  PROVE  IInv'
<1>1. crashes' \in 0..MaxCrashes
  BY BoundAssumption, Types DEF IInv, Crash
<1> QED
  BY <1>1, IdleFits, Observes DEF Crash

------------------------------------------------------------------------------
(* Continuing handlers that only read. *)
LEMMA ReadingKeeps ==
  ASSUME IInv, NEW p \in Process,
         FindActiveAttempt(p) \/ ReadAttempt(p) \/ VerifyAndReadOrder(p) \/ CheckSession(p)
           \/ BeginAdminCancel(p) \/ AdminCancelAgain(p)
  PROVE  IInv'
<1>1. /\ order \in OrderType /\ attempt \in AttemptType /\ crashes \in 0..MaxCrashes
      /\ provider \in [Ref -> {"none", "open", "completed", "wrongAmount", "failed"}]
  BY Types DEF IInv
<1>2. UNCHANGED <<data, crashes>>
  BY DEF FindActiveAttempt, ReadAttempt, VerifyAndReadOrder, CheckSession, BeginAdminCancel, AdminCancelAgain
<1>3. \E next \in Handling : Goes(p, next) /\ Fits(next) /\ next.pc # "record"
  <2>1. CASE FindActiveAttempt(p)
    <3> DEFINE o == process[p].order
               open == [pc |-> "open", order |-> o]
    <3>1. o \in Order
      BY <2>1, HandlerFields DEF FindActiveAttempt
    <3>2. open \in Handling /\ Fits(open) /\ open.pc # "record"
      BY <3>1 DEF Handling, OnRetry, Fits
    <3>3. ASSUME NEW r \in Ref, attempt[r].order = o
          PROVE  LET next == [pc |-> "supersede", order |-> o, ref |-> r] IN
                 next \in Handling /\ Fits(next) /\ next.pc # "record"
      BY <3>1, <3>3, RefAssumption DEF Handling, OnRetry, Fits
    <3>4. \/ Goes(p, open)
          \/ \E r \in Ref :
               /\ attempt[r].order = o
               /\ \/ Goes(p, [pc |-> "read", ref |-> r])
                  \/ Goes(p, Idle)
                  \/ Goes(p, [pc |-> "supersede", order |-> o, ref |-> r])
      BY <2>1 DEF FindActiveAttempt
    <3> HIDE DEF o, open
    <3> QED
      BY <3>2, <3>3, <3>4, ReadFits, IdleFits
  <2>2. CASE ReadAttempt(p)
    <3> DEFINE r == process[p].ref
               next == [pc |-> "verify", ref |-> r]
    <3>1. r \in Ref
      BY <2>2, HandlerFields DEF ReadAttempt, OnAttempt
    <3>2. Goes(p, Idle) \/ (Goes(p, next) /\ attempt[r].status # "none")
      BY <2>2 DEF ReadAttempt
    <3>3. attempt[r].status # "none" => next \in Handling /\ Fits(next) /\ next.pc # "record"
      BY <3>1 DEF Handling, OnAttempt, Fits, IInv, AttemptsFit
    <3> QED
      BY <3>2, <3>3, IdleFits
  <2>3. CASE VerifyAndReadOrder(p)
    <3> DEFINE r == process[p].ref
               next == [pc |-> Decision(r), ref |-> r]
    <3>1. r \in Ref /\ attempt[r].order # NoRef
      BY <2>3, HandlerFields DEF VerifyAndReadOrder, OnAttempt, Fits
    <3>2. Goes(p, Idle) \/ (Goes(p, next) /\ Decision(r) # "idle")
      BY <2>3 DEF VerifyAndReadOrder
    <3>3. /\ Decision(r) \in {"idle", "mark", "claim"}
          /\ Decision(r) # "idle" => Captured(r)
          /\ Decision(r) = "claim" => provider[r] = "completed"
      BY DEF Decision, Captured
    <3>4. Decision(r) # "idle" => next \in Handling /\ Fits(next) /\ next.pc # "record"
      BY <3>1, <3>3 DEF Handling, OnAttempt, Fits
    <3> QED
      BY <3>2, <3>4, IdleFits
  <2>4. CASE CheckSession(p)
    <3> DEFINE next == [pc |-> "expire", order |-> process[p].order]
    <3>1. process[p].order \in Order /\ process[p].session \in Ref \cup {NoRef}
      BY <2>4, HandlerFields DEF CheckSession
    <3>2. next \in Handling /\ Fits(next) /\ next.pc # "record"
      BY <3>1 DEF Handling, OnOrder, Fits
    <3>3. \/ Goes(p, next) \/ Goes(p, Idle)
          \/ process[p].session # NoRef /\ Goes(p, [pc |-> "read", ref |-> process[p].session])
      BY <2>4 DEF CheckSession
    <3> QED
      BY <3>1, <3>2, <3>3, ReadFits, IdleFits
  <2>5. CASE BeginAdminCancel(p)
    <3>1. process[p] \in [pc : {"adminCancel", "admin"}, order : Order, memory : Pay, stale : BOOLEAN]
          /\ Fits(process[p]) /\ process[p].pc = "adminCancel"
      BY <2>5, HandlerFields DEF BeginAdminCancel
    <3> DEFINE next == [process[p] EXCEPT !.pc = "admin"]
    <3>2. next \in [pc : {"adminCancel", "admin"}, order : Order, memory : Pay, stale : BOOLEAN]
          /\ next.pc = "admin" /\ next.order = process[p].order /\ next.memory = process[p].memory
      BY <3>1
    <3>3. Goes(p, next)
      BY <2>5 DEF BeginAdminCancel
    <3> HIDE DEF next
    <3>4. next \in Handling /\ Fits(next)
      BY <3>1, <3>2 DEF Handling, OnOrder, Fits
    <3> QED
      BY <3>2, <3>3, <3>4
  <2>6. CASE AdminCancelAgain(p)
    <3>1. process[p] \in [pc : {"adminCancel", "admin"}, order : Order, memory : Pay, stale : BOOLEAN]
          /\ process[p].pc = "admin"
      BY <2>6, HandlerFields DEF AdminCancelAgain
    <3> DEFINE memory == IF process[p].memory = "PAID" THEN "REFUND_PENDING" ELSE process[p].memory
               fresh == [process[p] EXCEPT !.stale = FALSE]
               next == [fresh EXCEPT !.memory = memory]
    <3>2. memory \in Pay /\ memory # "PAID"
      BY <3>1 DEF Pay
    <3>3. fresh \in [pc : {"adminCancel", "admin"}, order : Order, memory : Pay, stale : BOOLEAN]
          /\ fresh.pc = "admin" /\ fresh.order = process[p].order /\ fresh.memory = process[p].memory
      BY <3>1
    <3>4. Goes(p, next)
      BY <2>6, <3>3 DEF AdminCancelAgain
    <3> HIDE DEF memory, fresh
    <3>5. next \in [pc : {"adminCancel", "admin"}, order : Order, memory : Pay, stale : BOOLEAN]
          /\ next.pc = "admin" /\ next.memory = memory
      BY <3>2, <3>3
    <3> HIDE DEF next
    <3>6. next \in Handling /\ Fits(next)
      BY <3>2, <3>5 DEF Handling, OnOrder, Fits
    <3> QED
      BY <3>4, <3>5, <3>6
  <2> QED
    BY <2>1, <2>2, <2>3, <2>4, <2>5, <2>6
<1> QED
  BY <1>1, <1>2, <1>3, Observes

(* Continuing handlers that write an attempt. *)
LEMMA AttemptStepKeeps ==
  ASSUME IInv, NEW p \in Process,
         Supersede(p) \/ MarkAnomalous(p) \/ ClaimAttempt(p) \/ RevertClaim(p) \/ ResetClaim(p)
  PROVE  IInv'
<1> DEFINE r == process[p].ref
<1>1. process[p].pc \in {"supersede", "mark", "claim", "revert", "reset"}
  BY DEF Supersede, MarkAnomalous, ClaimAttempt, RevertClaim, ResetClaim
<1>2. r \in Ref /\ attempt[r].order # NoRef
  BY <1>1, HandlerFields DEF OnAttempt, Fits
<1>3. UNCHANGED <<mode, order, provider, refund, wallet, crashes>>
  BY DEF Supersede, MarkAnomalous, ClaimAttempt, RevertClaim, ResetClaim
<1>4. {"expired", "anomalous", "processing", "pending"} \subseteq AttemptStatus \ {"paid"}
  BY DEF AttemptStatus
<1>5. CASE Supersede(p)
  <2> DEFINE next == [pc |-> "open", order |-> process[p].order]
  <2>1. next \in Handling /\ Fits(next) /\ next.pc # "record"
    BY <1>5, HandlerFields DEF Supersede, Handling, OnRetry, Fits
  <2>2. Goes(p, next) /\ attempt' = [attempt EXCEPT ![r].status = "expired", ![r].active = FALSE]
    BY <1>5 DEF Supersede
  <2> QED
    BY <1>2, <1>3, <1>4, <2>1, <2>2, AttemptKeeps
<1>6. CASE MarkAnomalous(p)
  <2> DEFINE next == [process[p] EXCEPT !.pc = "refund"]
  <2>1. process[p].pc = "mark" /\ process[p] \in OnAttempt /\ Fits(process[p])
    BY <1>6, HandlerFields DEF MarkAnomalous
  <2>2. next = [pc |-> "refund", ref |-> r]
    BY <2>1 DEF OnAttempt
  <2>3. [pc |-> "refund", ref |-> r] \in Handling /\ Fits([pc |-> "refund", ref |-> r])
    BY <1>2, <2>1 DEF Handling, OnAttempt, Fits
  <2>4. Goes(p, next) /\ attempt' = [attempt EXCEPT ![r].status = "anomalous", ![r].active = FALSE]
    BY <1>6 DEF MarkAnomalous
  <2> QED
    BY <1>2, <1>3, <1>4, <2>2, <2>3, <2>4, AttemptKeeps
<1>7. CASE ClaimAttempt(p)
  <2> DEFINE next == [pc |-> "settle", ref |-> r]
  <2>1. process[p].pc = "claim" /\ Fits(process[p])
    BY <1>7, HandlerFields DEF ClaimAttempt
  <2>2. next \in Handling /\ Fits(next) /\ next.pc # "record"
    BY <1>2, <2>1 DEF Handling, OnAttempt, Fits
  <2>3. \/ attempt' = [attempt EXCEPT ![r].status = "processing"] /\ Goes(p, next)
        \/ UNCHANGED attempt /\ Goes(p, Idle)
    BY <1>7 DEF ClaimAttempt
  <2>4. CASE attempt' = [attempt EXCEPT ![r].status = "processing"] /\ Goes(p, next)
    BY <1>2, <1>3, <1>4, <2>2, <2>4, AttemptKeeps
  <2>5. CASE UNCHANGED attempt /\ Goes(p, Idle)
    <3>1. UNCHANGED data /\ crashes' \in 0..MaxCrashes
      BY <1>3, <2>5, Types DEF data, wallet, IInv
    <3> QED
      BY <2>5, <3>1, IdleFits, Observes
  <2> QED
    BY <2>3, <2>4, <2>5
<1>8. CASE RevertClaim(p)
  <2>1. Goes(p, Idle) /\ attempt' = [attempt EXCEPT ![r].status = "pending"]
    BY <1>8 DEF RevertClaim
  <2> QED
    BY <1>2, <1>3, <1>4, <2>1, IdleFits, AttemptKeeps
<1>9. CASE ResetClaim(p)
  <2> DEFINE next == [process[p] EXCEPT !.pc = "read"]
  <2>1. process[p] \in OnAttempt
    BY <1>9, HandlerFields DEF ResetClaim
  <2>2. next = [pc |-> "read", ref |-> r]
    BY <2>1 DEF OnAttempt
  <2>3. Goes(p, next) /\ attempt' = [attempt EXCEPT ![r].status = "pending"]
    BY <1>9 DEF ResetClaim
  <2> QED
    BY <1>2, <1>3, <1>4, <2>2, <2>3, ReadFits, AttemptKeeps
<1> QED
  BY <1>5, <1>6, <1>7, <1>8, <1>9

(* Continuing handlers that write an order, and pay nobody. *)
LEMMA OrderStepKeeps ==
  ASSUME IInv, NEW p \in Process, ExpireOrder(p) \/ CancelPending(p) \/ WriteStatus(p)
  PROVE  IInv'
<1> DEFINE o == process[p].order
<1>1. o \in Order /\ (process[p].pc = "write" => process[p].target \in Status)
  BY HandlerFields DEF ExpireOrder, CancelPending, WriteStatus
<1>2. GoesWriting(p, Idle, o, FALSE) /\ UNCHANGED <<mode, provider, refund, wallet, crashes>>
      /\ (UNCHANGED attempt \/ attempt' = AttemptsExpired(o))
  BY DEF ExpireOrder, CancelPending, WriteStatus
<1>3. order' \in OrderType /\ \A x \in Order : order'[x].pay = "PAID" => order[x].pay = "PAID"
  <2>1. CASE ExpireOrder(p)
    <3>1. OrderSet(o, "EXPIRED", "FAILED")
      BY <2>1 DEF ExpireOrder, OrderSet
    <3>2. "EXPIRED" \in Status /\ "FAILED" \in Pay
      BY DEF Status, Pay
    <3>3. order' \in OrderType /\ order'[o].pay = "FAILED" /\ \A x \in Order \ {o} : order'[x].pay = order[x].pay
      BY <1>1, <3>1, <3>2, OrderWritten DEF IInv
    <3> QED
      BY <3>3
  <2>2. ASSUME CancelPending(p) \/ WriteStatus(p)
        PROVE  \E status \in Status : order' = [order EXCEPT ![o].status = status]
    BY <1>1, <2>2 DEF CancelPending, WriteStatus, Status
  <2> QED
    BY <1>1, <2>1, <2>2, StatusWritten DEF IInv
<1>4. Moves({p}, Idle)
  BY <1>2, IdleFits, WritingMoves
<1>5. WalletKept
  BY <1>2, WalletRests
<1> QED
  BY <1>1, <1>2, <1>3, <1>4, <1>5, OrderKeeps

LEMMA CancelReservedKeeps ==
  ASSUME IInv, NEW p \in Process, CancelReserved(p)
  PROVE  IInv'
<1>1. PICK o \in Order : o = process[p].order
  BY HandlerFields DEF CancelReserved
<1>2. OrderSet(o, "CANCELLED", "REFUNDED") /\ GoesWriting(p, Idle, o, FALSE) /\ held' \subseteq held
      /\ UNCHANGED <<mode, attempt, provider, refund, sales, refunds, pending, available, crashes>>
  BY <1>1 DEF CancelReserved, OrderSet
<1>3. "CANCELLED" \in Status /\ "REFUNDED" \in Pay
  BY DEF Status, Pay
<1>4. order' \in OrderType /\ order'[o].pay = "REFUNDED"
      /\ \A x \in Order \ {o} : order'[x].pay = order[x].pay
  BY <1>2, <1>3, OrderWritten DEF IInv
<1>5. Moves({p}, Idle)
  BY <1>2, IdleFits, WritingMoves
<1>6. WalletKept
  BY <1>2, PaymentEnds
<1> QED
  BY <1>2, <1>4, <1>5, <1>6, OrderKeeps

LEMMA CompleteKeeps ==
  ASSUME IInv, NEW o \in Order, Complete(o)
  PROVE  IInv'
<1>1. PICK final \in Status : order' = [order EXCEPT ![o].status = final]
  BY DEF Complete, Status
<1>2. order' \in OrderType /\ \A x \in Order : order'[x].pay = order[x].pay
  BY <1>1, StatusWritten DEF IInv
<1>3. Moves({}, Idle)
  <2>1. \E walletToo : process' = AfterWrite(o, walletToo)
    BY Zenon DEF Complete
  <2> QED
    BY <2>1, AfterWriteType DEF Moves
<1>4. UNCHANGED <<mode, attempt, provider, refund, sales, refunds, crashes>> /\ held' \subseteq held
  BY DEF Complete
<1>5. WalletKept
  <2>1. CASE UNCHANGED <<pending, available>>
    BY <1>4, <2>1, PaymentEnds
  <2>2. CASE ~UNCHANGED <<pending, available>>
    <3>1. /\ o \in sales /\ o \in held /\ held' = held \ {o}
          /\ pending' = pending - 1 /\ available' = available + 1
      BY <2>2 DEF Complete, ProcessPickupConfirmation, MovesSale
    <3>2. pending \in Int /\ available \in Nat /\ available <= Cardinality(sales \ held)
          /\ Cardinality(sales \ held) \in Nat
      BY Types, Unheld DEF IInv, BalanceFits, WalletIsRows
    <3>3. IsFiniteSet(sales \ held) /\ o \notin sales \ held
      BY <3>1, FS_Difference DEF IInv, BalanceFits
    <3>4. sales \ (held \ {o}) = (sales \ held) \cup {o}
      BY <3>1
    <3>5. Cardinality(sales \ (held \ {o})) = Cardinality(sales \ held) + 1
      BY <3>3, <3>4, FS_AddElement
    <3>6. available + 1 <= Cardinality(sales \ (held \ {o})) /\ pending - 1 \in Int
          /\ available + 1 \in Nat /\ (pending - 1) + (available + 1) = pending + available
      BY <3>2, <3>5
    <3> QED
      BY <1>4, <3>1, <3>6 DEF WalletKept
  <2> QED
    BY <2>1, <2>2
<1> QED
  BY <1>2, <1>3, <1>4, <1>5, OrderKeeps

LEMMA RequestRefundKeeps ==
  ASSUME IInv, NEW p \in Process, RequestRefund(p)
  PROVE  IInv'
<1> DEFINE r == process[p].ref
           o == attempt[r].order
<1>1. r \in Ref /\ o # NoRef /\ Captured(r)
  BY HandlerFields DEF RequestRefund, OnAttempt, Fits
<1>2. o \in Order /\ r \in Attempts(o)
  BY <1>1, Types DEF IInv, AttemptType, Attempts
<1>3. refund \in [Order -> {"none", "anomalous", "cancel"}] /\ order \in OrderType /\ attempt \in AttemptType
  BY Types DEF IInv
<1>4. refund' = [refund EXCEPT ![o] = IF refund[o] = "none" THEN "anomalous" ELSE refund[o]]
  BY DEF RequestRefund
<1>5. refund' \in [Order -> {"none", "anomalous", "cancel"}]
  BY <1>2, <1>3, <1>4
<1>6. \A x \in Order : refund'[x] # refund[x] =>
        refund[x] = "none" /\ refund'[x] = "anomalous" /\ \E s \in Attempts(x) : Captured(s)
  BY <1>1, <1>2, <1>3, <1>4
<1>7. Goes(p, Idle) /\ UNCHANGED <<mode, order, attempt, provider, wallet, crashes>>
  BY DEF RequestRefund
<1>8. Moves({p}, Idle)
  BY <1>7, IdleFits, GoesMoves
<1> QED
  BY <1>3, <1>5, <1>6, <1>7, <1>8, IdleFits, WalletRests, PlainWrites

------------------------------------------------------------------------------
(* Sessions at Konnect, and their recording. *)

LEMMA CustomerPaysKeeps ==
  ASSUME IInv, NEW r \in Ref, CustomerPays(r)
  PROVE  IInv'
<1>1. UNCHANGED <<mode, order, attempt, refund, wallet, process, crashes>>
  BY DEF CustomerPays
<1>2. PICK outcome \in {"completed", "wrongAmount", "failed"} :
        provider[r] = "open" /\ provider' = [provider EXCEPT ![r] = outcome]
  BY DEF CustomerPays
<1>3. provider \in [Ref -> {"none", "open", "completed", "wrongAmount", "failed"}]
  BY Types DEF IInv
<1>4. provider' \in [Ref -> {"none", "open", "completed", "wrongAmount", "failed"}]
      /\ provider'[r] # "none" /\ \A x \in Ref \ {r} : provider'[x] = provider[x]
  BY <1>2, <1>3
<1>5. Grows
  BY <1>1, <1>2, <1>4 DEF Grows, wallet
<1>6. process \in [Process -> Handling]
  BY Types DEF IInv
<1>7. Moves({}, Idle)
  BY <1>1, <1>6 DEF Moves
<1>8. HandlersFit' /\ RecordsFit'
  BY <1>1, <1>5, <1>7, IdleFits, HandlersStep, RecordsStep
<1>9. MoneyCameIn' /\ SalesFit' /\ RefundsFit' /\ BalanceFits'
  BY <1>1, <1>5, WalletRests, MoneyKept
<1>10. AttemptsFit'
  BY <1>1, <1>5 DEF IInv, AttemptsFit, Grows
<1>11. TypeOK'
  BY <1>1, <1>4, Types, TypesBack DEF IInv, wallet
<1> QED
  BY <1>8, <1>9, <1>10, <1>11 DEF IInv

(* A checkout that opens, or goes on recording, a reference: what it needs. *)
LEMMA RecordingStep ==
  ASSUME IInv, Grows, NEW p \in Process, NEW next \in Handling, Moves({p}, next),
         \/ next.pc # "record"
         \/ next.pc = "record" /\ next.ref \in Ref /\ provider'[next.ref] # "none"
            /\ ("attempt" \in next.left => attempt'[next.ref].order = NoRef),
         \A q \in Process \ {p} : process[q].pc = "record" =>
           /\ next.pc = "record" => process[q].ref # next.ref
           /\ attempt[process[q].ref].order = NoRef => attempt'[process[q].ref].order = NoRef
  PROVE  RecordsFit'
<1>1. \A q \in Process \ {p} : process'[q].pc = "record" => process'[q] = process[q]
  <2> SUFFICES ASSUME NEW q \in Process \ {p}, process'[q].pc = "record", process'[q] # process[q]
               PROVE  FALSE
    OBVIOUS
  <2>1. process[q].pc = "admin" /\ process'[q] = [process[q] EXCEPT !.stale = TRUE]
    BY DEF Moves
  <2>2. process[q] \in [pc : {"adminCancel", "admin"}, order : Order, memory : Pay, stale : BOOLEAN]
    BY <2>1, HandlerFields
  <2> QED
    BY <2>1, <2>2
<1>2. \A q \in Process : process[q].pc = "record" => process[q].ref \in Ref
  BY HandlerFields
<1>3. process'[p] = next
  BY DEF Moves
<1> QED
  BY <1>1, <1>2, <1>3 DEF IInv, RecordsFit, Grows

LEMMA OpenSessionKeeps ==
  ASSUME IInv, NEW p \in Process, OpenSession(p)
  PROVE  IInv'
<1> DEFINE o == process[p].order
<1>1. o \in Order /\ UNCHANGED <<mode, order, attempt, refund, wallet, crashes>>
  BY HandlerFields DEF OpenSession
<1>2. order \in OrderType /\ attempt \in AttemptType
      /\ provider \in [Ref -> {"none", "open", "completed", "wrongAmount", "failed"}]
  BY Types DEF IInv
<1>3. CASE GoesWriting(p, Idle, o, FALSE) /\ UNCHANGED provider
  <2>1. Moves({p}, Idle)
    BY <1>3, IdleFits, WritingMoves
  <2> QED
    BY <1>1, <1>2, <1>3, <2>1, WalletRests, OrderKeeps
<1>4. ASSUME NEW r \in Ref, provider[r] = "none", provider' = [provider EXCEPT ![r] = "open"],
             GoesWriting(p, [pc |-> "record", order |-> o, ref |-> r, left |-> {"attempt", "session"}], o, FALSE)
      PROVE  IInv'
  <2> DEFINE next == [pc |-> "record", order |-> o, ref |-> r, left |-> {"attempt", "session"}]
  <2>1. next \in Handling /\ Fits(next) /\ next.pc = "record" /\ next.ref = r
    BY <1>1 DEF Handling, OnRetry, Fits
  <2>2. GoesWriting(p, next, o, FALSE)
    BY <1>4
  <2> HIDE DEF next
  <2>3. Moves({p}, next)
    BY <2>1, <2>2, WritingMoves
  <2>4. provider' \in [Ref -> {"none", "open", "completed", "wrongAmount", "failed"}]
        /\ provider'[r] # "none" /\ \A x \in Ref \ {r} : provider'[x] = provider[x]
    BY <1>2, <1>4
  <2>5. Grows
    BY <1>1, <1>4, <2>4 DEF Grows, wallet
  <2>6. attempt[r].order = NoRef
    BY <1>4 DEF IInv, AttemptsFit
  <2>7. \A q \in Process : process[q].pc = "record" => process[q].ref # r
    BY <1>4 DEF IInv, RecordsFit
  <2>8. RecordsFit'
    BY <1>1, <2>1, <2>3, <2>4, <2>5, <2>6, <2>7, RecordingStep
  <2>9. HandlersFit'
    BY <2>1, <2>3, <2>5, HandlersStep
  <2>10. MoneyCameIn' /\ SalesFit' /\ RefundsFit' /\ BalanceFits'
    BY <1>1, <2>5, WalletRests, MoneyKept
  <2>11. AttemptsFit'
    BY <1>1, <2>5 DEF IInv, AttemptsFit, Grows
  <2>12. TypeOK'
    BY <1>1, <2>3, <2>4, Types, TypesBack DEF IInv, wallet, Moves
  <2> QED
    BY <2>8, <2>9, <2>10, <2>11, <2>12 DEF IInv
<1> QED
  BY <1>3, <1>4 DEF OpenSession

LEMMA RecordedFits ==
  ASSUME IInv, NEW p \in Process, process[p].pc = "record", NEW write
  PROVE  /\ Recorded(p, write) \in Handling /\ Fits(Recorded(p, write))
         /\ \/ Recorded(p, write).pc # "record"
            \/ /\ Recorded(p, write).pc = "record" /\ Recorded(p, write).ref = process[p].ref
               /\ Recorded(p, write).left = process[p].left \ {write}
<1> DEFINE left == process[p].left \ {write}
           next == [process[p] EXCEPT !.left = left]
<1>1. process[p] \in [pc : {"record"}, order : Order, ref : Ref, left : SUBSET {"attempt", "session"}]
  BY HandlerFields
<1>2. left \in SUBSET {"attempt", "session"}
  BY <1>1
<1>3. Recorded(p, write) = Idle \/ Recorded(p, write) = next
  BY DEF Recorded
<1> HIDE DEF left
<1>4. next \in [pc : {"record"}, order : Order, ref : Ref, left : SUBSET {"attempt", "session"}]
      /\ next.ref = process[p].ref /\ next.left = left
  BY <1>1, <1>2
<1> HIDE DEF next
<1>5. next \in Handling /\ Fits(next) /\ next.pc = "record"
  BY <1>4 DEF Handling, OnRetry, Fits
<1>6. Idle.pc # "record"
  BY DEF Idle
<1> QED
  BY <1>3, <1>4, <1>5, <1>6, IdleFits DEF left

LEMMA RecordAttemptKeeps ==
  ASSUME IInv, NEW p \in Process, RecordAttempt(p)
  PROVE  IInv'
<1> DEFINE o == process[p].order
           r == process[p].ref
           new == [order |-> o, status |-> "pending", active |-> TRUE]
<1>1. process[p].pc = "record" /\ "attempt" \in process[p].left
      /\ UNCHANGED <<mode, order, provider, refund, wallet, crashes>>
  BY DEF RecordAttempt
<1>2. process[p] \in [pc : {"record"}, order : Order, ref : Ref, left : SUBSET {"attempt", "session"}]
  BY <1>1, HandlerFields
<1>3. o \in Order /\ r \in Ref /\ attempt[r].order = NoRef /\ provider[r] # "none"
  BY <1>1, <1>2 DEF IInv, RecordsFit
<1>4. attempt \in AttemptType
  BY Types DEF IInv
<1>5. PICK next \in Handling :
        /\ Goes(p, next) /\ Fits(next)
        /\ \/ next.pc # "record"
           \/ next.pc = "record" /\ next.ref = r /\ next.left = process[p].left \ {"attempt"}
  BY <1>1, RecordedFits DEF RecordAttempt
<1>6. Moves({p}, next)
  BY <1>5, GoesMoves
<1>7. attempt' = attempt \/ attempt' = [attempt EXCEPT ![r] = new]
  BY DEF RecordAttempt
<1>8. new \in [order : Order \cup {NoRef}, status : AttemptStatus, active : BOOLEAN]
      /\ new.status = "pending" /\ new.order = o
  BY <1>3 DEF AttemptStatus
<1> HIDE DEF new
<1>9. attempt' \in AttemptType /\ \A x \in Ref \ {r} : attempt'[x] = attempt[x]
  BY <1>3, <1>4, <1>7, <1>8 DEF AttemptType
<1>10. attempt'[r] = attempt[r] \/ (attempt'[r].status = "pending" /\ attempt'[r].order # NoRef)
  BY <1>3, <1>4, <1>7, <1>8, RefAssumption DEF AttemptType
<1>11. Grows
  BY <1>1, <1>3, <1>9 DEF Grows, wallet
<1>12. HandlersFit'
  BY <1>5, <1>6, <1>11, HandlersStep
<1>13. \A q \in Process \ {p} : process[q].pc = "record" => process[q].ref # r /\ process[q].ref \in Ref
  BY <1>1, HandlerFields DEF IInv, RecordsFit
<1>14. RecordsFit'
  BY <1>1, <1>3, <1>5, <1>6, <1>9, <1>11, <1>13, RecordingStep
<1>15. \A x \in Ref : attempt'[x].status = "paid" =>
          attempt[x].status = "paid" /\ attempt'[x].order = attempt[x].order
  BY <1>9, <1>10
<1>16. MoneyCameIn' /\ SalesFit' /\ RefundsFit' /\ BalanceFits'
  BY <1>1, <1>11, <1>15, WalletRests, MoneyKept
<1>17. AttemptsFit'
  BY <1>1, <1>3, <1>9, <1>10 DEF IInv, AttemptsFit
<1>18. TypeOK'
  BY <1>1, <1>6, <1>9, Types, TypesBack DEF IInv, wallet, Moves
<1> QED
  BY <1>12, <1>14, <1>16, <1>17, <1>18 DEF IInv

LEMMA RecordSessionKeeps ==
  ASSUME IInv, NEW p \in Process, RecordSession(p)
  PROVE  IInv'
<1> DEFINE o == process[p].order
           r == process[p].ref
           new == [status |-> order[o].status, pay |-> order[o].pay, session |-> r]
<1>1. process[p].pc = "record" /\ UNCHANGED <<mode, attempt, provider, refund, wallet, crashes>>
  BY DEF RecordSession
<1>2. process[p] \in [pc : {"record"}, order : Order, ref : Ref, left : SUBSET {"attempt", "session"}]
  BY <1>1, HandlerFields
<1>3. o \in Order /\ r \in Ref /\ provider[r] # "none" /\ ("attempt" \in process[p].left => attempt[r].order = NoRef)
  BY <1>1, <1>2 DEF IInv, RecordsFit
<1>4. order \in OrderType /\ order[o] \in [status : Status, pay : Pay, session : Ref \cup {NoRef}]
  BY <1>3, Types DEF IInv, OrderType
<1>5. [order[o] EXCEPT !.session = r] = new
  BY <1>4
<1>6. order' = [order EXCEPT ![o] = new]
  BY <1>5 DEF RecordSession
<1>7. order' \in OrderType /\ \A x \in Order : order'[x].pay = order[x].pay
  BY <1>3, <1>4, <1>6 DEF OrderType
<1>8. PICK next \in Handling :
        /\ Moves({p}, next) /\ Fits(next)
        /\ \/ next.pc # "record"
           \/ next.pc = "record" /\ next.ref = r /\ next.left = process[p].left \ {"session"}
  <2>1. PICK next \in Handling :
          /\ next = Recorded(p, "session") /\ Fits(next)
          /\ \/ next.pc # "record"
             \/ next.pc = "record" /\ next.ref = r /\ next.left = process[p].left \ {"session"}
    BY <1>1, RecordedFits
  <2>2. GoesWriting(p, next, o, FALSE)
    BY <2>1 DEF RecordSession
  <2> QED
    BY <2>1, <2>2, WritingMoves
<1>9. Grows
  BY <1>1 DEF Grows, wallet
<1>10. HandlersFit'
  BY <1>8, <1>9, HandlersStep
<1>11. \A q \in Process \ {p} : process[q].pc = "record" => process[q].ref # r
  BY <1>1 DEF IInv, RecordsFit
<1>12. RecordsFit'
  BY <1>1, <1>3, <1>8, <1>9, <1>11, RecordingStep
<1>13. MoneyCameIn' /\ SalesFit' /\ RefundsFit' /\ BalanceFits'
  BY <1>1, <1>7, <1>9, WalletRests, MoneyKept
<1>14. AttemptsFit'
  BY <1>1 DEF IInv, AttemptsFit
<1>15. TypeOK'
  BY <1>1, <1>7, <1>8, Types, TypesBack DEF IInv, wallet, Moves
<1> QED
  BY <1>10, <1>12, <1>13, <1>14, <1>15 DEF IInv

------------------------------------------------------------------------------
(* The settlement.  It tests nothing it writes but the SALE row, which for a
   pickup is there as soon as one attempt is paid. *)
LEMMA SettleKeeps ==
  ASSUME IInv, NEW p \in Process, Settle(p)
  PROVE  IInv'
<1> DEFINE r == process[p].ref
           o == attempt[r].order
<1>1. process[p].pc = "settle" /\ UNCHANGED <<mode, provider, refund, refunds, available, held, crashes>>
  BY DEF Settle
<1>2. process[p] \in OnAttempt /\ r \in Ref /\ attempt[r].order # NoRef /\ provider[r] = "completed"
  BY <1>1, HandlerFields DEF OnAttempt, Fits
<1>3. /\ attempt \in AttemptType /\ order \in OrderType /\ mode \in [Order -> Mode]
      /\ refund \in [Order -> {"none", "anomalous", "cancel"}]
      /\ sales \subseteq Order /\ refunds \subseteq Order /\ pending \in Int /\ crashes \in 0..MaxCrashes
      /\ available \in Nat /\ held \subseteq Order
  BY Types DEF IInv
<1>4. o \in Order /\ r \in Attempts(o)
  BY <1>2, <1>3 DEF AttemptType, Attempts
<1>5. CASE SaleBooked(o)
  <2> DEFINE next == [pc |-> "revert", ref |-> r]
  <2>1. next \in Handling /\ Fits(next) /\ next.pc # "record"
    BY <1>2 DEF Handling, OnAttempt, Fits
  <2>2. Goes(p, next) /\ UNCHANGED <<order, attempt, sales, pending>>
    BY <1>5 DEF Settle
  <2>3. UNCHANGED <<data, crashes>>
    BY <1>1, <2>2 DEF data, wallet
  <2> QED
    BY <1>3, <2>1, <2>2, <2>3, Observes
<1>6. CASE ~SaleBooked(o)
  <2>1. /\ attempt' = [attempt EXCEPT ![r].status = "paid", ![r].active = FALSE]
        /\ OrderSet(o, "LIVE", "PAID")
        /\ sales' = IF mode[o] = "pickup" THEN sales \cup {o} ELSE sales
        /\ pending' = IF mode[o] = "pickup" THEN pending + 1 ELSE pending
    BY <1>6 DEF Settle, OrderSet
  <2>2. \E walletToo : GoesWriting(p, Idle, o, walletToo)
    BY <1>6, Zenon DEF Settle
  <2>3. Moves({p}, Idle)
    BY <2>2, IdleFits, WritingMoves
  <2>4. "LIVE" \in Status /\ "PAID" \in Pay /\ "paid" \in AttemptStatus
    BY DEF Status, Pay, AttemptStatus
  <2> HIDE DEF o, r
  <2>5. order' \in OrderType /\ order'[o].pay = "PAID" /\ \A x \in Order \ {o} : order'[x].pay = order[x].pay
    BY <1>4, <2>1, <2>4, OrderWritten DEF IInv
  <2>6. /\ attempt' \in AttemptType
        /\ \A x \in Ref : attempt'[x].order = attempt[x].order
        /\ attempt'[r].status = "paid"
        /\ \A x \in Ref \ {r} : attempt'[x].status = attempt[x].status
    BY <1>2, <2>1, <2>4, AttemptWritten DEF IInv
  <2>7. /\ \A x \in Order : Attempts(x)' = Attempts(x)
        /\ \A x \in Order : Completed(x)' = Completed(x)
        /\ \A x \in Ref : Captured(x)' = Captured(x)
    BY <1>1, <2>6 DEF Attempts, Completed, Captured
  <2>8. Completed(o)
    BY <1>2, <1>4 DEF Completed
  <2>9. \A x \in Order \ {o} : \A s \in Attempts(x) : s # r
    BY <1>4 DEF Attempts
  <2>10. MoneyCameIn'
    <3> SUFFICES ASSUME NEW x \in Order
                 PROVE  /\ (x \in sales' \/ order'[x].pay = "PAID" \/ \E s \in Attempts(x)' : attempt'[s].status = "paid")
                             => Completed(x)'
                        /\ refund'[x] # "none" => (\E s \in Attempts(x) : Captured(s))'
      BY DEF MoneyCameIn, Completed
    <3>1. refund'[x] # "none" => (\E s \in Attempts(x) : Captured(s))'
      BY <1>1, <2>7 DEF IInv, MoneyCameIn, Attempts
    <3>2. CASE x = o
      BY <2>7, <2>8, <3>1, <3>2
    <3>3. CASE x # o
      <4>1. (x \in sales' => x \in sales) /\ order'[x].pay = order[x].pay
        BY <2>1, <2>5, <3>3
      <4>2. \A s \in Attempts(x) : attempt'[s].status = attempt[s].status
        BY <2>6, <2>9, <3>3 DEF Attempts
      <4>3. (x \in sales \/ order[x].pay = "PAID" \/ \E s \in Attempts(x) : attempt[s].status = "paid")
              => Completed(x)
        BY DEF IInv, MoneyCameIn, Completed
      <4> QED
        BY <2>7, <3>1, <4>1, <4>2, <4>3
    <3> QED
      BY <3>2, <3>3
  <2>11. mode[o] = "pickup" => o \notin sales
    BY <1>6 DEF SaleBooked, o, r
  <2>12. mode[o] = "pickup" => \A s \in Attempts(o) : attempt[s].status # "paid"
    BY <1>4, <2>11 DEF IInv, SalesFit
  <2>13. SalesFit'
    <3> SUFFICES ASSUME NEW x \in Order, mode[x] = "pickup"
                 PROVE  /\ order'[x].pay = "PAID" => x \in sales'
                        /\ \A s \in Attempts(x) : attempt'[s].status = "paid" =>
                             /\ x \in sales'
                             /\ \A t \in Attempts(x) : attempt'[t].status = "paid" => t = s
      BY <1>1, <2>7 DEF SalesFit
    <3>1. CASE x = o
      <4>1. \A s \in Attempts(o) : attempt'[s].status = "paid" => s = r
        BY <2>6, <2>12, <3>1 DEF Attempts
      <4> QED
        BY <2>1, <3>1, <4>1
    <3>2. CASE x # o
      <4>1. \A s \in Attempts(x) : attempt'[s].status = attempt[s].status
        BY <2>6, <2>9, <3>2 DEF Attempts
      <4> QED
        BY <2>1, <2>5, <3>2, <4>1 DEF IInv, SalesFit
    <3> QED
      BY <3>1, <3>2
  <2>14. mode[o] = "pickup" => o \notin refunds
    BY <2>11 DEF IInv, BalanceFits, WalletIsRows
  <2>15. RefundsFit'
    BY <1>1, <2>5, <2>14 DEF IInv, RefundsFit
  <2>16. BalanceFits'
    <3>1. CASE mode[o] = "pickup"
      <4>1. IsFiniteSet(sales') /\ Cardinality(sales') = Cardinality(sales) + 1
        BY <2>1, <2>11, <3>1, FS_AddElement DEF IInv, BalanceFits
      <4>2. IsFiniteSet(sales) /\ refunds \subseteq sales
        BY DEF IInv, BalanceFits, WalletIsRows
      <4>3. Cardinality(sales) \in Nat /\ Cardinality(refunds) \in Nat
        BY <4>2, FS_Subset, FS_CardinalityType
      <4>4. /\ pending + available = Cardinality(sales) - Cardinality(refunds)
            /\ available <= Cardinality(sales \ held)
        BY DEF IInv, BalanceFits, WalletIsRows
      <4>5. pending' + available' = Cardinality(sales') - Cardinality(refunds')
        BY <1>1, <1>3, <2>1, <3>1, <4>1, <4>3, <4>4
      <4>6. IsFiniteSet(sales' \ held) /\ sales \ held \subseteq sales' \ held
        BY <2>1, <3>1, <4>1, FS_Difference
      <4>7. /\ Cardinality(sales \ held) <= Cardinality(sales' \ held)
            /\ Cardinality(sales \ held) \in Nat /\ Cardinality(sales' \ held) \in Nat
        BY <4>6, FS_Subset, FS_CardinalityType
      <4>8. available <= Cardinality(sales' \ held)
        BY <1>3, <4>4, <4>7
      <4> QED
        BY <1>1, <2>1, <3>1, <4>1, <4>2, <4>5, <4>8 DEF BalanceFits, WalletIsRows
    <3>2. CASE mode[o] # "pickup"
      BY <1>1, <2>1, <3>2 DEF IInv, BalanceFits, WalletIsRows
    <3> QED
      BY <3>1, <3>2
  <2>17. sales' \subseteq Order /\ pending' \in Int /\ sales \subseteq sales'
    BY <1>3, <1>4, <2>1
  <2>18. \A x \in Ref : attempt[x].order = NoRef => attempt'[x].status = attempt[x].status
    BY <1>2, <2>6 DEF r
  <2> QED
    BY <1>1, <1>3, <2>3, <2>5, <2>6, <2>10, <2>13, <2>15, <2>16, <2>17, <2>18, IdleFits, Writes
<1> QED
  BY <1>5, <1>6

------------------------------------------------------------------------------
(* The refunds of an order somebody paid for.  The order has no request yet,
   so that no REFUND row was booked for it. *)
LEMMA RefundKeeps ==
  ASSUME IInv, NEW p \in Process, NEW o \in Order, NEW final \in Status, SaleMade(o),
         Refunds(p, o, final), UNCHANGED <<mode, attempt, provider, crashes>>
  PROVE  IInv'
<1>1. /\ attempt \in AttemptType /\ order \in OrderType /\ crashes \in 0..MaxCrashes
      /\ refund \in [Order -> {"none", "anomalous", "cancel"}]
      /\ sales \subseteq Order /\ refunds \subseteq Order /\ pending \in Int
      /\ available \in Nat /\ held \subseteq Order
  BY Types DEF IInv
<1>2. CASE refund[o] # "none"
  <2>1. Goes(p, Idle) /\ UNCHANGED <<order, refund, wallet>>
    BY <1>2 DEF Refunds
  <2>2. UNCHANGED <<data, crashes>>
    BY <2>1 DEF data, wallet
  <2> QED
    BY <1>1, <2>1, <2>2, IdleFits, Observes
<1>3. CASE refund[o] = "none"
  <2>1. /\ OrderSet(o, final, "REFUND_PENDING") /\ ProcessRefundRequest(o)
    BY <1>3 DEF Refunds, OrderSet
  <2>2. \E walletToo : GoesWriting(p, Idle, o, walletToo)
    BY <1>3, Zenon DEF Refunds
  <2>3. Moves({p}, Idle)
    BY <2>2, IdleFits, WritingMoves
  <2>4. order' \in OrderType /\ order'[o].pay = "REFUND_PENDING"
        /\ \A x \in Order \ {o} : order'[x].pay = order[x].pay
    BY <2>1, OrderWritten DEF IInv, Pay
  <2>5. \A x \in Order : order'[x].pay = "PAID" => order[x].pay = "PAID" /\ x # o
    BY <2>4
  <2>6. /\ refund' = [refund EXCEPT ![o] = "cancel"] /\ UNCHANGED <<sales, available, held>>
        /\ refunds' = IF o \in sales THEN refunds \cup {o} ELSE refunds
        /\ pending' = IF o \in sales THEN pending - 1 ELSE pending
    BY <2>1 DEF ProcessRefundRequest
  <2>7. refund' \in [Order -> {"none", "anomalous", "cancel"}] /\ refund'[o] = "cancel"
        /\ \A x \in Order \ {o} : refund'[x] = refund[x]
    BY <1>1, <2>6
  <2>8. /\ \A x \in Order : Attempts(x)' = Attempts(x)
        /\ \A x \in Order : Completed(x)' = Completed(x)
        /\ \A x \in Ref : Captured(x)' = Captured(x)
    BY DEF Attempts, Completed, Captured
  <2>9. Completed(o) /\ \E s \in Attempts(o) : Captured(s)
    BY DEF SaleMade, Completed, Captured
  <2>10. MoneyCameIn'
    <3> SUFFICES ASSUME NEW x \in Order
                 PROVE  /\ (x \in sales' \/ order'[x].pay = "PAID" \/ \E s \in Attempts(x)' : attempt'[s].status = "paid")
                             => Completed(x)'
                        /\ refund'[x] # "none" => (\E s \in Attempts(x) : Captured(s))'
      BY DEF MoneyCameIn, Completed
    <3>1. (x \in sales \/ order[x].pay = "PAID" \/ \E s \in Attempts(x) : attempt[s].status = "paid")
            => Completed(x)
      BY DEF IInv, MoneyCameIn, Completed
    <3>2. refund'[x] # "none" => \E s \in Attempts(x) : Captured(s)
      BY <2>7, <2>9 DEF IInv, MoneyCameIn
    <3> QED
      BY <2>5, <2>6, <2>8, <3>1, <3>2 DEF Attempts
  <2>11. SalesFit'
    BY <2>5, <2>6, <2>8 DEF IInv, SalesFit
  <2>12. o \notin refunds
    BY <1>3 DEF IInv, RefundsFit
  <2>13. RefundsFit'
    <3> SUFFICES ASSUME NEW x \in Order
                 PROVE  /\ x \in refunds' => refund'[x] = "cancel"
                        /\ mode[x] = "pickup" /\ refund'[x] = "cancel" => x \in refunds'
                        /\ mode[x] = "pickup" /\ x \in refunds' => order'[x].pay # "PAID"
      BY DEF RefundsFit
    <3>1. CASE x = o
      BY <2>4, <2>6, <2>7, <3>1 DEF SaleMade
    <3>2. CASE x # o
      BY <2>5, <2>6, <2>7, <3>2 DEF IInv, RefundsFit
    <3> QED
      BY <3>1, <3>2
  <2>14. BalanceFits'
    <3>1. CASE o \in sales
      <4>1. IsFiniteSet(sales) /\ refunds \subseteq sales /\ IsFiniteSet(refunds)
        BY FS_Subset DEF IInv, BalanceFits, WalletIsRows
      <4>2. Cardinality(refunds') = Cardinality(refunds) + 1
        BY <2>6, <2>12, <3>1, <4>1, FS_AddElement
      <4>3. Cardinality(sales) \in Nat /\ Cardinality(refunds) \in Nat
        BY <4>1, FS_CardinalityType
      <4>4. /\ pending + available = Cardinality(sales) - Cardinality(refunds)
            /\ available <= Cardinality(sales \ held)
        BY DEF IInv, BalanceFits, WalletIsRows
      <4>5. pending' + available' = Cardinality(sales') - Cardinality(refunds')
        BY <1>1, <2>6, <3>1, <4>2, <4>3, <4>4
      <4>6. refunds' \subseteq sales'
        BY <2>6, <3>1, <4>1
      <4> QED
        BY <2>6, <4>1, <4>4, <4>5, <4>6 DEF BalanceFits, WalletIsRows
    <3>2. CASE o \notin sales
      BY <2>6, <3>2 DEF IInv, BalanceFits, WalletIsRows
    <3> QED
      BY <3>1, <3>2
  <2>15. refunds' \subseteq Order /\ pending' \in Int
    BY <1>1, <2>6
  <2> QED
    BY <1>1, <2>3, <2>4, <2>6, <2>7, <2>10, <2>11, <2>13, <2>14, <2>15, IdleFits, Writes
<1> QED
  BY <1>2, <1>3

LEMMA RefundStepKeeps ==
  ASSUME IInv, NEW p \in Process, CancelPaid(p) \/ IssueRefund(p) \/ AdminCancel(p)
  PROVE  IInv'
<1>1. process[p].order \in Order /\ Fits(process[p]) /\ {"CANCELLED", "REFUNDED"} \subseteq Status
  BY HandlerFields DEF CancelPaid, IssueRefund, AdminCancel, Status
<1>2. PICK o \in Order : o = process[p].order
  BY <1>1
<1>3. UNCHANGED <<mode, attempt, provider, crashes>>
  BY DEF CancelPaid, IssueRefund, AdminCancel
<1>4. CASE CancelPaid(p)
  BY <1>1, <1>2, <1>3, <1>4, RefundKeeps DEF CancelPaid, Fits
<1>5. CASE IssueRefund(p)
  BY <1>1, <1>2, <1>3, <1>5, RefundKeeps DEF IssueRefund, Fits
<1>6. CASE AdminCancel(p) /\ process[p].memory = "PAID"
  BY <1>1, <1>2, <1>3, <1>6, RefundKeeps DEF AdminCancel, Fits
<1>7. CASE AdminCancel(p) /\ process[p].memory # "PAID"
  <2> DEFINE pay == IF process[p].memory = "REFUND_PENDING" THEN "REFUND_PENDING" ELSE order[o].pay
  <2>1. order \in OrderType /\ order[o] \in [status : Status, pay : Pay, session : Ref \cup {NoRef}]
    BY Types DEF IInv, OrderType
  <2>2. pay \in Pay /\ (pay = "PAID" => order[o].pay = "PAID")
    BY <2>1 DEF Pay
  <2>3. OrderSet(o, "CANCELLED", pay)
    <3>1. order' = [order EXCEPT ![o].status = "CANCELLED",
                                 ![o].pay = IF process[p].memory = "REFUND_PENDING"
                                            THEN "REFUND_PENDING" ELSE @]
      BY <1>2, <1>7 DEF AdminCancel
    <3>2. [order EXCEPT ![o].status = "CANCELLED"][o].pay = order[o].pay
      BY <2>1 DEF OrderType
    <3>3. order' = [order EXCEPT ![o].status = "CANCELLED", ![o].pay = pay]
      BY <3>1, <3>2
    <3> QED
      BY <3>3 DEF OrderSet
  <2>4. GoesWriting(p, Idle, o, FALSE) /\ UNCHANGED <<refund, wallet>>
    BY <1>2, <1>7 DEF AdminCancel
  <2>5. Moves({p}, Idle)
    BY <2>4, IdleFits, WritingMoves
  <2> HIDE DEF pay
  <2>6. order' \in OrderType /\ order'[o].pay = pay /\ \A x \in Order \ {o} : order'[x].pay = order[x].pay
    BY <1>1, <2>2, <2>3, OrderWritten DEF IInv
  <2>7. \A x \in Order : order'[x].pay = "PAID" => order[x].pay = "PAID"
    BY <2>2, <2>6
  <2> QED
    BY <1>3, <2>4, <2>5, <2>6, <2>7, WalletRests, OrderKeeps
<1> QED
  BY <1>4, <1>5, <1>6, <1>7

------------------------------------------------------------------------------
LEMMA InitInv == Init => IInv
<1> SUFFICES ASSUME Init PROVE IInv
  OBVIOUS
<1>1. TypeOK
  <2>1. NoAttempt \in [order : Order \cup {NoRef}, status : AttemptStatus, active : BOOLEAN]
    BY DEF NoAttempt, AttemptStatus
  <2>2. [status |-> "PENDING_PAYMENT", pay |-> "PENDING", session |-> NoRef]
          \in [status : Status, pay : Pay, session : Ref \cup {NoRef}]
    BY DEF Status, Pay
  <2> QED
    BY <2>1, <2>2, BoundAssumption DEF Init, TypeOK
<1>2. \A r \in Ref : attempt[r].order = NoRef /\ attempt[r].status = "none"
  BY DEF Init, NoAttempt
<1>3. \A o \in Order : Attempts(o) = {}
  BY <1>2, RefAssumption DEF Attempts
<1>4. \A p \in Process : process[p] = Idle
  BY DEF Init
<1>5. AttemptsFit /\ HandlersFit /\ RecordsFit
  BY <1>2, <1>4 DEF AttemptsFit, HandlersFit, RecordsFit, Fits, Idle
<1>6. MoneyCameIn /\ SalesFit /\ RefundsFit
  BY <1>3 DEF Init, MoneyCameIn, SalesFit, RefundsFit
<1>7. IsFiniteSet({}) /\ Cardinality({}) = 0 /\ {} \ held = {}
  BY FS_EmptySet
<1>8. BalanceFits
  BY <1>7 DEF Init, BalanceFits, WalletIsRows
<1> QED
  BY <1>1, <1>5, <1>6, <1>8 DEF IInv

LEMMA NextKeeps == IInv /\ [Next]_vars => IInv'
<1> SUFFICES ASSUME IInv, [Next]_vars PROVE IInv'
  OBVIOUS
<1>1. ASSUME NEW p \in Process, Continue(p) PROVE IInv'
  BY <1>1, ReadingKeeps, AttemptStepKeeps, OrderStepKeeps, RequestRefundKeeps, OpenSessionKeeps,
     RecordAttemptKeeps, RecordSessionKeeps, SettleKeeps, RefundStepKeeps, CancelReservedKeeps
     DEF Continue
<1>2. ASSUME NEW p \in Process, Crash(p) PROVE IInv'
  BY <1>2, CrashKeeps
<1>3. ASSUME NEW p \in Request, NEW o \in Order, Start(p, o) PROVE IInv'
  BY <1>3, StartKeeps DEF Process
<1>4. ASSUME NEW r \in Ref, CustomerPays(r) PROVE IInv'
  BY <1>4, CustomerPaysKeeps
<1>5. ASSUME NEW o \in Order, Complete(o) PROVE IInv'
  BY <1>5, CompleteKeeps
<1>6. CASE UNCHANGED vars
  <2>1. UNCHANGED <<mode, order, attempt, provider, refund, wallet, process, crashes>>
    BY <1>6 DEF vars, data
  <2>2. Moves({}, Idle)
    BY <2>1, Types DEF Moves, IInv
  <2> QED
    BY <2>1, <2>2, IdleFits, WalletRests, PlainWrites, Types DEF IInv
<1> QED
  BY <1>1, <1>2, <1>3, <1>4, <1>5, <1>6, JobsKeep DEF Next

LEMMA Invariance == Spec => []IInv
BY InitInv, NextKeeps, PTL DEF Spec

(* Orders, attempts, requests, wallet and handlers keep their types. *)
THEOREM PaymentTypeCorrect == Spec => []TypeOK
<1>1. IInv => TypeOK
  BY DEF IInv
<1> QED
  BY Invariance, <1>1, PTL

(* No sale is credited, no attempt paid and no refund requested without
   money. *)
THEOREM MoneyComesFirst == Spec => []MoneyCameIn
<1>1. IInv => MoneyCameIn
  BY DEF IInv
<1> QED
  BY Invariance, <1>1, PTL

(* The two balances of the merchant hold together what the rows say, whatever
   interleaves, and no sale is made available twice. *)
THEOREM WalletBalance == Spec => []WalletIsRows
<1>1. IInv => WalletIsRows
  BY DEF IInv, BalanceFits
<1> QED
  BY Invariance, <1>1, PTL

(* A pickup order is paid by one attempt at most. *)
THEOREM PickupPaidByOne == Spec => []PaidByOne
<1>1. IInv => PaidByOne
  <2> SUFFICES ASSUME IInv, NEW o \in Order, mode[o] = "pickup"
               PROVE  Cardinality({r \in Attempts(o) : attempt[r].status = "paid"}) <= 1
    BY DEF PaidByOne
  <2> DEFINE paid == {r \in Attempts(o) : attempt[r].status = "paid"}
  <2>1. CASE paid = {}
    <3> HIDE DEF paid
    <3>1. Cardinality(paid) <= 1
      BY <2>1, FS_EmptySet
    <3> QED
      BY <3>1 DEF paid
  <2>2. CASE paid # {}
    <3>1. PICK r \in paid : TRUE
      BY <2>2
    <3>2. paid = {r}
      BY <3>1 DEF IInv, SalesFit
    <3>3. Cardinality({r}) = 1
      BY FS_Singleton
    <3> QED
      <4> HIDE DEF paid
      <4>1. Cardinality(paid) <= 1
        BY <3>2, <3>3
      <4> QED
        BY <4>1 DEF paid
  <2> QED
    BY <2>1, <2>2
<1> QED
  BY Invariance, <1>1, PTL

(* The refund of a pickup has its REFUND row, and the order is not paid
   again. *)
THEOREM RefundBooked == Spec => []RefundIsBooked
<1>1. IInv => RefundIsBooked
  BY DEF IInv, RefundsFit, RefundIsBooked
<1> QED
  BY Invariance, <1>1, PTL

==============================================================================
