--------------------------- MODULE DonationProofs ---------------------------
(***************************************************************************)
(* The charity pool for any orders, workers, amounts, targets and goals:   *)
(* the types, the ledger that ends at what the charity keeps, the pledges  *)
(* of refunded orders and the hand-over from one goal to the next.         *)
(***************************************************************************)
EXTENDS Donations, Sums

OrderStatus == {"open", "cancelled", "completed", "refunded"}
RowsDoc == [plus : Nat, minus : Nat]
PledgeDoc == [pool : Nat, outcome : {"live", "reduced", "absorbed"}]
PoolDoc ==
  [status : {"active", "funded", "complete", "archived"}, archived : BOOLEAN,
   goal : 0 .. LastGoal, amount : Nat, target : Targets \cup {Target}, from : Nat]
WorkerDoc ==
  [at : {"idle", "checked", "pooled", "rotate", "next"}, order : Order \cup {None},
   pool : Nat, target : {0, Target} \cup Targets, overflow : Nat]

Types ==
  /\ order \in [Order -> OrderStatus]
  /\ rows \in [Order -> RowsDoc]
  /\ donation \in [Order -> {None} \cup PledgeDoc]
  /\ pools \in Seq(PoolDoc)
  /\ worker \in [Worker -> WorkerDoc]
  /\ resetting \in BOOLEAN /\ interventions \in 0 .. MaxInterventions

PoolsFit ==
  /\ \A p \in DOMAIN pools : pools[p].from < p
  /\ \A p, q \in Open : p = q

Working(w) == worker[w].at \in {"pooled", "rotate", "next"}
Pledging(w) == worker[w].at \in {"checked", "pooled"}

WorkerFits(w) ==
  /\ worker[w].pool \in {0} \cup DOMAIN pools
  /\ Working(w) => worker[w].pool \in DOMAIN pools
  /\ Pledging(w) => worker[w].order \in Order /\ Delivered(worker[w].order)
  /\ worker[w].at = "next" => pools[worker[w].pool].goal # LastGoal

WorkersFit == \A w \in Worker : WorkerFits(w)

DonationsFit ==
  \A o \in Order : donation[o] # None => donation[o].pool \in DOMAIN pools /\ Delivered(o)

Shape == Types /\ PoolsFit /\ WorkersFit /\ DonationsFit

-----------------------------------------------------------------------------
(* Steps on the pools. *)

(* A pool is written by its index: everything else stays. *)
LEMMA PoolWritten ==
  ASSUME pools \in Seq(PoolDoc), NEW p \in DOMAIN pools, NEW doc \in PoolDoc,
         pools' = [pools EXCEPT ![p] = doc]
  PROVE  /\ pools' \in Seq(PoolDoc) /\ DOMAIN pools' = DOMAIN pools
         /\ Len(pools') = Len(pools)
         /\ pools'[p] = doc /\ \A q \in DOMAIN pools : q # p => pools'[q] = pools[q]
OBVIOUS

(* Every pool is rewritten at once. *)
LEMMA PoolsRewritten ==
  ASSUME NEW s \in Seq(PoolDoc), NEW f \in [DOMAIN s -> PoolDoc]
  PROVE  f \in Seq(PoolDoc) /\ DOMAIN f = DOMAIN s /\ Len(f) = Len(s)
OBVIOUS

(* A pool is opened. *)
LEMMA PoolOpened ==
  ASSUME pools \in Seq(PoolDoc), NEW doc \in PoolDoc, pools' = Append(pools, doc)
  PROVE  /\ pools' \in Seq(PoolDoc) /\ Len(pools) + 1 \in DOMAIN pools'
         /\ DOMAIN pools' = DOMAIN pools \cup {Len(pools) + 1}
         /\ Len(pools) + 1 \notin DOMAIN pools
         /\ pools'[Len(pools) + 1] = doc
         /\ \A q \in DOMAIN pools : pools'[q] = pools[q]
OBVIOUS

LEMMA Zeros == 0 \in Nat /\ 0 \in 0 .. LastGoal /\ 0 \in 0 .. MaxInterventions
BY AmountAssumption

LEMMA TargetsAreNat == {0, Target} \cup Targets \subseteq Nat
BY AmountAssumption

LEMMA NewPoolType ==
  ASSUME NEW goal \in 0 .. LastGoal, NEW n \in Nat, NEW from \in Nat
  PROVE  /\ NewPool(goal, n, from) \in PoolDoc
         /\ NewPool(goal, n, from).from = from /\ NewPool(goal, n, from).status = "active"
         /\ NewPool(goal, n, from).goal = goal /\ NewPool(goal, n, from).amount = n
         /\ NewPool(goal, n, from).archived = FALSE
BY AmountAssumption DEF NewPool, PoolDoc

LEMMA PoolsStay ==
  ASSUME PoolsFit, DOMAIN pools' = DOMAIN pools,
         \A p \in DOMAIN pools : pools'[p].from = pools[p].from /\ (p \in Open' => p \in Open)
  PROVE  PoolsFit'
<1>1. \A p \in Open' : p \in DOMAIN pools
  BY DEF Open
<1> QED
  BY <1>1 DEF PoolsFit

LEMMA OpenedFits ==
  ASSUME Types, PoolsFit, Open = {}, NEW doc \in PoolDoc, doc.from \in 0 .. Len(pools),
         pools' = Append(pools, doc)
  PROVE  PoolsFit'
<1>1. /\ DOMAIN pools' = DOMAIN pools \cup {Len(pools) + 1}
      /\ pools'[Len(pools) + 1] = doc
      /\ \A q \in DOMAIN pools : pools'[q] = pools[q]
  BY PoolOpened DEF Types
<1>2. \A p \in Open' : p = Len(pools) + 1
  BY <1>1 DEF Open
<1>3. Len(pools) \in Nat /\ doc.from < Len(pools) + 1
  BY DEF Types
<1> QED
  BY <1>1, <1>2, <1>3 DEF PoolsFit

(* What a step may do to the workers, the pools and the donations. *)
LEMMA ShapeStands ==
  ASSUME Shape, Types', PoolsFit',
         \A p \in DOMAIN pools : p \in DOMAIN pools' /\ pools'[p].goal = pools[p].goal,
         \A o \in Order : Delivered(o) => Delivered(o)',
         \A w \in Worker : worker'[w] = worker[w] \/ worker'[w] = Idle \/ WorkerFits(w)',
         \A o \in Order : donation'[o] # None =>
            \/ donation[o] # None /\ donation'[o].pool = donation[o].pool
            \/ donation'[o].pool \in DOMAIN pools' /\ Delivered(o)'
  PROVE  Shape'
<1>1. ASSUME NEW w \in Worker PROVE WorkerFits(w)'
  <2>1. CASE worker'[w] = worker[w]
    <3>1. WorkerFits(w)
      BY DEF Shape, WorkersFit
    <3> QED
      BY <2>1, <3>1 DEF WorkerFits, Working, Pledging, Delivered
  <2>2. CASE worker'[w] = Idle
    BY <2>2 DEF WorkerFits, Working, Pledging, Idle
  <2> QED
    BY <2>1, <2>2
<1>2. ASSUME NEW o \in Order, donation'[o] # None
      PROVE  donation'[o].pool \in DOMAIN pools' /\ Delivered(o)'
  BY <1>2 DEF Shape, DonationsFit
<1> QED
  BY <1>1, <1>2 DEF Shape, WorkersFit, DonationsFit

LEMMA InitShape == Init => Shape
<1> SUFFICES ASSUME Init PROVE Shape
  OBVIOUS
<1>1. NewPool(0, 0, 0) \in PoolDoc /\ NewPool(0, 0, 0).from = 0
  <2> QED
    BY Zeros, NewPoolType, Zenon
<1>2. pools \in Seq(PoolDoc) /\ DOMAIN pools = {1} /\ pools[1] = NewPool(0, 0, 0)
  BY <1>1 DEF Init
<1>3. Types
  <2>1. rows \in [Order -> RowsDoc]
    BY AmountAssumption DEF Init, RowsDoc
  <2>2. worker \in [Worker -> WorkerDoc]
    BY DEF Init, WorkerDoc, Idle
  <2>3. order \in [Order -> OrderStatus] /\ donation \in [Order -> {None} \cup PledgeDoc]
    BY DEF Init, OrderStatus
  <2>4. resetting \in BOOLEAN /\ interventions \in 0 .. MaxInterventions
    BY Zeros DEF Init
  <2> QED
    BY <1>2, <2>1, <2>2, <2>3, <2>4 DEF Types
<1>4. PoolsFit
  BY <1>1, <1>2 DEF PoolsFit, Open
<1>5. WorkersFit /\ DonationsFit
  BY DEF Init, WorkersFit, WorkerFits, Working, Pledging, Idle, DonationsFit
<1> QED
  BY <1>3, <1>4, <1>5 DEF Shape

(* An order changes its status, its rows too. *)
LEMMA OrderShape ==
  ASSUME Shape, NEW o \in Order, NEW st \in OrderStatus,
         order' = [order EXCEPT ![o] = st], Delivered(o) => st \in {"completed", "refunded"},
         rows' \in [Order -> RowsDoc], UNCHANGED <<donation, pools, worker, adminVars>>
  PROVE  Shape'
<1>1. Types'
  BY DEF Shape, Types, adminVars
<1>2. PoolsFit'
  BY DEF Shape, PoolsFit, Open
<1>3. \A p \in Order : Delivered(p) => Delivered(p)'
  BY DEF Shape, Types, Delivered
<1> QED
  BY <1>1, <1>2, <1>3, ShapeStands

(* What one row of bookings becomes. *)
LEMMA RowsWritten ==
  ASSUME rows \in [Order -> RowsDoc], NEW o \in Order, NEW n \in Nat
  PROVE  /\ [rows EXCEPT ![o].minus = @ + n] \in [Order -> RowsDoc]
         /\ [rows EXCEPT ![o].minus = @ + n][o]
              = [plus |-> rows[o].plus, minus |-> rows[o].minus + n]
         /\ \A p \in Order \ {o} : [rows EXCEPT ![o].minus = @ + n][p] = rows[p]
         /\ [rows EXCEPT ![o].plus = @ + n] \in [Order -> RowsDoc]
         /\ [rows EXCEPT ![o].plus = @ + n][o]
              = [plus |-> rows[o].plus + n, minus |-> rows[o].minus]
         /\ \A p \in Order \ {o} : [rows EXCEPT ![o].plus = @ + n][p] = rows[p]
BY DEF RowsDoc

LEMMA ReversedType ==
  ASSUME rows \in [Order -> RowsDoc], NEW o \in Order
  PROVE  BookingsReversed(o) \in [Order -> RowsDoc]
<1>1. rows[o].plus \in Nat
  BY DEF RowsDoc
<1> QED
  BY <1>1, RowsWritten DEF BookingsReversed

(* A worker takes a step; nothing else changes but what the caller says. *)
LEMMA WorkerShape ==
  ASSUME Shape, NEW w \in Worker, NEW doc \in WorkerDoc,
         worker' = [worker EXCEPT ![w] = doc], WorkerFits(w)',
         UNCHANGED <<order, rows, donation, pools, adminVars>>
  PROVE  Shape'
<1>1. Types'
  BY DEF Shape, Types, adminVars
<1>2. PoolsFit'
  BY DEF Shape, PoolsFit, Open
<1>3. \A v \in Worker : worker'[v] = worker[v] \/ worker'[v] = Idle \/ WorkerFits(v)'
  BY DEF Shape, Types
<1>4. \A p \in Order : Delivered(p) => Delivered(p)'
  BY DEF Delivered
<1> QED
  BY <1>1, <1>2, <1>3, <1>4, ShapeStands

LEMMA IdleType == Idle \in WorkerDoc
BY DEF Idle, WorkerDoc

LEMMA IdleFits ==
  ASSUME NEW w \in Worker, worker'[w] = Idle
  PROVE  WorkerFits(w)'
BY DEF WorkerFits, Working, Pledging, Idle

(* One pool is written: amount, target or status, never goal or origin, and
   it is not opened again. *)
LEMMA WrittenFits ==
  ASSUME Types, PoolsFit, NEW p \in DOMAIN pools, NEW doc \in PoolDoc,
         pools' = [pools EXCEPT ![p] = doc],
         doc.from = pools[p].from, doc.goal = pools[p].goal,
         doc.archived = pools[p].archived, doc.status = "active" => pools[p].status = "active"
  PROVE  /\ PoolsFit' /\ pools' \in Seq(PoolDoc) /\ DOMAIN pools' = DOMAIN pools
         /\ \A q \in DOMAIN pools : pools'[q].goal = pools[q].goal
<1>1. /\ pools' \in Seq(PoolDoc) /\ DOMAIN pools' = DOMAIN pools
      /\ pools'[p] = doc /\ \A q \in DOMAIN pools : q # p => pools'[q] = pools[q]
  BY PoolWritten DEF Types
<1>2. \A q \in DOMAIN pools : pools'[q].from = pools[q].from /\ (q \in Open' => q \in Open)
  BY <1>1 DEF Open
<1>3. PoolsFit'
  BY <1>1, <1>2, PoolsStay
<1> QED
  BY <1>1, <1>3

(* The fields of a pool one at a time. *)
LEMMA PoolFields ==
  ASSUME Types, NEW p \in DOMAIN pools, NEW n \in Nat, NEW t \in Targets \cup {Target}
  PROVE  LET d == pools[p] IN
         /\ d \in PoolDoc
         /\ [d EXCEPT !.amount = n] \in PoolDoc
         /\ [d EXCEPT !.amount = n].from = d.from /\ [d EXCEPT !.amount = n].goal = d.goal
         /\ [d EXCEPT !.amount = n].archived = d.archived
         /\ [d EXCEPT !.amount = n].status = d.status
         /\ [d EXCEPT !.amount = n].amount = n
         /\ [d EXCEPT !.target = t] \in PoolDoc
         /\ [d EXCEPT !.target = t].from = d.from /\ [d EXCEPT !.target = t].goal = d.goal
         /\ [d EXCEPT !.target = t].archived = d.archived
         /\ [d EXCEPT !.target = t].status = d.status
<1>1. pools[p] \in PoolDoc
  BY DEF Types
<1> QED
  BY <1>1 DEF PoolDoc

(* The pools change, the orders and workers do not. *)
LEMMA PoolsShape ==
  ASSUME Shape, PoolsFit', pools' \in Seq(PoolDoc),
         \A p \in DOMAIN pools : p \in DOMAIN pools' /\ pools'[p].goal = pools[p].goal,
         resetting' \in BOOLEAN, interventions' \in 0 .. MaxInterventions,
         UNCHANGED <<order, rows, donation, worker>>
  PROVE  Shape'
<1>1. Types'
  BY DEF Shape, Types
<1>2. \A p \in Order : Delivered(p) => Delivered(p)'
  BY DEF Delivered
<1> QED
  BY <1>1, <1>2, ShapeStands

(* Opening a pool: of the first goal by a reader or by the reset, of the next
   goal by a rotation. *)
LEMMA OpeningShape ==
  ASSUME Shape, Open = {}, pools' = Append(pools, NewPool(0, 0, 0)),
         resetting' \in BOOLEAN, interventions' \in 0 .. MaxInterventions,
         UNCHANGED <<order, rows, donation, worker>>
  PROVE  Shape'
<1> DEFINE doc == NewPool(0, 0, 0)
<1>1. doc \in PoolDoc /\ doc.from = 0
  BY Zeros, NewPoolType, Zenon
<1> HIDE DEF doc
<1>2. doc.from \in 0 .. Len(pools) /\ pools \in Seq(PoolDoc)
  BY <1>1 DEF Shape, Types
<1>3. pools' = Append(pools, doc)
  BY DEF doc
<1>4. PoolsFit'
  BY <1>1, <1>2, <1>3, OpenedFits DEF Shape
<1>5. pools' \in Seq(PoolDoc) /\ \A p \in DOMAIN pools : p \in DOMAIN pools' /\ pools'[p] = pools[p]
  BY <1>1, <1>2, <1>3, PoolOpened
<1> QED
  BY <1>4, <1>5, PoolsShape

LEMMA ReverseShape ==
  ASSUME Shape, NEW o \in Order, ReverseForOrder(o)
  PROVE  Shape'
<1>1. /\ order' = order /\ worker' = worker /\ UNCHANGED adminVars
      /\ rows \in [Order -> RowsDoc] /\ donation \in [Order -> {None} \cup PledgeDoc]
      /\ order \in [Order -> OrderStatus] /\ pools \in Seq(PoolDoc)
  BY DEF ReverseForOrder, Shape, Types
<1>2. \A p \in Order : Delivered(p) => Delivered(p)'
  BY <1>1 DEF Delivered
<1>3. CASE donation[o] = None \/ donation[o].outcome # "live"
  <2>1. UNCHANGED <<donation, pools, rows>>
    BY <1>3 DEF ReverseForOrder
  <2> QED
    BY <1>1, <2>1, PoolsShape DEF Shape, PoolsFit, Open, Types, adminVars
<1>4. CASE ~(donation[o] = None \/ donation[o].outcome # "live")
  <2> DEFINE p == donation[o].pool
  <2>1. p \in DOMAIN pools /\ donation[o] \in PledgeDoc /\ Amount[o] \in Nat
    BY <1>1, <1>4, AmountAssumption DEF Shape, DonationsFit
  <2>2. ASSUME NEW kept \in Nat PROVE Adjusted(o, kept) \in [Order -> RowsDoc]
    <3>1. rows[o].plus \in Nat /\ rows[o].minus \in Nat /\ Net(o) \in Int
      BY <1>1 DEF RowsDoc, Net
    <3>2. CASE kept >= Net(o)
      <4>1. kept - Net(o) \in Nat
        BY <3>1, <3>2
      <4> QED
        BY <1>1, <3>2, <4>1, RowsWritten DEF Adjusted
    <3>3. CASE ~(kept >= Net(o))
      <4>1. Net(o) - kept \in Nat
        BY <3>1, <3>3
      <4> QED
        BY <1>1, <3>3, <4>1, RowsWritten DEF Adjusted
    <3> QED
      BY <3>2, <3>3
  <2>3. ASSUME NEW out \in {"reduced", "absorbed"},
               donation' = [donation EXCEPT ![o].outcome = out]
        PROVE  /\ donation' \in [Order -> {None} \cup PledgeDoc]
               /\ \A q \in Order : donation'[q] # None =>
                     donation[q] # None /\ donation'[q].pool = donation[q].pool
    <3>1. [donation[o] EXCEPT !.outcome = out] \in PledgeDoc
            /\ [donation[o] EXCEPT !.outcome = out].pool = donation[o].pool
      BY <2>1 DEF PledgeDoc
    <3> QED
      BY <1>1, <1>4, <2>3, <3>1
  <2>4. CASE Reversible(o)
    <3>1. /\ pools' = [pools EXCEPT ![p].amount = @ - Amount[o]]
          /\ donation' = [donation EXCEPT ![o].outcome = "reduced"]
          /\ rows' = Adjusted(o, 0)
      BY <1>4, <2>4 DEF ReverseForOrder
    <3> HIDE DEF p
    <3>2. pools[p].amount - Amount[o] \in Nat
      <4>1. pools[p] \in PoolDoc /\ pools[p].amount >= Amount[o]
        BY <1>1, <2>1, <2>4 DEF Reversible, p
      <4> QED
        BY <2>1, <4>1 DEF PoolDoc
    <3> DEFINE n == pools[p].amount - Amount[o]
               doc == [pools[p] EXCEPT !.amount = n]
    <3>3. pools' = [pools EXCEPT ![p] = doc]
      BY <3>1
    <3> HIDE DEF n
    <3>4. n \in Nat
      BY <3>2 DEF n
    <3>5. Target \in Targets \cup {Target} /\ Types
      BY DEF Shape
    <3>6. /\ doc \in PoolDoc /\ doc.from = pools[p].from /\ doc.goal = pools[p].goal
          /\ doc.archived = pools[p].archived /\ doc.status = pools[p].status
      BY <2>1, <3>4, <3>5, PoolFields
    <3> HIDE DEF doc
    <3>7. /\ PoolsFit' /\ pools' \in Seq(PoolDoc) /\ DOMAIN pools' = DOMAIN pools
          /\ \A q \in DOMAIN pools : pools'[q].goal = pools[q].goal
      BY <2>1, <3>3, <3>6, WrittenFits DEF Shape
    <3>8. Types'
      BY <1>1, <2>2, <2>3, <3>1, <3>7 DEF Shape, Types, adminVars
    <3> QED
      BY <1>1, <1>2, <2>3, <3>1, <3>7, <3>8, ShapeStands
  <2>5. CASE ~Reversible(o)
    <3>1. /\ pools' = pools
          /\ donation' = [donation EXCEPT ![o].outcome = "absorbed"]
          /\ rows' = Adjusted(o, Amount[o])
      BY <1>4, <2>5 DEF ReverseForOrder
    <3>2. Types'
      BY <1>1, <2>1, <2>2, <2>3, <3>1 DEF Shape, Types, adminVars
    <3>3. PoolsFit'
      BY <3>1 DEF Shape, PoolsFit, Open
    <3> QED
      BY <1>1, <1>2, <2>3, <3>1, <3>2, <3>3, ShapeStands
  <2> QED
    BY <2>4, <2>5
<1> QED
  BY <1>3, <1>4

(* The fields of a worker's delivery one at a time, and two at a time. *)
Delivery(a, o, p, t, x) == [at |-> a, order |-> o, pool |-> p, target |-> t, overflow |-> x]

LEMMA DeliveryFields ==
  ASSUME NEW a, NEW o, NEW p, NEW t, NEW x
  PROVE  LET d == Delivery(a, o, p, t, x) IN
         /\ d.at = a /\ d.order = o /\ d.pool = p /\ d.target = t /\ d.overflow = x
         /\ d = [at |-> d.at, order |-> d.order, pool |-> d.pool,
                 target |-> d.target, overflow |-> d.overflow]
BY DEF Delivery

LEMMA WorkerRead ==
  ASSUME NEW d \in WorkerDoc
  PROVE  d = Delivery(d.at, d.order, d.pool, d.target, d.overflow)
BY DEF Delivery, WorkerDoc

LEMMA SetAt ==
  ASSUME NEW a, NEW o, NEW p, NEW t, NEW x, NEW y, NEW d, d = Delivery(a, o, p, t, x)
  PROVE  [d EXCEPT !.at = y] = Delivery(y, o, p, t, x)
BY DEF Delivery

LEMMA SetOrder ==
  ASSUME NEW a, NEW o, NEW p, NEW t, NEW x, NEW y, NEW d, d = Delivery(a, o, p, t, x)
  PROVE  [d EXCEPT !.order = y] = Delivery(a, y, p, t, x)
BY DEF Delivery

LEMMA SetPool ==
  ASSUME NEW a, NEW o, NEW p, NEW t, NEW x, NEW y, NEW d, d = Delivery(a, o, p, t, x)
  PROVE  [d EXCEPT !.pool = y] = Delivery(a, o, y, t, x)
BY DEF Delivery

LEMMA SetTarget ==
  ASSUME NEW a, NEW o, NEW p, NEW t, NEW x, NEW y, NEW d, d = Delivery(a, o, p, t, x)
  PROVE  [d EXCEPT !.target = y] = Delivery(a, o, p, y, x)
BY DEF Delivery

LEMMA SetOverflow ==
  ASSUME NEW a, NEW o, NEW p, NEW t, NEW x, NEW y, NEW d, d = Delivery(a, o, p, t, x)
  PROVE  [d EXCEPT !.overflow = y] = Delivery(a, o, p, t, y)
BY DEF Delivery

\* One worker's delivery is written field by field.
LEMMA PoolTaken ==
  ASSUME worker \in [Worker -> WorkerDoc], NEW w \in Worker, NEW a, NEW p
  PROVE  [worker EXCEPT ![w].at = a, ![w].pool = p]
           = [worker EXCEPT ![w] = Delivery(a, worker[w].order, p, worker[w].target,
                                            worker[w].overflow)]
<1> DEFINE d == worker[w]
           one == [d EXCEPT !.at = a]
           two == [one EXCEPT !.pool = p]
<1>1. d = Delivery(d.at, d.order, d.pool, d.target, d.overflow)
  BY WorkerRead
<1>2. one = Delivery(a, d.order, d.pool, d.target, d.overflow)
  BY <1>1, SetAt
<1> HIDE DEF one
<1>3. two = Delivery(a, d.order, p, d.target, d.overflow)
  BY <1>2, SetPool
<1>4. [worker EXCEPT ![w].at = a, ![w].pool = p] = [worker EXCEPT ![w] = two]
  BY DEF one
<1> HIDE DEF two
<1> QED
  BY <1>3, <1>4

LEMMA TargetTaken ==
  ASSUME worker \in [Worker -> WorkerDoc], NEW w \in Worker, NEW a, NEW t
  PROVE  [worker EXCEPT ![w].at = a, ![w].target = t]
           = [worker EXCEPT ![w] = Delivery(a, worker[w].order, worker[w].pool, t,
                                            worker[w].overflow)]
<1> DEFINE d == worker[w]
           one == [d EXCEPT !.at = a]
           two == [one EXCEPT !.target = t]
<1>1. d = Delivery(d.at, d.order, d.pool, d.target, d.overflow)
  BY WorkerRead
<1>2. one = Delivery(a, d.order, d.pool, d.target, d.overflow)
  BY <1>1, SetAt
<1> HIDE DEF one
<1>3. two = Delivery(a, d.order, d.pool, t, d.overflow)
  BY <1>2, SetTarget
<1>4. [worker EXCEPT ![w].at = a, ![w].target = t] = [worker EXCEPT ![w] = two]
  BY DEF one
<1> HIDE DEF two
<1> QED
  BY <1>3, <1>4

Spilling(w, a, x) == [worker EXCEPT ![w].at = a, ![w].overflow = x]

LEMMA OverflowTaken ==
  ASSUME worker \in [Worker -> WorkerDoc], NEW w \in Worker, NEW a, NEW x
  PROVE  Spilling(w, a, x)
           = [worker EXCEPT ![w] = Delivery(a, worker[w].order, worker[w].pool,
                                            worker[w].target, x)]
<1> DEFINE d == worker[w]
           one == [d EXCEPT !.at = a]
           two == [one EXCEPT !.overflow = x]
<1>1. d = Delivery(d.at, d.order, d.pool, d.target, d.overflow)
  BY WorkerRead
<1>2. one = Delivery(a, d.order, d.pool, d.target, d.overflow)
  BY <1>1, SetAt
<1> HIDE DEF one
<1>3. two = Delivery(a, d.order, d.pool, d.target, x)
  BY <1>2, SetOverflow
<1>4. Spilling(w, a, x) = [worker EXCEPT ![w] = two]
  BY DEF one, Spilling
<1> HIDE DEF two
<1> QED
  BY <1>3, <1>4

Renewing(w, a, p, t, x) ==
  [worker EXCEPT ![w] = [@ EXCEPT !.at = a, !.pool = p, !.target = t, !.overflow = x]]

LEMMA AllTaken ==
  ASSUME worker \in [Worker -> WorkerDoc], NEW w \in Worker, NEW a, NEW p, NEW t, NEW x
  PROVE  Renewing(w, a, p, t, x) = [worker EXCEPT ![w] = Delivery(a, worker[w].order, p, t, x)]
<1> DEFINE d == worker[w]
           one == [d EXCEPT !.at = a]
           two == [one EXCEPT !.pool = p]
           three == [two EXCEPT !.target = t]
           four == [three EXCEPT !.overflow = x]
<1>1. d = Delivery(d.at, d.order, d.pool, d.target, d.overflow)
  BY WorkerRead
<1>2. one = Delivery(a, d.order, d.pool, d.target, d.overflow)
  BY <1>1, SetAt
<1> HIDE DEF one
<1>3. two = Delivery(a, d.order, p, d.target, d.overflow)
  BY <1>2, SetPool
<1> HIDE DEF two
<1>4. three = Delivery(a, d.order, p, t, d.overflow)
  BY <1>3, SetTarget
<1> HIDE DEF three
<1>5. four = Delivery(a, d.order, p, t, x)
  BY <1>4, SetOverflow
<1>6. Renewing(w, a, p, t, x) = [worker EXCEPT ![w] = four]
  BY DEF one, two, three, Renewing
<1> HIDE DEF four
<1> QED
  BY <1>5, <1>6

LEMMA TakeShape ==
  ASSUME Shape, NEW w \in Worker, NEW o \in Order, Take(w, o)
  PROVE  Shape'
<1> DEFINE doc == Delivery("checked", o, 0, 0, 0)
           one == [Idle EXCEPT !.at = "checked"]
<1>1. [Idle EXCEPT !.at = "checked", !.order = o] = doc
  <2>1. Idle = Delivery("idle", None, 0, 0, 0)
    BY DEF Idle, Delivery
  <2>2. one = Delivery("checked", None, 0, 0, 0)
    BY <2>1, SetAt
  <2> HIDE DEF one
  <2>3. [one EXCEPT !.order = o] = doc
    BY <2>2, SetOrder
  <2> QED
    BY <2>3 DEF one
<1>2. worker' = [worker EXCEPT ![w] = doc] /\ Delivered(o)
      /\ UNCHANGED <<order, rows, donation, pools, adminVars>>
  BY <1>1 DEF Take
<1>3. doc \in WorkerDoc
  BY DEF WorkerDoc, Delivery
<1>4. worker'[w] = doc
  BY <1>2 DEF Shape, Types
<1>5. WorkerFits(w)'
  BY <1>2, <1>4, DeliveryFields DEF WorkerFits, Working, Pledging, Delivered
<1> HIDE DEF doc
<1> QED
  BY <1>2, <1>3, <1>5, WorkerShape

LEMMA FindShape ==
  ASSUME Shape, NEW w \in Worker, FindPool(w)
  PROVE  Shape'
<1>1. PICK p \in Open : worker' = [worker EXCEPT ![w].at = "pooled", ![w].pool = p]
  BY DEF FindPool
<1>2. p \in DOMAIN pools /\ p \in Nat
  BY DEF Open, Shape, Types
<1> DEFINE d == worker[w]
           doc == Delivery("pooled", d.order, p, d.target, d.overflow)
<1>3. worker' = [worker EXCEPT ![w] = doc]
  BY <1>1, PoolTaken DEF Shape, Types
<1>4. worker \in [Worker -> WorkerDoc] /\ worker[w].at = "checked"
      /\ UNCHANGED <<order, rows, donation, pools, adminVars>>
  BY DEF Shape, Types, FindPool
<1>5. doc \in WorkerDoc
  BY <1>2, <1>4 DEF WorkerDoc, Delivery
<1>6. worker'[w] = doc
  BY <1>3, <1>4
<1>7. WorkerFits(w)
  BY DEF Shape, WorkersFit
<1>8. WorkerFits(w)'
  BY <1>2, <1>4, <1>6, <1>7, DeliveryFields DEF WorkerFits, Working, Pledging, Delivered
<1> HIDE DEF doc
<1> QED
  BY <1>3, <1>4, <1>5, <1>8, WorkerShape

LEMMA PledgeShape ==
  ASSUME Shape, NEW w \in Worker, Pledge(w)
  PROVE  Shape'
<1> DEFINE o == worker[w].order
           p == worker[w].pool
<1>1. /\ worker \in [Worker -> WorkerDoc] /\ worker[w].at = "pooled"
      /\ UNCHANGED <<order, adminVars>>
      /\ rows \in [Order -> RowsDoc] /\ donation \in [Order -> {None} \cup PledgeDoc]
      /\ pools \in Seq(PoolDoc) /\ Types /\ worker[w] \in WorkerDoc
  BY DEF Pledge, Shape, Types
<1>2. WorkerFits(w)
  BY DEF Shape, WorkersFit
<1>3. o \in Order /\ Delivered(o) /\ p \in DOMAIN pools /\ p \in Nat
  BY <1>1, <1>2 DEF WorkerFits, Working, Pledging, WorkerDoc
<1>4. Amount[o] \in Nat /\ pools[p] \in PoolDoc
  BY <1>1, <1>3, AmountAssumption
<1>5. \A q \in Order : Delivered(q) => Delivered(q)'
  BY <1>1 DEF Delivered
<1>6. CASE donation[o] # None
  <2>1. worker' = [worker EXCEPT ![w] = Idle] /\ UNCHANGED <<order, rows, donation, pools, adminVars>>
    BY <1>6 DEF Pledge, Finish
  <2>2. worker'[w] = Idle
    BY <1>1, <2>1
  <2> QED
    BY <2>1, <2>2, IdleType, IdleFits, WorkerShape
<1>7. CASE donation[o] = None
  <2> DEFINE n == pools[p].amount + Amount[o]
             doc == [pools[p] EXCEPT !.amount = n]
             full == pools[p].amount + Amount[o] >= pools[p].target
             pledge == [pool |-> p, outcome |-> "live"]
  <2>1. /\ donation' = [donation EXCEPT ![o] = pledge]
        /\ pools' = [pools EXCEPT ![p].amount = @ + Amount[o]]
        /\ rows' = PledgeBooked(o)
        /\ IF full
             THEN worker' = [worker EXCEPT ![w].at = "rotate", ![w].target = pools[p].target]
             ELSE worker' = [worker EXCEPT ![w] = Idle]
    BY <1>7 DEF Pledge, Finish
  <2>2. pools' = [pools EXCEPT ![p] = doc]
    BY <2>1
  <2> HIDE DEF o, p, full
  <2>3. n \in Nat
    BY <1>4 DEF PoolDoc
  <2> HIDE DEF n
  <2>4. /\ doc \in PoolDoc /\ doc.from = pools[p].from /\ doc.goal = pools[p].goal
        /\ doc.archived = pools[p].archived /\ doc.status = pools[p].status
    <3>1. Target \in Targets \cup {Target}
      OBVIOUS
    <3> QED
      BY <1>1, <1>3, <2>3, <3>1, PoolFields, ZenonT(40)
  <2> HIDE DEF doc
  <2>5. /\ PoolsFit' /\ pools' \in Seq(PoolDoc) /\ DOMAIN pools' = DOMAIN pools
        /\ \A q \in DOMAIN pools : pools'[q].goal = pools[q].goal
    BY <1>1, <1>3, <2>2, <2>4, WrittenFits DEF Shape
  <2>6. rows' \in [Order -> RowsDoc]
    BY <1>1, <1>3, <1>4, <2>1, RowsWritten DEF PledgeBooked
  <2>7. pledge \in PledgeDoc
    BY <1>3 DEF PledgeDoc
  <2>8. donation' \in [Order -> {None} \cup PledgeDoc]
    BY <1>1, <1>3, <2>1, <2>7
  <2>9. pools[p].target \in {0, Target} \cup Targets
    BY <1>4 DEF PoolDoc
  <2>10. \E next \in WorkerDoc :
            /\ worker' = [worker EXCEPT ![w] = next]
            /\ \/ next = Idle
               \/ next.at = "rotate" /\ next.pool = p
    <3>1. CASE full
      <4> DEFINE d == worker[w]
                 t == pools[p].target
                 next == Delivery("rotate", d.order, d.pool, t, d.overflow)
      <4>1. worker' = [worker EXCEPT ![w].at = "rotate", ![w].target = t]
        BY <2>1, <3>1
      <4> HIDE DEF t
      <4>2. t \in {0, Target} \cup Targets
        BY <2>9 DEF t
      <4>3. worker' = [worker EXCEPT ![w] = next]
        BY <1>1, <4>1, TargetTaken
      <4>4. next \in WorkerDoc
        BY <1>1, <4>2 DEF WorkerDoc, Delivery
      <4>5. next.at = "rotate" /\ next.pool = p
        BY DeliveryFields DEF p
      <4> HIDE DEF next
      <4> QED
        BY <4>3, <4>4, <4>5
    <3>2. CASE ~full
      BY <2>1, <3>2, IdleType
    <3> QED
      BY <3>1, <3>2
  <2>11. PICK next \in WorkerDoc :
            /\ worker' = [worker EXCEPT ![w] = next]
            /\ \/ next = Idle
               \/ next.at = "rotate" /\ next.pool = p
    BY <2>10
  <2>12. Types'
    BY <1>1, <2>5, <2>6, <2>8, <2>11 DEF Types, adminVars
  <2>13. ASSUME NEW v \in Worker
         PROVE  worker'[v] = worker[v] \/ worker'[v] = Idle \/ WorkerFits(v)'
    <3>1. CASE v # w
      BY <1>1, <2>11, <3>1
    <3>2. CASE v = w
      <4>1. worker'[v] = next
        BY <1>1, <2>11, <3>2
      <4>2. next.at = "rotate" /\ next.pool = p => WorkerFits(v)'
        BY <1>3, <2>5, <4>1 DEF WorkerFits, Working, Pledging
      <4> QED
        BY <2>11, <4>1, <4>2
    <3> QED
      BY <3>1, <3>2
  <2>14. ASSUME NEW q \in Order, donation'[q] # None
         PROVE  \/ donation[q] # None /\ donation'[q].pool = donation[q].pool
                \/ donation'[q].pool \in DOMAIN pools' /\ Delivered(q)'
    <3>1. CASE q # o
      BY <1>1, <1>3, <2>1, <2>14, <3>1
    <3>2. CASE q = o
      <4>1. donation'[q].pool = p
        BY <1>1, <1>3, <2>1, <3>2
      <4> QED
        BY <1>3, <1>5, <2>5, <3>2, <4>1
    <3> QED
      BY <3>1, <3>2
  <2>15. \A q \in DOMAIN pools : q \in DOMAIN pools' /\ pools'[q].goal = pools[q].goal
    BY <2>5
  <2> QED
    BY <1>5, <2>5, <2>12, <2>13, <2>14, <2>15, ShapeStands
<1> QED
  BY <1>6, <1>7

(* A pool is closed at the target its worker saw. *)
Closed(p, n, st) == [pools EXCEPT ![p].amount = n, ![p].status = st]

LEMMA PoolClosed ==
  ASSUME Types, NEW p \in DOMAIN pools, NEW n \in Nat, NEW st \in {"complete", "funded"}
  PROVE  \E doc \in PoolDoc :
           /\ Closed(p, n, st) = [pools EXCEPT ![p] = doc]
           /\ doc.from = pools[p].from /\ doc.goal = pools[p].goal
           /\ doc.archived = pools[p].archived /\ doc.target = pools[p].target
           /\ doc.status = st /\ doc.amount = n
<1> DEFINE one == [pools[p] EXCEPT !.amount = n]
           doc == [one EXCEPT !.status = st]
<1>1. Target \in Targets \cup {Target}
  OBVIOUS
<1>2. pools[p] \in PoolDoc
  BY DEF Types
<1>3. /\ one \in PoolDoc /\ one.from = pools[p].from /\ one.goal = pools[p].goal
      /\ one.archived = pools[p].archived /\ one.amount = n /\ one.target = pools[p].target
  BY <1>2 DEF PoolDoc
<1> HIDE DEF one
<1>4. /\ doc \in PoolDoc /\ doc.from = one.from /\ doc.goal = one.goal
      /\ doc.archived = one.archived /\ doc.amount = n /\ doc.status = st
      /\ doc.target = one.target
  BY <1>3 DEF PoolDoc
<1>5. Closed(p, n, st) = [pools EXCEPT ![p] = doc]
  BY DEF one, Closed
<1> HIDE DEF doc
<1> QED
  BY <1>3, <1>4, <1>5

(* Finish, wherever the worker stands. *)
LEMMA FinishShape ==
  ASSUME Shape, NEW w \in Worker, Finish(w), UNCHANGED <<order, rows, donation, pools, adminVars>>
  PROVE  Shape'
<1>1. worker' = [worker EXCEPT ![w] = Idle] /\ worker'[w] = Idle
  BY DEF Finish, Shape, Types
<1> QED
  BY <1>1, IdleType, IdleFits, WorkerShape

(* What a rotation does: the pool it closes, and the worker that closed it. *)
LEMMA RotateReads ==
  ASSUME Shape, NEW w \in Worker, Rotate(w), Fundable(worker[w].pool)
  PROVE  LET p == worker[w].pool
             last == pools[p].goal = LastGoal
             extra == Overflow(p, worker[w].target)
         IN
         /\ p \in DOMAIN pools /\ extra \in Nat /\ worker[w].at = "rotate"
         /\ \E doc \in PoolDoc :
              /\ pools' = [pools EXCEPT ![p] = doc]
              /\ doc.from = pools[p].from /\ doc.goal = pools[p].goal
              /\ doc.archived = pools[p].archived /\ doc.target = pools[p].target
              /\ doc.status = (IF last THEN "complete" ELSE "funded")
              /\ doc.amount = worker[w].target
         /\ worker' = [worker EXCEPT ![w] =
                         IF last THEN Idle
                         ELSE Delivery("next", worker[w].order, p, worker[w].target, extra)]
         /\ dropped' = IF last THEN dropped \cup {[pool |-> p, amount |-> extra]} ELSE dropped
         /\ staleClaim' = (staleClaim \/ worker[w].target # pools[p].target)
<1> DEFINE p == worker[w].pool
           seen == worker[w].target
           last == pools[p].goal = LastGoal
           extra == Overflow(p, seen)
           st == IF last THEN "complete" ELSE "funded"
<1>1. /\ worker \in [Worker -> WorkerDoc] /\ worker[w] \in WorkerDoc
      /\ worker[w].at = "rotate" /\ pools \in Seq(PoolDoc) /\ Types
  BY DEF Rotate, Shape, Types
<1>2. WorkerFits(w)
  BY DEF Shape, WorkersFit
<1>3. p \in DOMAIN pools
  BY <1>1, <1>2 DEF WorkerFits, Working
<1>4. seen \in Nat
  BY <1>1, TargetsAreNat DEF WorkerDoc
<1>5. extra \in Nat
  <2>1. pools[p] \in PoolDoc /\ pools[p].amount >= pools[p].target
    BY <1>1, <1>3 DEF Fundable
  <2>2. pools[p].amount \in Nat /\ pools[p].target \in Nat
    BY <2>1, TargetsAreNat DEF PoolDoc
  <2> QED
    BY <2>1, <2>2 DEF Overflow
<1>6. /\ pools' = Closed(p, seen, st)
      /\ staleClaim' = (staleClaim \/ seen # pools[p].target)
      /\ dropped' = IF last THEN dropped \cup {[pool |-> p, amount |-> extra]} ELSE dropped
      /\ worker' = IF last THEN [worker EXCEPT ![w] = Idle]
                   ELSE Spilling(w, "next", extra)
  BY DEF Rotate, Finish, Closed, Spilling
<1> HIDE DEF extra
<1>7. Spilling(w, "next", extra)
        = [worker EXCEPT ![w] = Delivery("next", worker[w].order, p, seen, extra)]
  BY <1>1, OverflowTaken
<1>8. \E doc \in PoolDoc :
         /\ Closed(p, seen, st) = [pools EXCEPT ![p] = doc]
         /\ doc.from = pools[p].from /\ doc.goal = pools[p].goal
         /\ doc.archived = pools[p].archived /\ doc.target = pools[p].target
         /\ doc.status = st /\ doc.amount = seen
  <2> HIDE DEF p, seen, last
  <2>1. st \in {"complete", "funded"}
    OBVIOUS
  <2> HIDE DEF st
  <2> QED
    BY <1>1, <1>3, <1>4, <2>1, PoolClosed
<1> HIDE DEF seen, p
<1>9. worker' = [worker EXCEPT ![w] = IF last THEN Idle
                                     ELSE Delivery("next", worker[w].order, p, seen, extra)]
  BY <1>6, <1>7
<1>10. \E doc \in PoolDoc :
              /\ pools' = [pools EXCEPT ![p] = doc]
              /\ doc.from = pools[p].from /\ doc.goal = pools[p].goal
              /\ doc.archived = pools[p].archived /\ doc.target = pools[p].target
              /\ doc.status = (IF last THEN "complete" ELSE "funded")
              /\ doc.amount = seen
  BY <1>6, <1>8
<1> QED
  BY <1>1, <1>3, <1>5, <1>6, <1>9, <1>10 DEF extra, seen, p

LEMMA RotateShape ==
  ASSUME Shape, NEW w \in Worker, Rotate(w)
  PROVE  Shape'
<1> DEFINE p == worker[w].pool
           last == pools[p].goal = LastGoal
           extra == Overflow(p, worker[w].target)
<1>1. /\ UNCHANGED <<order, rows, donation, adminVars>>
      /\ worker \in [Worker -> WorkerDoc] /\ worker[w] \in WorkerDoc /\ Types /\ PoolsFit
  BY DEF Rotate, Shape, Types
<1>2. CASE ~Fundable(p)
  <2>1. Finish(w) /\ UNCHANGED pools
    BY <1>2 DEF Rotate
  <2> QED
    BY <1>1, <2>1, FinishShape
<1>3. CASE Fundable(p)
  <2>1. p \in DOMAIN pools /\ extra \in Nat
    BY <1>3, RotateReads
  <2>2. PICK doc \in PoolDoc :
              /\ pools' = [pools EXCEPT ![p] = doc]
              /\ doc.from = pools[p].from /\ doc.goal = pools[p].goal
              /\ doc.archived = pools[p].archived
              /\ doc.status = (IF last THEN "complete" ELSE "funded")
    BY <1>3, RotateReads
  <2> DEFINE next == IF last THEN Idle
                     ELSE Delivery("next", worker[w].order, p, worker[w].target, extra)
  <2>3. worker' = [worker EXCEPT ![w] = next]
    BY <1>3, RotateReads
  <2> HIDE DEF extra
  <2>4. doc.status # "active"
    BY <2>2
  <2>5. /\ PoolsFit' /\ pools' \in Seq(PoolDoc) /\ DOMAIN pools' = DOMAIN pools
        /\ \A q \in DOMAIN pools : pools'[q].goal = pools[q].goal
    BY <1>1, <2>1, <2>2, <2>4, WrittenFits
  <2>6. next \in WorkerDoc
    <3>1. Idle \in WorkerDoc
      BY IdleType
    <3>2. Delivery("next", worker[w].order, p, worker[w].target, extra) \in WorkerDoc
      BY <1>1, <2>1 DEF Delivery, WorkerDoc
    <3> QED
      BY <3>1, <3>2
  <2>7. worker'[w] = next /\ \A v \in Worker : v # w => worker'[v] = worker[v]
    BY <1>1, <2>3
  <2>8. next = Idle \/ WorkerFits(w)'
    <3>1. CASE last
      BY <3>1
    <3>2. CASE ~last
      <4>1. worker'[w] = Delivery("next", worker[w].order, p, worker[w].target, extra)
        BY <2>7, <3>2
      <4>2. worker'[w].at = "next" /\ worker'[w].pool = p
        BY <4>1, DeliveryFields
      <4>3. pools'[p].goal # LastGoal
        BY <2>1, <2>5, <3>2
      <4> QED
        BY <2>1, <2>5, <4>2, <4>3 DEF WorkerFits, Working, Pledging
    <3> QED
      BY <3>1, <3>2
  <2> HIDE DEF next
  <2>9. Types'
    BY <1>1, <2>3, <2>5, <2>6 DEF Types, adminVars
  <2>10. \A v \in Worker : worker'[v] = worker[v] \/ worker'[v] = Idle \/ WorkerFits(v)'
    BY <2>7, <2>8
  <2>11. \A q \in DOMAIN pools : q \in DOMAIN pools' /\ pools'[q].goal = pools[q].goal
    BY <2>5
  <2>12. \A q \in Order : Delivered(q) => Delivered(q)'
    BY <1>1 DEF Delivered
  <2>13. \A q \in Order : donation'[q] # None => donation[q] # None /\ donation'[q].pool = donation[q].pool
    BY <1>1
  <2> QED
    BY <2>5, <2>9, <2>10, <2>11, <2>12, <2>13, ShapeStands
<1> QED
  BY <1>2, <1>3

(* What the creation of the next pool does when the index lets it in. *)
LEMMA CreateReads ==
  ASSUME Shape, NEW w \in Worker, CreateNext(w), Open = {}
  PROVE  LET p == worker[w].pool
             extra == worker[w].overflow
             n == Len(pools) + 1
         IN
         /\ p \in DOMAIN pools /\ extra \in Nat /\ worker[w].at = "next"
         /\ \E doc \in PoolDoc :
              /\ pools' = Append(pools, doc) /\ doc.from = p
              /\ doc.status = "active" /\ doc.amount = extra
         /\ worker' = [worker EXCEPT ![w] =
                         IF extra >= Target THEN Delivery("rotate", worker[w].order, n, Target, 0)
                         ELSE Idle]
         /\ dropped' = dropped
<1> DEFINE p == worker[w].pool
           extra == worker[w].overflow
           n == Len(pools) + 1
<1>1. /\ worker \in [Worker -> WorkerDoc] /\ worker[w] \in WorkerDoc
      /\ worker[w].at = "next" /\ pools \in Seq(PoolDoc) /\ Types
  BY DEF CreateNext, Shape, Types
<1>2. WorkerFits(w)
  BY DEF Shape, WorkersFit
<1>3. p \in DOMAIN pools /\ pools[p].goal # LastGoal /\ p \in Nat
  BY <1>1, <1>2 DEF WorkerFits, Working
<1>4. extra \in Nat
  BY <1>1 DEF WorkerDoc
<1>5. pools[p].goal + 1 \in 0 .. LastGoal
  <2> HIDE DEF p
  <2>1. pools[p] \in PoolDoc
    BY <1>1, <1>3
  <2>2. pools[p].goal \in 0 .. LastGoal
    BY <2>1 DEF PoolDoc
  <2> QED
    BY <2>2, <1>3, AmountAssumption
<1>6. /\ pools' = Append(pools, NewPool(pools[p].goal + 1, extra, p))
      /\ dropped' = dropped
      /\ worker' = IF extra >= Target
                     THEN Renewing(w, "rotate", n, Target, 0)
                     ELSE [worker EXCEPT ![w] = Idle]
  BY DEF CreateNext, Finish, Renewing
<1> DEFINE goal == pools[p].goal + 1
<1> HIDE DEF p, extra, n
<1>7. PICK i, y, z : i = n /\ y = Target /\ z = 0
  OBVIOUS
<1>8. Renewing(w, "rotate", i, y, z) = [worker EXCEPT ![w] = Delivery("rotate", worker[w].order, i, y, z)]
  BY <1>1, AllTaken
<1>11. PICK g, e, q : g = goal /\ e = extra /\ q = p
  OBVIOUS
<1>12. g \in 0 .. LastGoal /\ e \in Nat /\ q \in Nat
  BY <1>3, <1>4, <1>5, <1>11
<1>13. /\ NewPool(g, e, q) \in PoolDoc
       /\ NewPool(g, e, q).from = q
       /\ NewPool(g, e, q).status = "active"
       /\ NewPool(g, e, q).amount = e
  BY <1>12, AmountAssumption DEF NewPool, PoolDoc
<1>9. worker' = [worker EXCEPT ![w] =
                   IF extra >= Target THEN Delivery("rotate", worker[w].order, n, Target, 0)
                   ELSE Idle]
  BY <1>6, <1>7, <1>8
<1>10. \E doc \in PoolDoc :
              /\ pools' = Append(pools, doc) /\ doc.from = p
              /\ doc.status = "active" /\ doc.amount = extra
  BY <1>6, <1>11, <1>13 DEF goal
<1> QED
  BY <1>1, <1>3, <1>4, <1>6, <1>9, <1>10 DEF p, extra, n

LEMMA CreateShape ==
  ASSUME Shape, NEW w \in Worker, CreateNext(w)
  PROVE  Shape'
<1>1. /\ UNCHANGED <<order, rows, donation, adminVars>>
      /\ worker \in [Worker -> WorkerDoc] /\ worker[w] \in WorkerDoc /\ Types /\ PoolsFit
      /\ pools \in Seq(PoolDoc)
  BY DEF CreateNext, Shape, Types
<1>2. CASE Open # {}
  <2>1. Finish(w) /\ UNCHANGED pools
    BY <1>2 DEF CreateNext
  <2> QED
    BY <1>1, <2>1, FinishShape
<1>3. CASE Open = {}
  <2> DEFINE p == worker[w].pool
             extra == worker[w].overflow
             n == Len(pools) + 1
             next == IF extra >= Target THEN Delivery("rotate", worker[w].order, n, Target, 0)
                     ELSE Idle
  <2>1. p \in DOMAIN pools
    BY <1>3, CreateReads
  <2>2. PICK doc \in PoolDoc :
           /\ pools' = Append(pools, doc) /\ doc.from = p
    BY <1>3, CreateReads
  <2>3. worker' = [worker EXCEPT ![w] = next]
    BY <1>3, CreateReads
  <2> HIDE DEF p
  <2>4. doc.from \in 0 .. Len(pools) /\ n \in Nat
    BY <1>1, <2>1, <2>2
  <2>5. PoolsFit'
    BY <1>1, <1>3, <2>2, <2>4, OpenedFits
  <2>6. /\ pools' \in Seq(PoolDoc) /\ n \in DOMAIN pools'
        /\ \A q \in DOMAIN pools : q \in DOMAIN pools' /\ pools'[q] = pools[q]
    BY <1>1, <2>2, PoolOpened
  <2> HIDE DEF n
  <2>7. next \in WorkerDoc
    <3>1. Delivery("rotate", worker[w].order, n, Target, 0) \in WorkerDoc
      BY <1>1, <2>4 DEF Delivery, WorkerDoc
    <3> QED
      BY <3>1, IdleType
  <2>8. worker'[w] = next /\ \A v \in Worker : v # w => worker'[v] = worker[v]
    BY <1>1, <2>3
  <2>9. next = Idle \/ next = Delivery("rotate", worker[w].order, n, Target, 0)
    OBVIOUS
  <2> HIDE DEF next
  <2>10. next = Idle \/ WorkerFits(w)'
    BY <2>6, <2>8, <2>9, DeliveryFields DEF WorkerFits, Working, Pledging
  <2>11. Types'
    BY <1>1, <2>3, <2>6, <2>7 DEF Types, adminVars
  <2>12. \A v \in Worker : worker'[v] = worker[v] \/ worker'[v] = Idle \/ WorkerFits(v)'
    BY <2>8, <2>10
  <2>13. \A q \in DOMAIN pools : q \in DOMAIN pools' /\ pools'[q].goal = pools[q].goal
    BY <2>6
  <2>14. \A q \in Order : Delivered(q) => Delivered(q)'
    BY <1>1 DEF Delivered
  <2>15. \A q \in Order : donation'[q] # None => donation[q] # None /\ donation'[q].pool = donation[q].pool
    BY <1>1
  <2> QED
    BY <2>5, <2>11, <2>12, <2>13, <2>14, <2>15, ShapeStands
<1> QED
  BY <1>2, <1>3

(* The administrator edits a target, a contributor gives points. *)
LEMMA InterventionCounts ==
  ASSUME Types, interventions < MaxInterventions
  PROVE  interventions + 1 \in 0 .. MaxInterventions
BY AmountAssumption DEF Types

LEMMA EditShape ==
  ASSUME Shape, NEW p \in DOMAIN pools, EditTarget(p)
  PROVE  Shape'
<1>1. PICK t \in Targets : pools' = [pools EXCEPT ![p].target = t]
  BY DEF EditTarget
<1> DEFINE doc == [pools[p] EXCEPT !.target = t]
<1>2. pools' = [pools EXCEPT ![p] = doc]
  BY <1>1
<1>3. t \in Targets \cup {Target} /\ Types /\ PoolsFit /\ 0 \in Nat
  BY DEF Shape
<1>4. /\ doc \in PoolDoc /\ doc.from = pools[p].from /\ doc.goal = pools[p].goal
      /\ doc.archived = pools[p].archived /\ doc.status = pools[p].status
  BY <1>3, PoolFields
<1> HIDE DEF doc
<1>5. /\ PoolsFit' /\ pools' \in Seq(PoolDoc) /\ DOMAIN pools' = DOMAIN pools
      /\ \A q \in DOMAIN pools : pools'[q].goal = pools[q].goal
  BY <1>2, <1>3, <1>4, WrittenFits
<1>6. /\ interventions' \in 0 .. MaxInterventions /\ resetting' \in BOOLEAN
      /\ UNCHANGED <<order, rows, donation, worker>>
  BY <1>3, InterventionCounts DEF EditTarget, Types
<1> QED
  BY <1>5, <1>6, PoolsShape

LEMMA PointsShape ==
  ASSUME Shape, NEW p \in DOMAIN pools, DonatePoints(p)
  PROVE  Shape'
<1> DEFINE n == pools[p].amount + 1
           doc == [pools[p] EXCEPT !.amount = n]
<1>1. pools' = [pools EXCEPT ![p] = doc]
  BY DEF DonatePoints
<1>2. Target \in Targets \cup {Target} /\ Types /\ PoolsFit /\ pools[p] \in PoolDoc
  BY DEF Shape, Types
<1>3. n \in Nat
  BY <1>2 DEF PoolDoc
<1> HIDE DEF n
<1>4. /\ doc \in PoolDoc /\ doc.from = pools[p].from /\ doc.goal = pools[p].goal
      /\ doc.archived = pools[p].archived /\ doc.status = pools[p].status
  BY <1>2, <1>3, PoolFields
<1> HIDE DEF doc
<1>5. /\ PoolsFit' /\ pools' \in Seq(PoolDoc) /\ DOMAIN pools' = DOMAIN pools
      /\ \A q \in DOMAIN pools : pools'[q].goal = pools[q].goal
  BY <1>1, <1>2, <1>4, WrittenFits
<1>6. /\ interventions' \in 0 .. MaxInterventions /\ resetting' \in BOOLEAN
      /\ UNCHANGED <<order, rows, donation, worker>>
  BY <1>2, InterventionCounts DEF DonatePoints, Types
<1> QED
  BY <1>5, <1>6, PoolsShape

(* The reset and the monthly job rewrite every pool, and open none. *)
LEMMA ArchivingFits ==
  ASSUME Shape, NEW f \in [DOMAIN pools -> PoolDoc], pools' = f,
         \A p \in DOMAIN pools :
            /\ f[p].from = pools[p].from /\ f[p].goal = pools[p].goal
            /\ f[p] = pools[p] \/ f[p].archived,
         resetting' \in BOOLEAN, interventions' \in 0 .. MaxInterventions,
         UNCHANGED <<order, rows, donation, worker>>
  PROVE  Shape'
<1>1. pools \in Seq(PoolDoc) /\ PoolsFit
  BY DEF Shape, Types
<1>2. pools' \in Seq(PoolDoc) /\ DOMAIN pools' = DOMAIN pools
  BY <1>1, PoolsRewritten
<1>3. \A p \in DOMAIN pools : pools'[p].from = pools[p].from /\ (p \in Open' => p \in Open)
  BY DEF Open
<1>4. PoolsFit'
  BY <1>1, <1>2, <1>3, PoolsStay
<1>5. \A p \in DOMAIN pools : p \in DOMAIN pools' /\ pools'[p].goal = pools[p].goal
  BY <1>2
<1> QED
  BY <1>2, <1>4, <1>5, PoolsShape

LEMMA ResetShape ==
  ASSUME Shape, ResetArchives
  PROVE  Shape'
<1> DEFINE f == [p \in DOMAIN pools |-> [pools[p] EXCEPT !.archived = TRUE]]
<1>1. \A p \in DOMAIN pools : pools[p] \in PoolDoc
  BY DEF Shape, Types
<1>2. f \in [DOMAIN pools -> PoolDoc]
  BY <1>1 DEF PoolDoc
<1>3. \A p \in DOMAIN pools :
         /\ f[p].from = pools[p].from /\ f[p].goal = pools[p].goal
         /\ f[p] = pools[p] \/ f[p].archived
  BY <1>1 DEF PoolDoc
<1>4. /\ pools' = f /\ UNCHANGED <<order, rows, donation, worker>> /\ resetting' \in BOOLEAN
      /\ interventions' \in 0 .. MaxInterventions
  BY InterventionCounts DEF ResetArchives, Shape
<1> HIDE DEF f
<1> QED
  BY <1>2, <1>3, <1>4, ArchivingFits

LEMMA ArchiveShape ==
  ASSUME Shape, ArchiveFunded
  PROVE  Shape'
<1> DEFINE done == {p \in DOMAIN pools : pools[p].status = "funded" /\ ~pools[p].archived}
           f == [p \in DOMAIN pools |->
                   IF p \in done THEN [pools[p] EXCEPT !.status = "archived", !.archived = TRUE]
                   ELSE pools[p]]
<1>1. \A p \in DOMAIN pools : pools[p] \in PoolDoc
  BY DEF Shape, Types
<1>2. ASSUME NEW p \in DOMAIN pools
      PROVE  /\ f[p] \in PoolDoc /\ f[p].from = pools[p].from /\ f[p].goal = pools[p].goal
             /\ f[p] = pools[p] \/ f[p].archived
  <2> DEFINE doc == [pools[p] EXCEPT !.status = "archived", !.archived = TRUE]
  <2>1. f[p] = IF p \in done THEN doc ELSE pools[p]
    OBVIOUS
  <2>2. /\ doc \in PoolDoc /\ doc.from = pools[p].from /\ doc.goal = pools[p].goal
        /\ doc.archived
    BY <1>1 DEF PoolDoc
  <2> HIDE DEF done, f, doc
  <2> QED
    BY <1>1, <2>1, <2>2
<1>3. f \in [DOMAIN pools -> PoolDoc]
  BY <1>2
<1>4. /\ pools' = f /\ UNCHANGED <<order, rows, donation, worker>> /\ resetting' \in BOOLEAN
      /\ interventions' \in 0 .. MaxInterventions
  BY DEF ArchiveFunded, adminVars, Shape, Types
<1> HIDE DEF f
<1> QED
  BY <1>2, <1>3, <1>4, ArchivingFits

(* The life of an order. *)
LEMMA OrdersShape ==
  ASSUME Shape, NEW o \in Order, Complete(o) \/ CancelPaid(o) \/ Refund(o)
  PROVE  Shape'
<1>1. rows \in [Order -> RowsDoc] /\ BookingsReversed(o) \in [Order -> RowsDoc]
  BY ReversedType DEF Shape, Types
<1>2. CASE Complete(o)
  <2>1. /\ order' = [order EXCEPT ![o] = "completed"] /\ "completed" \in OrderStatus
        /\ rows' \in [Order -> RowsDoc] /\ UNCHANGED <<donation, pools, worker, adminVars>>
    BY <1>1, <1>2 DEF Complete, OrderStatus
  <2> QED
    BY <2>1, OrderShape
<1>3. CASE CancelPaid(o)
  <2>1. /\ order' = [order EXCEPT ![o] = "cancelled"] /\ "cancelled" \in OrderStatus
        /\ rows' \in [Order -> RowsDoc] /\ UNCHANGED <<donation, pools, worker, adminVars>>
        /\ ~Delivered(o)
    BY <1>1, <1>3 DEF CancelPaid, OrderStatus, Delivered
  <2> QED
    BY <2>1, OrderShape
<1>4. CASE Refund(o)
  <2>1. /\ order' = [order EXCEPT ![o] = "refunded"] /\ "refunded" \in OrderStatus
        /\ rows' \in [Order -> RowsDoc] /\ UNCHANGED <<donation, pools, worker, adminVars>>
    BY <1>1, <1>4 DEF Refund, OrderStatus
  <2> QED
    BY <2>1, OrderShape
<1> QED
  BY <1>2, <1>3, <1>4

(* The pools opened, or not, and the reset that ends. *)
LEMMA OpeningsShape ==
  ASSUME Shape, OpenDefault \/ ResetInserts \/ ResetDies
  PROVE  Shape'
<1>1. /\ UNCHANGED <<order, rows, donation, worker>>
      /\ resetting' \in BOOLEAN /\ interventions' \in 0 .. MaxInterventions
  BY DEF OpenDefault, ResetInserts, ResetDies, adminVars, Shape, Types
<1>2. CASE Open = {} /\ pools' = Append(pools, NewPool(0, 0, 0))
  BY <1>1, <1>2, OpeningShape
<1>3. CASE pools' = pools
  <2>1. PoolsFit' /\ pools' \in Seq(PoolDoc)
    BY <1>3 DEF Shape, Types, PoolsFit, Open
  <2> QED
    BY <1>1, <1>3, <2>1, PoolsShape
<1> QED
  BY <1>2, <1>3 DEF OpenDefault, ResetInserts, ResetDies

LEMMA NextShape == Shape /\ [Next]_vars => Shape'
<1> SUFFICES ASSUME Shape, [Next]_vars PROVE Shape'
  OBVIOUS
<1>1. ASSUME NEW o \in Order, Complete(o) \/ CancelPaid(o) \/ Refund(o) \/ ReverseForOrder(o)
      PROVE Shape'
  BY <1>1, OrdersShape, ReverseShape
<1>2. ASSUME NEW w \in Worker, FindPool(w) \/ Pledge(w) \/ Rotate(w) \/ CreateNext(w)
      PROVE Shape'
  BY <1>2, FindShape, PledgeShape, RotateShape, CreateShape
<1>3. ASSUME NEW w \in Worker, Fail(w) PROVE Shape'
  BY <1>3, FinishShape DEF Fail
<1>4. ASSUME NEW w \in Worker, NEW o \in Order, Take(w, o) PROVE Shape'
  BY <1>4, TakeShape
<1>5. ASSUME NEW p \in DOMAIN pools, EditTarget(p) \/ DonatePoints(p) PROVE Shape'
  BY <1>5, EditShape, PointsShape
<1>6. CASE OpenDefault \/ ResetInserts \/ ResetDies
  BY <1>6, OpeningsShape
<1>7. CASE ResetArchives
  BY <1>7, ResetShape
<1>8. CASE ArchiveFunded
  BY <1>8, ArchiveShape
<1>9. CASE UNCHANGED vars
  <2>1. /\ PoolsFit' /\ pools' \in Seq(PoolDoc) /\ UNCHANGED <<order, rows, donation, worker, pools>>
        /\ resetting' \in BOOLEAN /\ interventions' \in 0 .. MaxInterventions
    BY <1>9 DEF vars, adminVars, Shape, Types, PoolsFit, Open
  <2> QED
    BY <2>1, PoolsShape
<1> QED
  BY <1>1, <1>2, <1>3, <1>4, <1>5, <1>6, <1>7, <1>8, <1>9 DEF Next

-----------------------------------------------------------------------------
(* The rows of an order, against what the charity keeps of it. *)

RowFits(o) ==
  /\ rows[o].minus <= rows[o].plus
  /\ order[o] \in {"open", "completed"} => rows[o].minus = 0
  /\ donation[o] = None /\ o \notin Legacy => rows[o].plus = 0
  /\ donation[o] = None /\ o \in Legacy =>
        rows[o].plus = Amount[o] /\ (rows[o].minus = 0 \/ rows[o].minus = Amount[o])
  /\ donation[o] # None /\ (o \in handled \/ order[o] = "completed") => Net(o) = Kept(o)
  /\ donation[o] # None /\ donation[o].outcome # "live" => o \in handled
  /\ o \in handled => order[o] = "refunded"

RowsFit == \A o \in Order : RowFits(o)

LEMMA RowStays ==
  ASSUME NEW o \in Order, RowFits(o), order'[o] = order[o], rows'[o] = rows[o],
         donation'[o] = donation[o], o \in handled' <=> o \in handled
  PROVE  RowFits(o)'
BY DEF RowFits, Net, Kept

(* Only one order is touched. *)
LEMMA OthersStay ==
  ASSUME RowsFit, NEW o \in Order, RowFits(o)',
         \A p \in Order \ {o} :
            /\ order'[p] = order[p] /\ rows'[p] = rows[p] /\ donation'[p] = donation[p]
            /\ p \in handled' <=> p \in handled
  PROVE  RowsFit'
<1>1. ASSUME NEW p \in Order \ {o} PROVE RowFits(p)'
  BY <1>1, RowStays DEF RowsFit
<1> QED
  BY <1>1 DEF RowsFit

LEMMA RowsRead ==
  ASSUME Types, NEW o \in Order
  PROVE  /\ rows[o].plus \in Nat /\ rows[o].minus \in Nat /\ Amount[o] \in Nat
         /\ order \in [Order -> OrderStatus] /\ rows \in [Order -> RowsDoc]
         /\ donation \in [Order -> {None} \cup PledgeDoc]
BY AmountAssumption DEF Types, RowsDoc

LEMMA NoneIsNoPledge == None \notin PledgeDoc
BY AmountAssumption DEF PledgeDoc

LEMMA InitRows == Init => RowsFit
<1> SUFFICES ASSUME Init, NEW o \in Order PROVE RowFits(o)
  BY DEF RowsFit
<1>1. rows[o] = [plus |-> IF o \in Legacy THEN Amount[o] ELSE 0, minus |-> 0]
  BY DEF Init
<1>2. rows[o].minus = 0 /\ rows[o].plus = (IF o \in Legacy THEN Amount[o] ELSE 0)
  BY <1>1
<1>3. donation[o] = None /\ order[o] = "open" /\ handled = {} /\ Amount[o] \in Nat
  BY AmountAssumption DEF Init
<1> QED
  BY <1>2, <1>3 DEF RowFits

LEMMA OrdersRows ==
  ASSUME Shape, RowsFit, NEW o \in Order, Complete(o) \/ CancelPaid(o) \/ Refund(o)
  PROVE  RowsFit'
<1>1. RowFits(o) /\ Types
  BY DEF RowsFit, Shape
<1>2. /\ rows[o].plus \in Nat /\ rows[o].minus \in Nat /\ Amount[o] \in Nat
      /\ order \in [Order -> OrderStatus] /\ rows \in [Order -> RowsDoc]
  BY <1>1, RowsRead
<1>3. UNCHANGED <<donation, handled>>
  BY DEF Complete, CancelPaid, Refund, ghostVars
<1>4. /\ BookingsReversed(o)[o].plus = rows[o].plus
      /\ BookingsReversed(o)[o].minus = rows[o].minus + rows[o].plus
      /\ \A p \in Order \ {o} : BookingsReversed(o)[p] = rows[p]
  BY <1>2, RowsWritten DEF BookingsReversed
<1>5. /\ order[o] \in {"open", "completed"}
      /\ \A p \in Order \ {o} : order'[p] = order[p] /\ rows'[p] = rows[p]
  BY <1>2, <1>4 DEF Complete, CancelPaid, Refund
<1>6. rows[o].minus = 0 /\ o \notin handled
  BY <1>1, <1>5 DEF RowFits
<1>7. order'[o] \in {"completed", "cancelled", "refunded"}
      /\ (order'[o] = "completed" => order[o] = "open" /\ rows' = rows)
      /\ (rows'[o] = rows[o] \/ rows'[o] = BookingsReversed(o)[o])
  BY <1>2 DEF Complete, CancelPaid, Refund
<1>8. donation[o] # None => order'[o] # "completed"
  BY <1>7 DEF Shape, DonationsFit, Delivered
<1>9. RowFits(o)'
  <2>1. rows'[o].plus = rows[o].plus /\ (rows'[o].minus = 0 \/ rows'[o].minus = rows[o].plus)
    BY <1>2, <1>4, <1>6, <1>7
  <2>2. order'[o] = "completed" => rows'[o].minus = 0
    BY <1>6, <1>7
  <2>3. /\ donation[o] = None /\ o \notin Legacy => rows[o].plus = 0
        /\ donation[o] = None /\ o \in Legacy => rows[o].plus = Amount[o]
        /\ donation[o] # None => donation[o].outcome = "live"
    BY <1>1, <1>6 DEF RowFits
  <2>4. o \notin handled' /\ donation'[o] = donation[o]
    BY <1>3, <1>6
  <2> QED
    BY <1>2, <1>7, <1>8, <2>1, <2>2, <2>3, <2>4 DEF RowFits
<1> QED
  BY <1>3, <1>5, <1>9, OthersStay

LEMMA PledgeRows ==
  ASSUME Shape, RowsFit, NEW w \in Worker, Pledge(w)
  PROVE  RowsFit'
<1> DEFINE pledge == [pool |-> worker[w].pool, outcome |-> "live"]
<1>1. Types /\ worker[w].at = "pooled" /\ WorkerFits(w) /\ UNCHANGED <<order, handled>>
  BY DEF Shape, WorkersFit, Pledge, ghostVars
<1>2. PICK o \in Order : o = worker[w].order /\ Delivered(o)
  BY <1>1 DEF WorkerFits, Pledging
<1>3. CASE donation[o] # None
  <2>1. UNCHANGED <<rows, donation>>
    BY <1>2, <1>3 DEF Pledge
  <2> QED
    BY <1>1, <2>1, RowStays DEF RowsFit
<1>4. CASE donation[o] = None
  <2>1. donation' = [donation EXCEPT ![o] = pledge] /\ rows' = PledgeBooked(o)
    BY <1>2, <1>4 DEF Pledge
  <2>2. /\ rows[o].plus \in Nat /\ rows[o].minus \in Nat /\ Amount[o] \in Nat
        /\ rows \in [Order -> RowsDoc] /\ donation \in [Order -> {None} \cup PledgeDoc]
    BY <1>1, <1>2, RowsRead
  <2>3. /\ PledgeBooked(o)[o].minus = rows[o].minus
        /\ PledgeBooked(o)[o].plus = IF Net(o) > 0 THEN rows[o].plus ELSE rows[o].plus + Amount[o]
        /\ \A p \in Order \ {o} : PledgeBooked(o)[p] = rows[p]
    <3>1. CASE Net(o) > 0
      BY <3>1 DEF PledgeBooked
    <3>2. CASE ~(Net(o) > 0)
      BY <1>2, <2>2, <3>2, RowsWritten DEF PledgeBooked
    <3> QED
      BY <3>1, <3>2
  <2>4. donation'[o] = pledge /\ pledge # None /\ pledge.outcome = "live"
    <3>1. pledge \in PledgeDoc
      BY <1>1 DEF WorkerFits, Working, PledgeDoc, Shape, Types, WorkerDoc
    <3> QED
      BY <1>2, <2>1, <2>2, <3>1, NoneIsNoPledge
  <2> HIDE DEF pledge
  <2>5. RowFits(o)
    BY <1>2 DEF RowsFit
  <2>6. /\ rows'[o].minus = rows[o].minus
        /\ rows'[o].plus = IF Net(o) > 0 THEN rows[o].plus ELSE rows[o].plus + Amount[o]
    BY <2>1, <2>3
  <2>7. /\ rows[o].minus <= rows[o].plus
        /\ rows[o].plus - rows[o].minus = 0 \/ rows[o].plus - rows[o].minus = Amount[o]
    BY <1>4, <2>2, <2>5 DEF RowFits
  <2>8. rows'[o].plus - rows'[o].minus = Amount[o]
    BY <2>2, <2>6, <2>7 DEF Net
  <2>9. rows'[o].minus <= rows'[o].plus
    BY <2>2, <2>6, <2>7
  <2>10. Kept(o)' = Amount[o] /\ Net(o)' = Amount[o]
    BY <2>4, <2>8 DEF Kept, Net
  <2>11. /\ order[o] \in {"open", "completed"} => rows'[o].minus = 0
         /\ o \in handled => order[o] = "refunded"
    BY <2>5, <2>6 DEF RowFits
  <2>12. RowFits(o)'
    BY <1>1, <2>4, <2>9, <2>10, <2>11 DEF RowFits
  <2>13. \A p \in Order \ {o} : rows'[p] = rows[p] /\ donation'[p] = donation[p]
    BY <2>1, <2>2, <2>3
  <2> QED
    BY <1>1, <1>2, <2>12, <2>13, OthersStay
<1> QED
  BY <1>3, <1>4

(* The rows of a reversed donation are brought to what the charity keeps. *)
LEMMA AdjustedRows ==
  ASSUME Types, NEW o \in Order, RowFits(o), NEW kept \in Nat
  PROVE  /\ Adjusted(o, kept)[o].plus \in Nat /\ Adjusted(o, kept)[o].minus \in Nat
         /\ Adjusted(o, kept)[o].plus - Adjusted(o, kept)[o].minus = kept
         /\ \A p \in Order \ {o} : Adjusted(o, kept)[p] = rows[p]
<1>1. /\ rows[o].plus \in Nat /\ rows[o].minus \in Nat /\ rows \in [Order -> RowsDoc]
      /\ Net(o) = rows[o].plus - rows[o].minus
  BY RowsRead DEF Net
<1>2. CASE kept >= Net(o)
  <2>1. kept - Net(o) \in Nat
    BY <1>1, <1>2
  <2>2. Adjusted(o, kept) = [rows EXCEPT ![o].plus = @ + (kept - Net(o))]
    BY <1>2 DEF Adjusted
  <2>3. /\ Adjusted(o, kept)[o].plus = rows[o].plus + (kept - Net(o))
        /\ Adjusted(o, kept)[o].minus = rows[o].minus
        /\ \A p \in Order \ {o} : Adjusted(o, kept)[p] = rows[p]
    BY <1>1, <2>1, <2>2, RowsWritten
  <2> QED
    BY <1>1, <2>1, <2>3
<1>3. CASE ~(kept >= Net(o))
  <2>1. Net(o) - kept \in Nat
    BY <1>1, <1>3
  <2>2. Adjusted(o, kept) = [rows EXCEPT ![o].minus = @ + (Net(o) - kept)]
    BY <1>3 DEF Adjusted
  <2>3. /\ Adjusted(o, kept)[o].minus = rows[o].minus + (Net(o) - kept)
        /\ Adjusted(o, kept)[o].plus = rows[o].plus
        /\ \A p \in Order \ {o} : Adjusted(o, kept)[p] = rows[p]
    BY <1>1, <2>1, <2>2, RowsWritten
  <2> QED
    BY <1>1, <2>1, <2>3
<1> QED
  BY <1>2, <1>3

LEMMA ReverseRows ==
  ASSUME Shape, RowsFit, NEW o \in Order, ReverseForOrder(o)
  PROVE  RowsFit'
<1>1. /\ Types /\ RowFits(o) /\ order[o] = "refunded" /\ UNCHANGED order
      /\ handled' = handled \cup {o}
  BY DEF Shape, RowsFit, ReverseForOrder
<1>2. /\ rows[o].plus \in Nat /\ rows[o].minus \in Nat /\ Amount[o] \in Nat
      /\ donation \in [Order -> {None} \cup PledgeDoc]
  BY <1>1, RowsRead
<1>3. CASE donation[o] = None \/ donation[o].outcome # "live"
  <2>1. UNCHANGED <<rows, donation>>
    BY <1>3 DEF ReverseForOrder
  <2>2. donation[o] # None => o \in handled
    BY <1>1, <1>3 DEF RowFits
  <2>3. RowFits(o)'
    BY <1>1, <1>3, <2>1, <2>2 DEF RowFits, Net, Kept
  <2> QED
    BY <1>1, <2>1, <2>3, OthersStay
<1>4. CASE ~(donation[o] = None \/ donation[o].outcome # "live")
  <2>1. PICK kept \in Nat, out \in {"reduced", "absorbed"} :
           /\ rows' = Adjusted(o, kept)
           /\ donation' = [donation EXCEPT ![o].outcome = out]
           /\ kept = IF out = "reduced" THEN 0 ELSE Amount[o]
    <3>1. CASE Reversible(o)
      BY <1>4, <3>1 DEF ReverseForOrder
    <3>2. CASE ~Reversible(o)
      BY <1>2, <1>4, <3>2 DEF ReverseForOrder
    <3> QED
      BY <3>1, <3>2
  <2>2. /\ rows'[o].plus \in Nat /\ rows'[o].minus \in Nat
        /\ rows'[o].plus - rows'[o].minus = kept
        /\ \A p \in Order \ {o} : rows'[p] = rows[p]
    BY <1>1, <2>1, AdjustedRows
  <2>3. donation[o] \in PledgeDoc
    BY <1>2, <1>4
  <2>4. donation'[o] # None /\ donation'[o].outcome = out
    <3>1. [donation[o] EXCEPT !.outcome = out] \in PledgeDoc
            /\ [donation[o] EXCEPT !.outcome = out].outcome = out
      BY <2>3 DEF PledgeDoc
    <3> QED
      BY <1>2, <2>1, <3>1, NoneIsNoPledge
  <2>5. Net(o)' = kept /\ Kept(o)' = kept
    BY <2>1, <2>2, <2>4 DEF Net, Kept
  <2>6. rows'[o].minus <= rows'[o].plus
    BY <2>2
  <2>7. RowFits(o)'
    BY <1>1, <2>4, <2>5, <2>6 DEF RowFits
  <2>8. \A p \in Order \ {o} : donation'[p] = donation[p]
    BY <1>2, <2>1
  <2> QED
    BY <1>1, <2>2, <2>7, <2>8, OthersStay
<1> QED
  BY <1>3, <1>4

LEMMA NextRows == Shape /\ RowsFit /\ [Next]_vars => RowsFit'
<1> SUFFICES ASSUME Shape, RowsFit, [Next]_vars PROVE RowsFit'
  OBVIOUS
<1>1. ASSUME NEW o \in Order, Complete(o) \/ CancelPaid(o) \/ Refund(o) PROVE RowsFit'
  BY <1>1, OrdersRows
<1>2. ASSUME NEW o \in Order, ReverseForOrder(o) PROVE RowsFit'
  BY <1>2, ReverseRows
<1>3. ASSUME NEW w \in Worker, Pledge(w) PROVE RowsFit'
  BY <1>3, PledgeRows
<1>4. CASE UNCHANGED <<order, rows, donation, handled>>
  BY <1>4, RowStays DEF RowsFit
<1>5. \/ UNCHANGED <<order, rows, donation, handled>>
      \/ \E o \in Order : Complete(o) \/ CancelPaid(o) \/ Refund(o) \/ ReverseForOrder(o)
      \/ \E w \in Worker : Pledge(w)
  BY DEF Next, FindPool, Rotate, CreateNext, Fail, Take, EditTarget, DonatePoints, OpenDefault,
         ResetArchives, ResetInserts, ResetDies, ArchiveFunded, vars, adminVars, ghostVars
<1> QED
  BY <1>1, <1>2, <1>3, <1>4, <1>5

-----------------------------------------------------------------------------
(* Orders refunded behind the back of a worker. *)

RacedFit ==
  \A w \in Worker :
     Pledging(w) /\ order[worker[w].order] = "refunded" => worker[w].order \in raced

Raced == RacedFit /\ RefundedPledgeOnlyInRace

(* A worker that reads its order leaves the refunded ones. *)
LEMMA RacedStands ==
  ASSUME Raced, UNCHANGED <<order, raced>>, handled \subseteq handled',
         \A w \in Worker : Pledging(w)' =>
            \/ Pledging(w) /\ worker'[w].order = worker[w].order
            \/ order[worker'[w].order] # "refunded",
         \A o \in Order :
            donation'[o] # None /\ donation'[o].outcome = "live"
              /\ order[o] = "refunded" /\ o \in handled' =>
                 \/ o \in raced
                 \/ o \in handled /\ donation[o] # None /\ donation[o].outcome = "live"
  PROVE  Raced'
<1>1. ASSUME NEW w \in Worker, Pledging(w)', order'[worker'[w].order] = "refunded"
      PROVE  worker'[w].order \in raced'
  BY <1>1 DEF Raced, RacedFit
<1>2. ASSUME NEW o \in Order, order'[o] = "refunded", donation'[o] # None,
             donation'[o].outcome = "live"
      PROVE  o \notin handled' \/ o \in raced'
  BY <1>2 DEF Raced, RefundedPledgeOnlyInRace
<1>3. RacedFit'
  BY <1>1 DEF RacedFit
<1>4. RefundedPledgeOnlyInRace'
  BY <1>2 DEF RefundedPledgeOnlyInRace
<1> QED
  BY <1>3, <1>4 DEF Raced

LEMMA OrdersRaced ==
  ASSUME Shape, RowsFit, Raced, NEW o \in Order, Complete(o) \/ CancelPaid(o) \/ Refund(o)
  PROVE  Raced'
<1>1. /\ UNCHANGED <<donation, worker, handled>> /\ raced \subseteq raced'
      /\ order \in [Order -> OrderStatus]
  BY DEF Complete, CancelPaid, Refund, ghostVars, Shape, Types
<1>2. /\ o \notin handled /\ \A p \in Order \ {o} : order'[p] = order[p]
      /\ order'[o] = "refunded" => Refund(o)
  BY <1>1 DEF Complete, CancelPaid, Refund, RowsFit, RowFits
<1>3. ASSUME NEW w \in Worker, Pledging(w)', order'[worker'[w].order] = "refunded"
      PROVE  worker'[w].order \in raced'
  <2>1. WorkerFits(w) /\ Pledging(w) /\ worker'[w].order = worker[w].order
    BY <1>1, <1>3 DEF Shape, WorkersFit, Pledging
  <2>2. worker[w].order \in Order
    BY <2>1 DEF WorkerFits
  <2>3. CASE worker[w].order = o
    BY <1>2, <1>3, <2>1, <2>3 DEF Refund, Pledging
  <2>4. CASE worker[w].order # o
    <3>1. order[worker[w].order] = "refunded"
      BY <1>2, <1>3, <2>1, <2>2, <2>4
    <3> QED
      BY <1>1, <2>1, <3>1 DEF Raced, RacedFit
  <2> QED
    BY <2>3, <2>4
<1>4. ASSUME NEW p \in Order, order'[p] = "refunded", donation'[p] # None,
             donation'[p].outcome = "live"
      PROVE  p \notin handled' \/ p \in raced'
  BY <1>1, <1>2, <1>4 DEF Raced, RefundedPledgeOnlyInRace
<1>5. RacedFit'
  BY <1>3 DEF RacedFit
<1>6. RefundedPledgeOnlyInRace'
  BY <1>4 DEF RefundedPledgeOnlyInRace
<1> QED
  BY <1>5, <1>6 DEF Raced

LEMMA WorkerRaced ==
  ASSUME Shape, Raced, UNCHANGED <<order, raced, handled, donation>>,
         NEW w \in Worker, \A v \in Worker \ {w} : worker'[v] = worker[v],
         Pledging(w)' => \/ Pledging(w) /\ worker'[w].order = worker[w].order
                         \/ order[worker'[w].order] # "refunded"
  PROVE  Raced'
<1>1. ASSUME NEW v \in Worker, Pledging(v)'
      PROVE  \/ Pledging(v) /\ worker'[v].order = worker[v].order
             \/ order[worker'[v].order] # "refunded"
  BY <1>1 DEF Pledging
<1> QED
  BY <1>1, RacedStands

LEMMA WorkersRaced ==
  ASSUME Shape, Raced, NEW w \in Worker,
         FindPool(w) \/ Rotate(w) \/ CreateNext(w) \/ Fail(w) \/ (\E o \in Order : Take(w, o))
  PROVE  Raced'
<1>1. UNCHANGED <<order, raced, handled, donation>> /\ worker \in [Worker -> WorkerDoc]
  BY DEF FindPool, Rotate, CreateNext, Fail, Take, ghostVars, Shape, Types
<1>2. CASE FindPool(w)
  <2>1. PICK p : worker' = [worker EXCEPT ![w].at = "pooled", ![w].pool = p]
    BY <1>2 DEF FindPool
  <2>2. worker' = [worker EXCEPT ![w] = Delivery("pooled", worker[w].order, p, worker[w].target,
                                                 worker[w].overflow)]
    BY <1>1, <2>1, PoolTaken
  <2>3. worker'[w].order = worker[w].order /\ \A v \in Worker \ {w} : worker'[v] = worker[v]
    BY <1>1, <2>2, DeliveryFields
  <2>4. Pledging(w)
    BY <1>2 DEF FindPool, Pledging
  <2> QED
    BY <1>1, <2>3, <2>4, WorkerRaced
<1>3. CASE Rotate(w)
  <2>1. CASE Fundable(worker[w].pool)
    <3> DEFINE p == worker[w].pool
               next == IF pools[p].goal = LastGoal THEN Idle
                       ELSE Delivery("next", worker[w].order, p, worker[w].target,
                                     Overflow(p, worker[w].target))
    <3>1. worker' = [worker EXCEPT ![w] = next]
      BY <1>3, <2>1, RotateReads
    <3>2. next.at \in {"idle", "next"}
      BY DeliveryFields DEF Idle
    <3> HIDE DEF next
    <3>3. ~Pledging(w)' /\ \A v \in Worker \ {w} : worker'[v] = worker[v]
      BY <1>1, <3>1, <3>2 DEF Pledging
    <3> QED
      BY <1>1, <3>3, WorkerRaced
  <2>2. CASE ~Fundable(worker[w].pool)
    <3>1. ~Pledging(w)' /\ \A v \in Worker \ {w} : worker'[v] = worker[v]
      BY <1>1, <1>3, <2>2 DEF Rotate, Finish, Pledging, Idle
    <3> QED
      BY <1>1, <3>1, WorkerRaced
  <2> QED
    BY <2>1, <2>2
<1>4. CASE CreateNext(w)
  <2>1. CASE Open = {}
    <3> DEFINE next == IF worker[w].overflow >= Target
                         THEN Delivery("rotate", worker[w].order, Len(pools) + 1, Target, 0)
                         ELSE Idle
    <3>1. worker' = [worker EXCEPT ![w] = next]
      BY <1>4, <2>1, CreateReads
    <3>2. next.at \in {"idle", "rotate"}
      BY DEF Idle, Delivery
    <3> HIDE DEF next
    <3>3. ~Pledging(w)' /\ \A v \in Worker \ {w} : worker'[v] = worker[v]
      BY <1>1, <3>1, <3>2 DEF Pledging
    <3> QED
      BY <1>1, <3>3, WorkerRaced
  <2>2. CASE Open # {}
    <3>1. ~Pledging(w)' /\ \A v \in Worker \ {w} : worker'[v] = worker[v]
      BY <1>1, <1>4, <2>2 DEF CreateNext, Finish, Pledging, Idle
    <3> QED
      BY <1>1, <3>1, WorkerRaced
  <2> QED
    BY <2>1, <2>2
<1>5. CASE Fail(w)
  <2>1. ~Pledging(w)' /\ \A v \in Worker \ {w} : worker'[v] = worker[v]
    BY <1>1, <1>5 DEF Fail, Finish, Pledging, Idle
  <2> QED
    BY <1>1, <2>1, WorkerRaced
<1>6. ASSUME NEW o \in Order, Take(w, o) PROVE Raced'
  <2>1. /\ worker' = [worker EXCEPT ![w] = [Idle EXCEPT !.at = "checked", !.order = o]]
        /\ order[o] # "refunded"
    BY <1>6 DEF Take
  <2>2. worker'[w].order = o /\ \A v \in Worker \ {w} : worker'[v] = worker[v]
    BY <1>1, <2>1 DEF Idle
  <2> QED
    BY <1>1, <2>1, <2>2, WorkerRaced
<1> QED
  BY <1>2, <1>3, <1>4, <1>5, <1>6

LEMMA PledgeRaced ==
  ASSUME Shape, Raced, NEW w \in Worker, Pledge(w)
  PROVE  Raced'
<1>1. /\ UNCHANGED <<order, raced, handled>> /\ worker \in [Worker -> WorkerDoc]
      /\ donation \in [Order -> {None} \cup PledgeDoc]
      /\ worker[w].at = "pooled" /\ WorkerFits(w)
  BY DEF Pledge, ghostVars, Shape, Types, WorkersFit
<1>2. PICK o \in Order : o = worker[w].order
  BY <1>1 DEF WorkerFits, Pledging
<1>3. order[o] = "refunded" => o \in raced
  BY <1>1, <1>2 DEF Raced, RacedFit, Pledging
<1>4. ~Pledging(w)' /\ \A v \in Worker \ {w} : worker'[v] = worker[v]
  <2>1. CASE worker' = [worker EXCEPT ![w] = Idle]
    BY <1>1, <2>1 DEF Pledging, Idle
  <2>2. CASE worker' = [worker EXCEPT ![w].at = "rotate", ![w].target = pools[worker[w].pool].target]
    <3> DEFINE t == pools[worker[w].pool].target
    <3>1. worker' = [worker EXCEPT ![w].at = "rotate", ![w].target = t]
      BY <2>2
    <3> HIDE DEF t
    <3>2. worker' = [worker EXCEPT ![w] = Delivery("rotate", worker[w].order, worker[w].pool, t,
                                                   worker[w].overflow)]
      BY <1>1, <3>1, TargetTaken
    <3>3. worker'[w].at = "rotate" /\ \A v \in Worker \ {w} : worker'[v] = worker[v]
      BY <1>1, <3>2, DeliveryFields
    <3> QED
      BY <3>3 DEF Pledging
  <2> QED
    BY <2>1, <2>2 DEF Pledge, Finish
<1>5. \A p \in Order \ {o} : donation'[p] = donation[p]
  BY <1>1, <1>2 DEF Pledge
<1>6. \A v \in Worker : Pledging(v)' => Pledging(v) /\ worker'[v].order = worker[v].order
  BY <1>4 DEF Pledging
<1> QED
  BY <1>1, <1>3, <1>5, <1>6, RacedStands

LEMMA ReverseRaced ==
  ASSUME Shape, Raced, NEW o \in Order, ReverseForOrder(o)
  PROVE  Raced'
<1>1. /\ UNCHANGED <<order, raced, worker>> /\ handled' = handled \cup {o}
      /\ donation \in [Order -> {None} \cup PledgeDoc]
  BY DEF ReverseForOrder, Shape, Types
<1>2. \A p \in Order \ {o} : donation'[p] = donation[p]
  BY <1>1 DEF ReverseForOrder
<1>3. donation'[o] = None \/ donation'[o].outcome # "live"
  <2>1. CASE donation[o] = None \/ donation[o].outcome # "live"
    BY <2>1 DEF ReverseForOrder
  <2>2. CASE ~(donation[o] = None \/ donation[o].outcome # "live")
    <3>1. PICK out \in {"reduced", "absorbed"} : donation' = [donation EXCEPT ![o].outcome = out]
      BY <2>2 DEF ReverseForOrder
    <3>2. [donation[o] EXCEPT !.outcome = out].outcome = out
      BY <1>1, <2>2 DEF PledgeDoc
    <3> QED
      BY <1>1, <3>1, <3>2
  <2> QED
    BY <2>1, <2>2
<1>4. \A w \in Worker : Pledging(w)' => Pledging(w) /\ worker'[w].order = worker[w].order
  BY <1>1 DEF Pledging
<1> QED
  BY <1>1, <1>2, <1>3, <1>4, RacedStands

LEMMA NextRaced == Shape /\ RowsFit /\ Raced /\ [Next]_vars => Raced'
<1> SUFFICES ASSUME Shape, RowsFit, Raced, [Next]_vars PROVE Raced'
  OBVIOUS
<1>1. ASSUME NEW o \in Order, Complete(o) \/ CancelPaid(o) \/ Refund(o) PROVE Raced'
  BY <1>1, OrdersRaced
<1>2. ASSUME NEW o \in Order, ReverseForOrder(o) PROVE Raced'
  BY <1>2, ReverseRaced
<1>3. ASSUME NEW w \in Worker, Pledge(w) PROVE Raced'
  BY <1>3, PledgeRaced
<1>4. ASSUME NEW w \in Worker,
             FindPool(w) \/ Rotate(w) \/ CreateNext(w) \/ Fail(w) \/ (\E o \in Order : Take(w, o))
      PROVE  Raced'
  BY <1>4, WorkersRaced
<1>5. CASE UNCHANGED <<order, donation, worker, handled, raced>>
  <2>1. \A w \in Worker : Pledging(w)' => Pledging(w) /\ worker'[w].order = worker[w].order
    BY <1>5 DEF Pledging
  <2> QED
    BY <1>5, <2>1, RacedStands
<1>6. \/ UNCHANGED <<order, donation, worker, handled, raced>>
      \/ \E o \in Order : Complete(o) \/ CancelPaid(o) \/ Refund(o) \/ ReverseForOrder(o)
      \/ \E w \in Worker :
            \/ FindPool(w) \/ Pledge(w) \/ Rotate(w) \/ CreateNext(w) \/ Fail(w)
            \/ \E o \in Order : Take(w, o)
  BY DEF Next, EditTarget, DonatePoints, OpenDefault,
         ResetArchives, ResetInserts, ResetDies, ArchiveFunded, vars, adminVars, ghostVars
<1> QED
  BY <1>1, <1>2, <1>3, <1>4, <1>5, <1>6

-----------------------------------------------------------------------------
(* The hand-over of a goal: none while it is active, one when it is not. *)

NextOf(p) == {q \in DOMAIN pools : pools[q].from = p}
Hands(p) == {w \in Worker : worker[w].at = "next" /\ worker[w].pool = p}
Drops(p) == {d \in dropped : d.pool = p}

Unsucceeded(p) == NextOf(p) = {} /\ Hands(p) = {} /\ Drops(p) = {}
Succeeded(p) ==
  \/ (\E q : NextOf(p) = {q}) /\ Hands(p) = {} /\ Drops(p) = {}
  \/ NextOf(p) = {} /\ (\E w : Hands(p) = {w}) /\ Drops(p) = {}
  \/ NextOf(p) = {} /\ Hands(p) = {} /\ (\E d : Drops(p) = {d})

SuccessionFits(p) == IF pools[p].status = "active" THEN Unsucceeded(p) ELSE Succeeded(p)

Succession ==
  /\ \A p \in DOMAIN pools : SuccessionFits(p)
  /\ \A d \in dropped : d.pool \in DOMAIN pools

(* The numbers the property compares. *)
LEMMA SuccessionCounts == Succession => FundedIsSucceededOnce
<1> SUFFICES ASSUME Succession, NEW p \in DOMAIN pools
             PROVE  Cardinality(NextOf(p)) + Cardinality(Hands(p)) + Cardinality(Drops(p))
                      = IF pools[p].status = "active" THEN 0 ELSE 1
  BY DEF FundedIsSucceededOnce, NextOf, Hands, Drops
<1>1. Cardinality({}) = 0 /\ \A x : Cardinality({x}) = 1
  BY FS_EmptySet, FS_Singleton
<1>2. SuccessionFits(p)
  BY DEF Succession
<1>3. CASE pools[p].status = "active"
  BY <1>1, <1>2, <1>3 DEF SuccessionFits, Unsucceeded
<1>4. CASE pools[p].status # "active"
  <2>1. Succeeded(p)
    BY <1>2, <1>4 DEF SuccessionFits
  <2>2. \/ /\ Cardinality(NextOf(p)) = 1 /\ Cardinality(Hands(p)) = 0
           /\ Cardinality(Drops(p)) = 0
        \/ /\ Cardinality(NextOf(p)) = 0 /\ Cardinality(Hands(p)) = 1
           /\ Cardinality(Drops(p)) = 0
        \/ /\ Cardinality(NextOf(p)) = 0 /\ Cardinality(Hands(p)) = 0
           /\ Cardinality(Drops(p)) = 1
    BY <1>1, <2>1, Zenon DEF Succeeded
  <2> QED
    BY <1>4, <2>2
<1> QED
  BY <1>3, <1>4

(* Nothing that belongs to a pool changes. *)
LEMMA SuccessionStays ==
  ASSUME NEW p, SuccessionFits(p), NextOf(p)' = NextOf(p), Hands(p)' = Hands(p),
         Drops(p)' = Drops(p), pools'[p].status = "active" <=> pools[p].status = "active"
  PROVE  SuccessionFits(p)'
BY DEF SuccessionFits, Succeeded, Unsucceeded

(* The pools keep their origins, and none is opened or closed. *)
LEMMA PoolsSucceed ==
  ASSUME Succession, DOMAIN pools' = DOMAIN pools, UNCHANGED dropped,
         \A p \in DOMAIN pools :
            /\ pools'[p].from = pools[p].from
            /\ pools'[p].status = "active" <=> pools[p].status = "active",
         \A w \in Worker :
            \/ worker'[w] = worker[w]
            \/ worker[w].at # "next" /\ worker'[w].at # "next"
  PROVE  Succession'
<1>1. ASSUME NEW p \in DOMAIN pools PROVE SuccessionFits(p)'
  <2>1. NextOf(p)' = NextOf(p)
    BY DEF NextOf
  <2>2. Hands(p)' = Hands(p)
    BY DEF Hands
  <2>3. Drops(p)' = Drops(p)
    BY DEF Drops
  <2> QED
    BY <2>1, <2>2, <2>3, SuccessionStays DEF Succession
<1> QED
  BY <1>1 DEF Succession

(* A worker about to create the next pool drops its overflow. *)
LEMMA LoseSucceeds ==
  ASSUME Shape, Succession, NEW w \in Worker, worker[w].at = "next", Lose(w), Finish(w),
         UNCHANGED pools
  PROVE  Succession'
<1>1. worker \in [Worker -> WorkerDoc] /\ WorkerFits(w)
  BY DEF Shape, Types, WorkersFit
<1>2. PICK p \in DOMAIN pools : p = worker[w].pool
  BY <1>1 DEF WorkerFits, Working
<1>3. PICK d : d = [pool |-> worker[w].pool, amount |-> worker[w].overflow]
  OBVIOUS
<1>4. dropped' = dropped \cup {d} /\ d.pool = p
  BY <1>2, <1>3 DEF Lose
<1>5. worker'[w] = Idle /\ \A v \in Worker \ {w} : worker'[v] = worker[v]
  BY <1>1 DEF Finish
<1>6. Hands(p) = {w} /\ Drops(p) = {} /\ NextOf(p) = {} /\ pools[p].status # "active"
  <2>1. SuccessionFits(p) /\ w \in Hands(p)
    BY <1>2 DEF Succession, Hands
  <2> QED
    BY <2>1 DEF SuccessionFits, Unsucceeded, Succeeded
<1>7. SuccessionFits(p)'
  <2>1. Hands(p)' = {}
    BY <1>5, <1>6 DEF Hands, Idle
  <2>2. Drops(p)' = {d}
    BY <1>4, <1>6 DEF Drops
  <2>3. NextOf(p)' = {}
    BY <1>6 DEF NextOf
  <2> QED
    BY <1>6, <2>1, <2>2, <2>3 DEF SuccessionFits, Succeeded
<1>8. ASSUME NEW q \in DOMAIN pools \ {p} PROVE SuccessionFits(q)'
  <2>1. Hands(q)' = Hands(q)
    BY <1>2, <1>5 DEF Hands, Idle
  <2>2. Drops(q)' = Drops(q)
    BY <1>4 DEF Drops
  <2>3. NextOf(q)' = NextOf(q)
    BY DEF NextOf
  <2> QED
    BY <2>1, <2>2, <2>3, SuccessionStays DEF Succession
<1>9. \A e \in dropped' : e.pool \in DOMAIN pools'
  BY <1>4 DEF Succession
<1> QED
  BY <1>7, <1>8, <1>9 DEF Succession

(* A pool is opened from a pool whose worker hands over, or from none. *)
LEMMA OpenSucceeds ==
  ASSUME Shape, Succession, NEW doc \in PoolDoc, pools' = Append(pools, doc),
         doc.status = "active", UNCHANGED dropped,
         \/ doc.from = 0 /\ UNCHANGED worker
         \/ \E w \in Worker : /\ worker[w].at = "next" /\ doc.from = worker[w].pool
                              /\ worker'[w].at # "next"
                              /\ \A v \in Worker \ {w} : worker'[v] = worker[v]
  PROVE  Succession'
<1> DEFINE n == Len(pools) + 1
<1>1. /\ pools \in Seq(PoolDoc) /\ DOMAIN pools' = DOMAIN pools \cup {n} /\ n \notin DOMAIN pools
      /\ pools'[n] = doc /\ \A q \in DOMAIN pools : pools'[q] = pools[q]
  BY PoolOpened DEF Shape, Types
<1>2. n \in Nat /\ DOMAIN pools = 1 .. Len(pools) /\ 0 \notin DOMAIN pools
  BY <1>1
<1>3. PICK m : m = n
  OBVIOUS
<1>4. /\ DOMAIN pools' = DOMAIN pools \cup {m} /\ m \notin DOMAIN pools
      /\ pools'[m] = doc /\ \A q \in DOMAIN pools : pools'[q] = pools[q]
  BY <1>1, <1>3
<1>5. doc.from \in {0} \cup DOMAIN pools
  BY DEF Shape, WorkersFit, WorkerFits, Working
<1>6. SuccessionFits(m)'
  <2>1. NextOf(m)' = {}
    <3>1. \A q \in DOMAIN pools : pools[q].from # m
      BY <1>1, <1>2, <1>3 DEF Shape, PoolsFit
    <3> QED
      BY <1>2, <1>3, <1>4, <1>5, <3>1 DEF NextOf
  <2>2. Hands(m)' = {}
    <3>1. \A v \in Worker : worker[v].at = "next" => worker[v].pool # m
      BY <1>4 DEF Shape, WorkersFit, WorkerFits, Working
    <3>2. \A v \in Worker : worker'[v].at = "next" => worker'[v] = worker[v]
      OBVIOUS
    <3> QED
      BY <3>1, <3>2 DEF Hands
  <2>3. Drops(m)' = {}
    BY <1>4 DEF Drops, Succession
  <2> QED
    BY <1>4, <2>1, <2>2, <2>3 DEF SuccessionFits, Unsucceeded
<1>7. ASSUME NEW q \in DOMAIN pools PROVE SuccessionFits(q)'
  <2>1. Drops(q)' = Drops(q)
    BY DEF Drops
  <2>2. CASE q # doc.from
    <3>1. NextOf(q)' = NextOf(q)
      BY <1>4, <2>2 DEF NextOf
    <3>2. Hands(q)' = Hands(q)
      BY <2>2 DEF Hands
    <3> QED
      BY <1>4, <2>1, <3>1, <3>2, SuccessionStays DEF Succession
  <2>3. CASE q = doc.from
    <3>1. PICK w \in Worker :
            /\ worker[w].at = "next" /\ q = worker[w].pool /\ worker'[w].at # "next"
            /\ \A v \in Worker \ {w} : worker'[v] = worker[v]
      BY <1>2, <2>3
    <3>2. w \in Hands(q) /\ SuccessionFits(q)
      BY <3>1 DEF Hands, Succession
    <3>3. Hands(q) = {w} /\ NextOf(q) = {} /\ Drops(q) = {} /\ pools[q].status # "active"
      BY <3>2 DEF SuccessionFits, Succeeded, Unsucceeded
    <3>4. NextOf(q)' = {m}
      BY <1>4, <2>3, <3>3 DEF NextOf
    <3>5. Hands(q)' = {}
      BY <3>1, <3>3 DEF Hands
    <3> QED
      BY <1>4, <2>1, <3>3, <3>4, <3>5 DEF SuccessionFits, Succeeded
  <2> QED
    BY <2>2, <2>3
<1>8. \A e \in dropped' : e.pool \in DOMAIN pools'
  BY <1>4 DEF Succession
<1> QED
  BY <1>4, <1>6, <1>7, <1>8 DEF Succession

(* A pool is closed: its worker hands over, or the last goal drops its
   overflow. *)
LEMMA RotateSucceeds ==
  ASSUME Shape, Succession, NEW w \in Worker, Rotate(w), Fundable(worker[w].pool)
  PROVE  Succession'
<1>1. PICK p \in DOMAIN pools : p = worker[w].pool
  BY RotateReads
<1>2. PICK x \in Nat : x = Overflow(p, worker[w].target)
  BY <1>1, RotateReads
<1>3. PICK last \in BOOLEAN : last = (pools[p].goal = LastGoal)
  OBVIOUS
<1>4. PICK doc \in PoolDoc :
         /\ pools' = [pools EXCEPT ![p] = doc] /\ doc.from = pools[p].from
         /\ doc.status = (IF last THEN "complete" ELSE "funded")
  BY <1>1, <1>3, RotateReads
<1>5. /\ worker' = [worker EXCEPT ![w] =
                     IF last THEN Idle ELSE Delivery("next", worker[w].order, p, worker[w].target, x)]
      /\ dropped' = IF last THEN dropped \cup {[pool |-> p, amount |-> x]} ELSE dropped
  BY <1>1, <1>2, <1>3, RotateReads
<1>6. worker \in [Worker -> WorkerDoc] /\ pools \in Seq(PoolDoc) /\ worker[w].at = "rotate"
  BY DEF Shape, Types, Rotate
<1>7. /\ DOMAIN pools' = DOMAIN pools /\ \A q \in DOMAIN pools : pools'[q].from = pools[q].from
      /\ \A q \in DOMAIN pools \ {p} : pools'[q] = pools[q]
      /\ pools'[p].status # "active" /\ pools[p].status = "active"
  <2>1. /\ DOMAIN pools' = DOMAIN pools /\ pools'[p] = doc
        /\ \A q \in DOMAIN pools : q # p => pools'[q] = pools[q]
    BY <1>4, <1>6, PoolWritten
  <2> QED
    BY <1>1, <1>4, <2>1 DEF Fundable
<1>8. /\ \A v \in Worker \ {w} : worker'[v] = worker[v]
      /\ last => worker'[w].at = "idle"
      /\ ~last => worker'[w].at = "next" /\ worker'[w].pool = p
  <2>1. \A v \in Worker \ {w} : worker'[v] = worker[v]
    BY <1>5, <1>6
  <2>2. CASE last
    BY <1>5, <1>6, <2>1, <2>2 DEF Idle
  <2>3. CASE ~last
    BY <1>5, <1>6, <2>1, <2>3, DeliveryFields
  <2> QED
    BY <2>1, <2>2, <2>3
<1>9. NextOf(p) = {} /\ Hands(p) = {} /\ Drops(p) = {}
  BY <1>7 DEF Succession, SuccessionFits, Unsucceeded
<1>10. PICK d : d = [pool |-> p, amount |-> x]
  OBVIOUS
<1>11. dropped' = (IF last THEN dropped \cup {d} ELSE dropped) /\ d.pool = p
  BY <1>5, <1>10
<1>12. SuccessionFits(p)'
  <2>1. NextOf(p)' = {}
    BY <1>7, <1>9 DEF NextOf
  <2>2. CASE last
    <3>1. Hands(p)' = {}
      BY <1>8, <1>9, <2>2 DEF Hands
    <3>2. Drops(p)' = {d}
      BY <1>9, <1>11, <2>2 DEF Drops
    <3> QED
      BY <1>7, <2>1, <3>1, <3>2 DEF SuccessionFits, Succeeded
  <2>3. CASE ~last
    <3>1. Hands(p)' = {w}
      BY <1>8, <1>9, <2>3 DEF Hands
    <3>2. Drops(p)' = {}
      BY <1>9, <1>11, <2>3 DEF Drops
    <3> QED
      BY <1>7, <2>1, <3>1, <3>2 DEF SuccessionFits, Succeeded
  <2> QED
    BY <2>2, <2>3
<1>13. ASSUME NEW q \in DOMAIN pools \ {p} PROVE SuccessionFits(q)'
  <2>1. NextOf(q)' = NextOf(q)
    BY <1>7 DEF NextOf
  <2>2. Hands(q)' = Hands(q)
    BY <1>6, <1>8 DEF Hands
  <2>3. Drops(q)' = Drops(q)
    BY <1>11 DEF Drops
  <2> QED
    BY <1>7, <2>1, <2>2, <2>3, SuccessionStays DEF Succession
<1>14. \A e \in dropped' : e.pool \in DOMAIN pools'
  BY <1>7, <1>11 DEF Succession
<1> QED
  BY <1>7, <1>12, <1>13, <1>14 DEF Succession

\* One field of a pool is written, its origin and its status are not.
LEMMA FieldWritten ==
  ASSUME Types, NEW p \in DOMAIN pools, NEW n,
         \/ pools' = [pools EXCEPT ![p].amount = n]
         \/ pools' = [pools EXCEPT ![p].target = n]
  PROVE  /\ DOMAIN pools' = DOMAIN pools
         /\ \A q \in DOMAIN pools :
               /\ pools'[q].from = pools[q].from
               /\ pools'[q].status = "active" <=> pools[q].status = "active"
<1>1. pools[p] \in PoolDoc
  BY DEF Types
<1>2. /\ [pools[p] EXCEPT !.amount = n].from = pools[p].from
      /\ [pools[p] EXCEPT !.amount = n].status = pools[p].status
      /\ [pools[p] EXCEPT !.target = n].from = pools[p].from
      /\ [pools[p] EXCEPT !.target = n].status = pools[p].status
  BY <1>1 DEF PoolDoc
<1>3. DOMAIN pools' = DOMAIN pools /\ \A q \in DOMAIN pools \ {p} : pools'[q] = pools[q]
  OBVIOUS
<1>4. pools'[p] = [pools[p] EXCEPT !.amount = n] \/ pools'[p] = [pools[p] EXCEPT !.target = n]
  OBVIOUS
<1> QED
  BY <1>2, <1>3, <1>4

LEMMA PledgeSucceeds ==
  ASSUME Shape, Succession, NEW w \in Worker, Pledge(w)
  PROVE  Succession'
<1>1. /\ Types /\ UNCHANGED dropped /\ worker[w].at = "pooled" /\ WorkerFits(w)
      /\ worker \in [Worker -> WorkerDoc]
  BY DEF Shape, Types, WorkersFit, Pledge, ghostVars
<1>2. worker[w].pool \in DOMAIN pools
  BY <1>1 DEF WorkerFits, Working
<1>3. \/ pools' = pools
      \/ pools' = [pools EXCEPT ![worker[w].pool].amount = @ + Amount[worker[w].order]]
  BY DEF Pledge
<1>4. /\ DOMAIN pools' = DOMAIN pools
      /\ \A q \in DOMAIN pools :
            /\ pools'[q].from = pools[q].from
            /\ pools'[q].status = "active" <=> pools[q].status = "active"
  <2>1. CASE pools' = pools
    BY <2>1
  <2>2. CASE pools' = [pools EXCEPT ![worker[w].pool].amount = @ + Amount[worker[w].order]]
    <3>1. PICK p, n : /\ p \in DOMAIN pools /\ p = worker[w].pool
                      /\ n = pools[p].amount + Amount[worker[w].order]
      BY <1>2
    <3>2. pools' = [pools EXCEPT ![p].amount = n]
      BY <2>2, <3>1
    <3> QED
      BY <1>1, <3>2, FieldWritten
  <2> QED
    BY <1>3, <2>1, <2>2
<1>5. worker'[w].at # "next" /\ \A v \in Worker \ {w} : worker'[v] = worker[v]
  <2>1. CASE worker' = [worker EXCEPT ![w] = Idle]
    BY <1>1, <2>1 DEF Idle
  <2>2. CASE worker' = [worker EXCEPT ![w].at = "rotate", ![w].target = pools[worker[w].pool].target]
    <3>1. PICK t : t = pools[worker[w].pool].target
      OBVIOUS
    <3>2. worker' = [worker EXCEPT ![w] = Delivery("rotate", worker[w].order, worker[w].pool, t,
                                                   worker[w].overflow)]
      BY <1>1, <2>2, <3>1, TargetTaken
    <3> QED
      BY <1>1, <3>2, DeliveryFields
  <2> QED
    BY <2>1, <2>2 DEF Pledge, Finish
<1>6. \A v \in Worker :
         \/ worker'[v] = worker[v]
         \/ worker[v].at # "next" /\ worker'[v].at # "next"
  BY <1>1, <1>5
<1> QED
  BY <1>1, <1>4, <1>6, PoolsSucceed

LEMMA ReverseSucceeds ==
  ASSUME Shape, Succession, NEW o \in Order, ReverseForOrder(o)
  PROVE  Succession'
<1>1. UNCHANGED <<worker, dropped>> /\ Types /\ (donation[o] # None => donation[o].pool \in DOMAIN pools)
  BY DEF ReverseForOrder, Shape, DonationsFit
<1>2. CASE pools' = pools
  BY <1>1, <1>2, PoolsSucceed
<1>3. CASE donation[o] # None /\ pools' = [pools EXCEPT ![donation[o].pool].amount = @ - Amount[o]]
  <2>1. PICK p, n : /\ p \in DOMAIN pools /\ p = donation[o].pool
                    /\ n = pools[p].amount - Amount[o]
    BY <1>1, <1>3
  <2>2. pools' = [pools EXCEPT ![p].amount = n]
    BY <1>3, <2>1
  <2> QED
    BY <1>1, <2>2, FieldWritten, PoolsSucceed
<1>4. \/ pools' = pools
      \/ donation[o] # None /\ pools' = [pools EXCEPT ![donation[o].pool].amount = @ - Amount[o]]
  <2>1. CASE donation[o] = None \/ donation[o].outcome # "live"
    BY <2>1 DEF ReverseForOrder
  <2>2. CASE ~(donation[o] = None \/ donation[o].outcome # "live")
    <3>1. CASE Reversible(o)
      BY <2>2, <3>1 DEF ReverseForOrder
    <3>2. CASE ~Reversible(o)
      BY <2>2, <3>2 DEF ReverseForOrder
    <3> QED
      BY <3>1, <3>2
  <2> QED
    BY <2>1, <2>2
<1> QED
  BY <1>2, <1>3, <1>4

LEMMA WorkersSucceed ==
  ASSUME Shape, Succession, NEW w \in Worker,
         FindPool(w) \/ Rotate(w) \/ CreateNext(w) \/ Fail(w) \/ (\E o \in Order : Take(w, o))
  PROVE  Succession'
<1>1. worker \in [Worker -> WorkerDoc]
  BY DEF Shape, Types
<1>2. ASSUME UNCHANGED <<pools, dropped>>, worker[w].at # "next", NEW doc,
             worker' = [worker EXCEPT ![w] = doc], doc.at # "next"
      PROVE  Succession'
  BY <1>1, <1>2, PoolsSucceed
<1>3. Idle.at # "next"
  BY DEF Idle
<1>4. CASE FindPool(w)
  <2>1. PICK p : worker' = [worker EXCEPT ![w].at = "pooled", ![w].pool = p]
    BY <1>4 DEF FindPool
  <2>4. worker' = [worker EXCEPT ![w] = Delivery("pooled", worker[w].order, p, worker[w].target,
                                                 worker[w].overflow)]
    BY <1>1, <2>1, PoolTaken
  <2>2. PICK doc : /\ doc = Delivery("pooled", worker[w].order, p, worker[w].target, worker[w].overflow)
                   /\ worker' = [worker EXCEPT ![w] = doc]
    BY <2>4
  <2>3. doc.at = "pooled" /\ worker[w].at = "checked" /\ UNCHANGED <<pools, dropped>>
    BY <1>4, <2>2, DeliveryFields DEF FindPool, ghostVars
  <2> QED
    BY <1>2, <2>2, <2>3
<1>5. CASE Rotate(w)
  <2>1. CASE Fundable(worker[w].pool)
    BY <1>5, <2>1, RotateSucceeds
  <2>2. CASE ~Fundable(worker[w].pool)
    <3>1. /\ worker' = [worker EXCEPT ![w] = Idle] /\ worker[w].at = "rotate"
          /\ UNCHANGED <<pools, dropped>>
      BY <1>5, <2>2 DEF Rotate, Finish
    <3> QED
      BY <1>2, <1>3, <3>1
  <2> QED
    BY <2>1, <2>2
<1>6. CASE CreateNext(w)
  <2>1. CASE Open # {}
    <3>1. worker[w].at = "next" /\ Lose(w) /\ Finish(w) /\ UNCHANGED pools
      BY <1>6, <2>1 DEF CreateNext
    <3> QED
      BY <3>1, LoseSucceeds
  <2>2. CASE Open = {}
    <3>1. PICK doc \in PoolDoc :
             pools' = Append(pools, doc) /\ doc.from = worker[w].pool /\ doc.status = "active"
      BY <1>6, <2>2, CreateReads
    <3>2. PICK next :
             /\ next = IF worker[w].overflow >= Target
                         THEN Delivery("rotate", worker[w].order, Len(pools) + 1, Target, 0)
                         ELSE Idle
             /\ worker' = [worker EXCEPT ![w] = next]
      BY <1>6, <2>2, CreateReads
    <3>3. UNCHANGED dropped /\ worker[w].at = "next"
      BY <1>6, <2>2, CreateReads
    <3>4. next.at # "next"
      BY <1>3, <3>2 DEF Delivery
    <3>5. worker'[w].at # "next" /\ \A v \in Worker \ {w} : worker'[v] = worker[v]
      BY <1>1, <3>2, <3>4
    <3> QED
      BY <3>1, <3>3, <3>5, OpenSucceeds
  <2> QED
    BY <2>1, <2>2
<1>7. CASE Fail(w)
  <2>1. Finish(w) /\ UNCHANGED pools
    BY <1>7 DEF Fail
  <2>2. CASE worker[w].at = "next"
    BY <1>7, <2>1, <2>2, LoseSucceeds DEF Fail
  <2>3. CASE worker[w].at # "next"
    <3>1. UNCHANGED dropped
      BY <1>7, <2>3 DEF Fail
    <3> QED
      BY <1>2, <1>3, <2>1, <2>3, <3>1 DEF Finish
  <2> QED
    BY <2>2, <2>3
<1>8. ASSUME NEW o \in Order, Take(w, o) PROVE Succession'
  <2>1. PICK doc : /\ doc = [Idle EXCEPT !.at = "checked", !.order = o]
                   /\ worker' = [worker EXCEPT ![w] = doc]
    BY <1>8 DEF Take
  <2>2. doc.at = "checked"
    BY <2>1 DEF Idle
  <2>3. worker[w].at # "next" /\ UNCHANGED <<pools, dropped>>
    BY <1>3, <1>8 DEF Take, ghostVars
  <2> QED
    BY <1>2, <2>1, <2>2, <2>3
<1> QED
  BY <1>4, <1>5, <1>6, <1>7, <1>8

LEMMA OpeningsSucceed ==
  ASSUME Shape, Succession, OpenDefault \/ ResetInserts
  PROVE  Succession'
<1>1. UNCHANGED <<worker, dropped>>
  BY DEF OpenDefault, ResetInserts, ghostVars
<1>2. CASE pools' = pools
  BY <1>1, <1>2, PoolsSucceed
<1>3. CASE pools' = Append(pools, NewPool(0, 0, 0))
  <2>1. PICK doc : doc = NewPool(0, 0, 0)
    OBVIOUS
  <2>2. doc \in PoolDoc /\ doc.from = 0 /\ doc.status = "active"
    BY <2>1, AmountAssumption DEF NewPool, PoolDoc
  <2> QED
    BY <1>1, <1>3, <2>1, <2>2, OpenSucceeds
<1> QED
  BY <1>2, <1>3 DEF OpenDefault, ResetInserts

LEMMA ArchivingSucceeds ==
  ASSUME Shape, Succession, ResetArchives \/ ArchiveFunded
  PROVE  Succession'
<1>4. \A p \in DOMAIN pools : pools[p] \in PoolDoc
  BY DEF Shape, Types
<1>1. UNCHANGED <<worker, dropped>>
  BY DEF ResetArchives, ArchiveFunded, ghostVars
<1>2. DOMAIN pools' = DOMAIN pools
  BY DEF ResetArchives, ArchiveFunded
<1>3. ASSUME NEW p \in DOMAIN pools
      PROVE  /\ pools'[p].from = pools[p].from
             /\ pools'[p].status = "active" <=> pools[p].status = "active"
  <2> DEFINE one == [pools[p] EXCEPT !.archived = TRUE]
             both == [pools[p] EXCEPT !.status = "archived", !.archived = TRUE]
  <2>1. \/ pools'[p] = pools[p]
        \/ pools'[p] = one
        \/ pools'[p] = both /\ pools[p].status = "funded"
    BY <1>3 DEF ResetArchives, ArchiveFunded
  <2>2. /\ one.from = pools[p].from /\ one.status = pools[p].status
        /\ both.from = pools[p].from /\ both.status = "archived"
    BY <1>4 DEF PoolDoc
  <2> HIDE DEF one, both
  <2> QED
    BY <2>1, <2>2
<1> QED
  BY <1>1, <1>2, <1>3, PoolsSucceed

LEMMA InitSuccession == Init => Succession
<1> SUFFICES ASSUME Init PROVE Succession
  OBVIOUS
<1>1. PICK doc : doc = NewPool(0, 0, 0)
  OBVIOUS
<1>2. doc.from = 0 /\ doc.status = "active"
  BY <1>1 DEF NewPool
<1>3. DOMAIN pools = {1} /\ pools[1] = doc
  BY <1>1 DEF Init
<1>4. NextOf(1) = {} /\ Hands(1) = {} /\ Drops(1) = {}
  BY <1>2, <1>3 DEF Init, Idle, NextOf, Hands, Drops
<1> QED
  BY <1>2, <1>3, <1>4 DEF Succession, SuccessionFits, Unsucceeded, Init

LEMMA NextSuccession == Shape /\ Succession /\ [Next]_vars => Succession'
<1> SUFFICES ASSUME Shape, Succession, [Next]_vars PROVE Succession'
  OBVIOUS
<1>1. CASE UNCHANGED <<pools, worker, dropped>>
  BY <1>1, PoolsSucceed
<1>2. ASSUME NEW o \in Order, ReverseForOrder(o) PROVE Succession'
  BY <1>2, ReverseSucceeds
<1>3. ASSUME NEW w \in Worker, Pledge(w) PROVE Succession'
  BY <1>3, PledgeSucceeds
<1>4. ASSUME NEW w \in Worker,
             FindPool(w) \/ Rotate(w) \/ CreateNext(w) \/ Fail(w) \/ (\E o \in Order : Take(w, o))
      PROVE  Succession'
  BY <1>4, WorkersSucceed
<1>5. ASSUME NEW p \in DOMAIN pools, EditTarget(p) \/ DonatePoints(p) PROVE Succession'
  <2>1. Types /\ UNCHANGED <<worker, dropped>>
    BY <1>5 DEF Shape, EditTarget, DonatePoints, ghostVars
  <2>2. \E n : \/ pools' = [pools EXCEPT ![p].amount = n]
               \/ pools' = [pools EXCEPT ![p].target = n]
    BY <1>5 DEF EditTarget, DonatePoints
  <2> QED
    BY <2>1, <2>2, FieldWritten, PoolsSucceed
<1>6. CASE OpenDefault \/ ResetInserts
  BY <1>6, OpeningsSucceed
<1>7. CASE ResetArchives \/ ArchiveFunded
  BY <1>7, ArchivingSucceeds
<1>8. \/ UNCHANGED <<pools, worker, dropped>>
      \/ \E o \in Order : ReverseForOrder(o)
      \/ \E w \in Worker :
            \/ FindPool(w) \/ Pledge(w) \/ Rotate(w) \/ CreateNext(w) \/ Fail(w)
            \/ \E o \in Order : Take(w, o)
      \/ \E p \in DOMAIN pools : EditTarget(p) \/ DonatePoints(p)
      \/ OpenDefault \/ ResetInserts \/ ResetArchives \/ ArchiveFunded
  BY DEF Next, Complete, CancelPaid, Refund, ResetDies, vars, adminVars, ghostVars
<1> QED
  BY <1>1, <1>2, <1>3, <1>4, <1>5, <1>6, <1>7, <1>8

-----------------------------------------------------------------------------
(* The money in the pools, against the pledges that are kept. *)

Hand(w) == IF worker[w].at = "next" THEN worker[w].overflow ELSE 0

Held == SumFunction([p \in DOMAIN pools |-> pools[p].amount])
Lost == SumFunction([d \in dropped |-> d.amount])
InHands == SumFunction([w \in Worker |-> Hand(w)])
Pledged == SumFunction([o \in Order |-> Kept(o)])

MoneyTypes ==
  /\ gifted \in Nat
  /\ IsFiniteSet(dropped) /\ \A d \in dropped : d.amount \in Nat

Balanced == staleClaim \/ Held + Lost + InHands = Pledged + gifted

LEMMA BalanceIsProperty == Balanced <=> PoolsHoldPledges
BY DEF Balanced, PoolsHoldPledges, Held, Lost, InHands, Pledged, Hand

LEMMA PoolsAreFinite ==
  ASSUME Types
  PROVE  IsFiniteSet(DOMAIN pools) /\ \A p \in DOMAIN pools : pools[p].amount \in Nat
<1>1. DOMAIN pools = 1 .. Len(pools) /\ Len(pools) \in Nat
  BY DEF Types
<1>2. IsFiniteSet(1 .. Len(pools))
  BY <1>1, FS_Interval
<1>3. \A p \in DOMAIN pools : pools[p] \in PoolDoc
  BY DEF Types
<1> QED
  BY <1>1, <1>2, <1>3 DEF PoolDoc

LEMMA HandIsNat ==
  ASSUME Types, NEW w \in Worker
  PROVE  Hand(w) \in Nat
BY DEF Types, WorkerDoc, Hand

LEMMA KeptIsNat ==
  ASSUME NEW o \in Order
  PROVE  Kept(o) \in Nat
BY AmountAssumption DEF Kept

LEMMA SumsAreInt ==
  ASSUME Types, MoneyTypes
  PROVE  Held \in Int /\ Lost \in Int /\ InHands \in Int /\ Pledged \in Int /\ gifted \in Int
<1>1. Held \in Int
  <2>1. PICK f, S : f = [p \in DOMAIN pools |-> pools[p].amount] /\ S = DOMAIN pools
    OBVIOUS
  <2>2. Held = SumFunctionOnSet(f, S)
    BY <2>1 DEF Held, SumFunction
  <2>3. IsFiniteSet(S) /\ \A x \in S : f[x] \in Int
    BY <2>1, PoolsAreFinite
  <2> QED
    BY <2>2, <2>3, SumIsInt
<1>2. Lost \in Int
  <2>1. PICK f, S : f = [d \in dropped |-> d.amount] /\ S = dropped
    OBVIOUS
  <2>2. Lost = SumFunctionOnSet(f, S)
    BY <2>1 DEF Lost, SumFunction
  <2>3. IsFiniteSet(S) /\ \A x \in S : f[x] \in Int
    BY <2>1 DEF MoneyTypes
  <2> QED
    BY <2>2, <2>3, SumIsInt
<1>3. InHands \in Int
  <2>1. PICK f : f = [w \in Worker |-> Hand(w)]
    OBVIOUS
  <2>2. InHands = SumFunctionOnSet(f, Worker)
    BY <2>1 DEF InHands, SumFunction
  <2>3. \A x \in Worker : f[x] \in Int
    BY <2>1, HandIsNat
  <2> QED
    BY <2>2, <2>3, SumIsInt, FiniteAssumption
<1>4. Pledged \in Int
  <2>1. PICK f : f = [o \in Order |-> Kept(o)]
    OBVIOUS
  <2>2. Pledged = SumFunctionOnSet(f, Order)
    BY <2>1 DEF Pledged, SumFunction
  <2>3. \A x \in Order : f[x] \in Int
    BY <2>1, KeptIsNat
  <2> QED
    BY <2>2, <2>3, SumIsInt, FiniteAssumption
<1> QED
  BY <1>1, <1>2, <1>3, <1>4 DEF MoneyTypes

(* How each sum changes. *)
LEMMA HeldStays ==
  ASSUME DOMAIN pools' = DOMAIN pools, \A q \in DOMAIN pools : pools'[q].amount = pools[q].amount
  PROVE  Held' = Held
<1>1. [p \in DOMAIN pools' |-> pools'[p].amount] = [p \in DOMAIN pools |-> pools[p].amount]
  OBVIOUS
<1> QED
  BY <1>1 DEF Held

LEMMA HeldWritten ==
  ASSUME Types, NEW p \in DOMAIN pools, DOMAIN pools' = DOMAIN pools, pools'[p].amount \in Nat,
         \A q \in DOMAIN pools \ {p} : pools'[q].amount = pools[q].amount
  PROVE  Held' = Held - pools[p].amount + pools'[p].amount
<1>1. PICK f, g, S : /\ f = [q \in DOMAIN pools |-> pools[q].amount] /\ S = DOMAIN pools
                     /\ g = [q \in DOMAIN pools |-> pools'[q].amount]
  OBVIOUS
<1>2. Held = SumFunctionOnSet(f, S) /\ Held' = SumFunctionOnSet(g, S)
  BY <1>1 DEF Held, SumFunction
<1>3. IsFiniteSet(S) /\ p \in S /\ \A x \in S : f[x] \in Int
  BY <1>1, PoolsAreFinite
<1>4. \A x \in S : g[x] \in Int /\ (x # p => g[x] = f[x])
  <2>1. \A x \in S : IF x = p THEN g[x] = pools'[p].amount ELSE g[x] = f[x]
    BY <1>1
  <2> QED
    BY <1>3, <2>1
<1>5. SumFunctionOnSet(g, S) = SumFunctionOnSet(f, S) - f[p] + g[p]
  <2>1. IsFiniteSet(S)
    BY <1>3
  <2>2. p \in S
    BY <1>3
  <2>3. \A x \in S : f[x] \in Int /\ g[x] \in Int
    BY <1>3, <1>4
  <2>4. \A x \in S \ {p} : g[x] = f[x]
    BY <1>4
  <2> QED
    BY <2>1, <2>2, <2>3, <2>4, SumUpdated
<1>6. f[p] = pools[p].amount /\ g[p] = pools'[p].amount
  BY <1>1
<1> QED
  BY <1>2, <1>5, <1>6

LEMMA HeldOpened ==
  ASSUME Types, NEW n, n \notin DOMAIN pools, DOMAIN pools' = DOMAIN pools \cup {n},
         pools'[n].amount \in Nat, \A q \in DOMAIN pools : pools'[q].amount = pools[q].amount
  PROVE  Held' = Held + pools'[n].amount
<1>1. PICK f, g, S, T : /\ f = [q \in DOMAIN pools |-> pools[q].amount] /\ S = DOMAIN pools
                        /\ g = [q \in DOMAIN pools' |-> pools'[q].amount] /\ T = DOMAIN pools'
  OBVIOUS
<1>2. Held = SumFunctionOnSet(f, S) /\ Held' = SumFunctionOnSet(g, T)
  BY <1>1 DEF Held, SumFunction
<1>3. T = S \cup {n} /\ n \notin S
  BY <1>1
<1>4. \A x \in S : f[x] \in Int /\ g[x] = f[x]
  BY <1>1, PoolsAreFinite
<1>5. g[n] = pools'[n].amount /\ g[n] \in Int
  BY <1>1
<1>6. SumFunctionOnSet(g, T) = SumFunctionOnSet(f, S) + g[n]
  <2>1. n \notin S /\ n \in T /\ T \ {n} = S
    BY <1>3
  <2>2. IsFiniteSet(S)
    BY <1>1, PoolsAreFinite
  <2>3. \A x \in T : g[x] \in Int
    BY <1>3, <1>4, <1>5
  <2>4. \A x \in S : g[x] = f[x]
    BY <1>4
  <2> QED
    BY <2>1, <2>2, <2>3, <2>4, SumExtended
<1> QED
  BY <1>2, <1>5, <1>6

LEMMA LostMore ==
  ASSUME MoneyTypes, NEW d, d \notin dropped, d.amount \in Nat, dropped' = dropped \cup {d}
  PROVE  Lost' = Lost + d.amount /\ IsFiniteSet(dropped') /\ \A e \in dropped' : e.amount \in Nat
<1>1. PICK f, g, S : /\ f = [e \in dropped |-> e.amount] /\ S = dropped
                     /\ g = [e \in dropped \cup {d} |-> e.amount]
  OBVIOUS
<1>2. Lost = SumFunctionOnSet(f, S) /\ Lost' = SumFunctionOnSet(g, S \cup {d})
  BY <1>1 DEF Lost, SumFunction
<1>3. IsFiniteSet(S) /\ d \notin S /\ \A x \in S : f[x] \in Int /\ g[x] = f[x]
  BY <1>1 DEF MoneyTypes
<1>4. g[d] = d.amount /\ g[d] \in Int
  BY <1>1
<1>5. SumFunctionOnSet(g, S \cup {d}) = SumFunctionOnSet(f, S) + g[d]
  <2>1. d \notin S
    BY <1>3
  <2>2. g[d] \in Int
    BY <1>4
  <2>3. IsFiniteSet(S)
    BY <1>3
  <2>4. \A x \in S : g[x] \in Int /\ g[x] = f[x]
    BY <1>3
  <2> QED
    BY <2>1, <2>2, <2>3, <2>4, SumAdded
<1>6. IsFiniteSet(dropped \cup {d})
  BY FS_AddElement DEF MoneyTypes
<1> QED
  BY <1>2, <1>4, <1>5, <1>6 DEF MoneyTypes

LEMMA HandsStay ==
  ASSUME \A w \in Worker : Hand(w)' = Hand(w)
  PROVE  InHands' = InHands
<1>1. [w \in Worker |-> Hand(w)'] = [w \in Worker |-> Hand(w)]
  OBVIOUS
<1> QED
  BY <1>1 DEF InHands

LEMMA HandsMove ==
  ASSUME Types, Types', NEW w \in Worker, \A v \in Worker \ {w} : worker'[v] = worker[v]
  PROVE  InHands' = InHands - Hand(w) + Hand(w)'
<1>1. PICK f, g : f = [v \in Worker |-> Hand(v)] /\ g = [v \in Worker |-> Hand(v)']
  OBVIOUS
<1>2. InHands = SumFunctionOnSet(f, Worker) /\ InHands' = SumFunctionOnSet(g, Worker)
  BY <1>1 DEF InHands, SumFunction
<1>3. \A v \in Worker : f[v] \in Int
  BY <1>1, HandIsNat
<1>4. \A v \in Worker : g[v] \in Int
  <2>1. \A v \in Worker : Hand(v)' \in Nat
    BY DEF Types, WorkerDoc, Hand
  <2> QED
    BY <1>1, <2>1
<1>5. \A v \in Worker \ {w} : g[v] = f[v]
  BY <1>1 DEF Hand
<1>6. SumFunctionOnSet(g, Worker) = SumFunctionOnSet(f, Worker) - f[w] + g[w]
  BY <1>3, <1>4, <1>5, SumUpdated, FiniteAssumption
<1> QED
  BY <1>1, <1>2, <1>6

LEMMA PledgesStay ==
  ASSUME \A o \in Order : Kept(o)' = Kept(o)
  PROVE  Pledged' = Pledged
<1>1. [o \in Order |-> Kept(o)'] = [o \in Order |-> Kept(o)]
  OBVIOUS
<1> QED
  BY <1>1 DEF Pledged

LEMMA PledgesMove ==
  ASSUME NEW o \in Order, \A p \in Order \ {o} : donation'[p] = donation[p]
  PROVE  Pledged' = Pledged - Kept(o) + Kept(o)'
<1>1. PICK f, g : f = [p \in Order |-> Kept(p)] /\ g = [p \in Order |-> Kept(p)']
  OBVIOUS
<1>2. Pledged = SumFunctionOnSet(f, Order) /\ Pledged' = SumFunctionOnSet(g, Order)
  BY <1>1 DEF Pledged, SumFunction
<1>3. \A p \in Order : f[p] \in Int
  BY <1>1, KeptIsNat
<1>4. \A p \in Order : g[p] \in Int
  <2>1. \A p \in Order : Kept(p)' \in Nat
    BY AmountAssumption DEF Kept
  <2> QED
    BY <1>1, <2>1
<1>5. \A p \in Order \ {o} : g[p] = f[p]
  BY <1>1 DEF Kept
<1>6. SumFunctionOnSet(g, Order) = SumFunctionOnSet(f, Order) - f[o] + g[o]
  BY <1>3, <1>4, <1>5, SumUpdated, FiniteAssumption
<1> QED
  BY <1>1, <1>2, <1>6

(* The balance, from what each part of it gains. *)
LEMMA BalanceMoves ==
  ASSUME Types, MoneyTypes, Balanced, staleClaim => staleClaim',
         NEW a \in Int, NEW b \in Int, NEW c \in Int, NEW d \in Int, NEW e \in Int,
         Held' = Held + a, Lost' = Lost + b, InHands' = InHands + c,
         Pledged' = Pledged + d, gifted' = gifted + e,
         ~staleClaim' => a + b + c = d + e
  PROVE  Balanced'
<1> SUFFICES ASSUME ~staleClaim' PROVE Held' + Lost' + InHands' = Pledged' + gifted'
  BY DEF Balanced
<1>1. Held + Lost + InHands = Pledged + gifted
  BY DEF Balanced
<1>2. Held \in Int /\ Lost \in Int /\ InHands \in Int /\ Pledged \in Int /\ gifted \in Int
  BY SumsAreInt
<1>3. a + b + c = d + e
  OBVIOUS
<1> QED
  BY <1>1, <1>2, <1>3

(* Nothing that is summed changes. *)
LEMMA MoneyStands ==
  ASSUME Types, MoneyTypes, Balanced, UNCHANGED <<gifted, dropped, staleClaim>>,
         DOMAIN pools' = DOMAIN pools, \A q \in DOMAIN pools : pools'[q].amount = pools[q].amount,
         \A w \in Worker : Hand(w)' = Hand(w), \A o \in Order : Kept(o)' = Kept(o)
  PROVE  MoneyTypes' /\ Balanced'
<1>1. Held' = Held /\ InHands' = InHands /\ Pledged' = Pledged /\ Lost' = Lost
  BY HeldStays, HandsStay, PledgesStay DEF Lost
<1> QED
  BY <1>1 DEF MoneyTypes, Balanced

LEMMA TakenOver ==
  ASSUME NEW h \in Int, NEW l \in Int, NEW i \in Int, NEW p \in Int, NEW g \in Int, NEW x \in Int,
         h + l + i = p + g
  PROVE  /\ (h + x) + l + (i - x) = p + g
         /\ (h - x) + l + i = (p - x) + g
OBVIOUS

(* A pool is opened: with nothing, or with what a worker held. *)
LEMMA MoneyOpens ==
  ASSUME Types, Types', MoneyTypes, Balanced, UNCHANGED <<gifted, dropped, staleClaim, donation>>,
         NEW doc \in PoolDoc, pools' = Append(pools, doc),
         \/ doc.amount = 0 /\ UNCHANGED worker
         \/ \E w \in Worker : /\ Hand(w) = doc.amount /\ Hand(w)' = 0
                              /\ \A v \in Worker \ {w} : worker'[v] = worker[v]
  PROVE  MoneyTypes' /\ Balanced'
<1>1. PICK n : n = Len(pools) + 1
  OBVIOUS
<1>2. /\ n \notin DOMAIN pools /\ DOMAIN pools' = DOMAIN pools \cup {n} /\ pools'[n] = doc
      /\ \A q \in DOMAIN pools : pools'[q] = pools[q]
  BY <1>1, PoolOpened DEF Types
<1>3. doc.amount \in Nat
  BY DEF PoolDoc
<1>4. Held' = Held + doc.amount
  BY <1>2, <1>3, HeldOpened
<1>5. /\ Pledged' = Pledged /\ Lost' = Lost /\ MoneyTypes'
      /\ staleClaim' = staleClaim /\ gifted' = gifted
  BY PledgesStay DEF Lost, MoneyTypes, Kept
<1>6. Held \in Int /\ Lost \in Int /\ InHands \in Int /\ Pledged \in Int /\ gifted \in Int
  BY SumsAreInt
<1>7. CASE doc.amount = 0 /\ UNCHANGED worker
  <2>1. InHands' = InHands
    BY <1>7, HandsStay DEF Hand
  <2>2. Held' = Held
    BY <1>4, <1>6, <1>7
  <2> QED
    BY <1>5, <2>1, <2>2 DEF Balanced
<1>8. ASSUME NEW w \in Worker, Hand(w) = doc.amount, Hand(w)' = 0,
             \A v \in Worker \ {w} : worker'[v] = worker[v]
      PROVE  Balanced'
  <2>1. InHands' = InHands - Hand(w) + Hand(w)'
    BY <1>8, HandsMove
  <2>2. InHands' = InHands - doc.amount
    BY <1>3, <1>6, <1>8, <2>1
  <2>3. Held + Lost + InHands = Pledged + gifted
            => (Held + doc.amount) + Lost + (InHands - doc.amount) = Pledged + gifted
    <3>1. PICK h \in Int, l \in Int, i \in Int, p \in Int, g \in Int :
             h = Held /\ l = Lost /\ i = InHands /\ p = Pledged /\ g = gifted
      BY <1>6
    <3>2. PICK x \in Int : x = doc.amount
      BY <1>3
    <3>3. h + l + i = p + g => (h + x) + l + (i - x) = p + g
      BY TakenOver
    <3> QED
      BY <3>1, <3>2, <3>3
  <2> QED
    BY <1>4, <1>5, <2>2, <2>3 DEF Balanced
<1> QED
  BY <1>5, <1>7, <1>8

(* A worker about to create the next pool drops its overflow. *)
LEMMA MoneyLost ==
  ASSUME Shape, Types', Succession, MoneyTypes, Balanced, NEW w \in Worker,
         worker[w].at = "next", Lose(w), Finish(w),
         UNCHANGED <<pools, gifted, donation, staleClaim>>
  PROVE  MoneyTypes' /\ Balanced'
<1>1. Types /\ worker \in [Worker -> WorkerDoc] /\ WorkerFits(w) /\ worker[w] \in WorkerDoc
  BY DEF Shape, Types, WorkersFit
<1>2. PICK p \in DOMAIN pools : p = worker[w].pool
  BY <1>1 DEF WorkerFits, Working
<1>3. PICK d : d = [pool |-> worker[w].pool, amount |-> worker[w].overflow]
  OBVIOUS
<1>4. dropped' = dropped \cup {d} /\ d.pool = p /\ d.amount = worker[w].overflow
  BY <1>2, <1>3 DEF Lose
<1>5. worker'[w] = Idle /\ \A v \in Worker \ {w} : worker'[v] = worker[v]
  BY <1>1 DEF Finish
<1>6. d \notin dropped
  <2>1. SuccessionFits(p) /\ w \in Hands(p)
    BY <1>2 DEF Succession, Hands
  <2>2. Drops(p) = {}
    BY <2>1 DEF SuccessionFits, Unsucceeded, Succeeded
  <2> QED
    BY <1>4, <2>2 DEF Drops
<1>7. d.amount \in Nat /\ Hand(w) = d.amount /\ Hand(w)' = 0
  BY <1>1, <1>4, <1>5 DEF WorkerDoc, Hand, Idle
<1>8. Lost' = Lost + d.amount /\ IsFiniteSet(dropped') /\ \A e \in dropped' : e.amount \in Nat
  BY <1>4, <1>6, <1>7, LostMore
<1>9. InHands' = InHands - Hand(w) + Hand(w)'
  BY <1>1, <1>5, HandsMove
<1>10. Held' = Held /\ Pledged' = Pledged /\ staleClaim' = staleClaim /\ gifted' = gifted
  BY HeldStays, PledgesStay DEF Kept
<1>11. Held \in Int /\ Lost \in Int /\ InHands \in Int /\ Pledged \in Int /\ gifted \in Int
  BY <1>1, SumsAreInt
<1>12. InHands' = InHands - d.amount
  BY <1>7, <1>9, <1>11
<1>13. MoneyTypes'
  BY <1>8, <1>10 DEF MoneyTypes
<1> QED
  BY <1>7, <1>8, <1>10, <1>11, <1>12, <1>13 DEF Balanced

(* A pledge adds its amount to the pool and to what the charity keeps. *)
LEMMA PledgeMoney ==
  ASSUME Shape, Types', MoneyTypes, Balanced, NEW w \in Worker, Pledge(w)
  PROVE  MoneyTypes' /\ Balanced'
<1>1. /\ Types /\ UNCHANGED <<gifted, dropped, staleClaim>> /\ worker[w].at = "pooled"
      /\ WorkerFits(w) /\ worker \in [Worker -> WorkerDoc] /\ worker[w] \in WorkerDoc
      /\ donation \in [Order -> {None} \cup PledgeDoc]
  BY DEF Shape, Types, WorkersFit, Pledge, ghostVars
<1>2. PICK p \in DOMAIN pools, o \in Order : p = worker[w].pool /\ o = worker[w].order
  BY <1>1 DEF WorkerFits, Working, Pledging
<1>3. Amount[o] \in Nat /\ pools[p].amount \in Nat /\ pools[p] \in PoolDoc
  BY <1>1, AmountAssumption, PoolsAreFinite DEF Types
<1>4. worker'[w].at # "next" /\ \A v \in Worker \ {w} : worker'[v] = worker[v]
  <2>1. CASE worker' = [worker EXCEPT ![w] = Idle]
    BY <1>1, <2>1 DEF Idle
  <2>2. CASE worker' = [worker EXCEPT ![w].at = "rotate", ![w].target = pools[worker[w].pool].target]
    <3>1. PICK t : t = pools[worker[w].pool].target
      OBVIOUS
    <3>2. worker' = [worker EXCEPT ![w] = Delivery("rotate", worker[w].order, worker[w].pool, t,
                                                   worker[w].overflow)]
      BY <1>1, <2>2, <3>1, TargetTaken
    <3> QED
      BY <1>1, <3>2, DeliveryFields
  <2> QED
    BY <2>1, <2>2 DEF Pledge, Finish
<1>5. \A v \in Worker : Hand(v)' = Hand(v)
  BY <1>1, <1>4 DEF Hand
<1>6. CASE donation[o] # None
  <2>1. UNCHANGED <<pools, donation>>
    BY <1>2, <1>6 DEF Pledge
  <2> QED
    BY <1>1, <1>5, <2>1, MoneyStands DEF Kept
<1>7. CASE donation[o] = None
  <2>1. PICK n \in Nat : n = pools[p].amount + Amount[o]
    BY <1>3
  <2>2. /\ donation' = [donation EXCEPT ![o] = [pool |-> p, outcome |-> "live"]]
        /\ pools' = [pools EXCEPT ![p].amount = n]
    BY <1>2, <1>7, <2>1 DEF Pledge
  <2>3. PICK doc : doc = [pools[p] EXCEPT !.amount = n]
    OBVIOUS
  <2>4. doc.amount = n
    BY <1>3, <2>3 DEF PoolDoc
  <2>5. pools' = [pools EXCEPT ![p] = doc]
    BY <2>2, <2>3
  <2>6. /\ DOMAIN pools' = DOMAIN pools /\ pools'[p].amount = n
        /\ \A q \in DOMAIN pools \ {p} : pools'[q].amount = pools[q].amount
    BY <2>4, <2>5
  <2>7. Held' = Held - pools[p].amount + n
    BY <1>1, <2>6, HeldWritten
  <2>8. PICK k : k = [pool |-> p, outcome |-> "live"]
    OBVIOUS
  <2>9. /\ donation'[o] = k /\ k # None /\ k.outcome = "live"
        /\ \A q \in Order \ {o} : donation'[q] = donation[q]
    <3>1. k \in PledgeDoc
      BY <1>1, <1>2, <2>8 DEF PledgeDoc, Types, WorkerDoc
    <3> QED
      BY <1>1, <2>2, <2>8, <3>1, NoneIsNoPledge
  <2>10. Kept(o) = 0 /\ Kept(o)' = Amount[o]
    BY <1>7, <2>9 DEF Kept
  <2>11. Pledged' = Pledged - Kept(o) + Kept(o)'
    BY <2>9, PledgesMove
  <2>12. InHands' = InHands /\ Lost' = Lost /\ gifted' = gifted /\ staleClaim' = staleClaim
    BY <1>1, <1>5, HandsStay DEF Lost
  <2>13. Held \in Int /\ Lost \in Int /\ InHands \in Int /\ Pledged \in Int /\ gifted \in Int
    BY <1>1, SumsAreInt
  <2>14. Held' = Held + Amount[o] /\ Pledged' = Pledged + Amount[o]
    BY <1>3, <2>1, <2>7, <2>10, <2>11, <2>13
  <2>15. MoneyTypes'
    BY <1>1 DEF MoneyTypes
  <2> QED
    BY <1>3, <2>12, <2>13, <2>14, <2>15 DEF Balanced
<1> QED
  BY <1>6, <1>7

(* A reversal takes the amount out of both, or leaves both. *)
LEMMA ReverseMoney ==
  ASSUME Shape, MoneyTypes, Balanced, NEW o \in Order, ReverseForOrder(o)
  PROVE  MoneyTypes' /\ Balanced'
<1>1. /\ UNCHANGED <<worker, dropped, gifted, staleClaim>> /\ Types
      /\ donation \in [Order -> {None} \cup PledgeDoc]
      /\ donation[o] # None => donation[o].pool \in DOMAIN pools
  BY DEF ReverseForOrder, Shape, DonationsFit, Types
<1>2. \A v \in Worker : Hand(v)' = Hand(v)
  BY <1>1 DEF Hand
<1>3. CASE donation[o] = None \/ donation[o].outcome # "live"
  <2>1. UNCHANGED <<donation, pools>>
    BY <1>3 DEF ReverseForOrder
  <2> QED
    BY <1>1, <1>2, <2>1, MoneyStands DEF Kept
<1>4. CASE ~(donation[o] = None \/ donation[o].outcome # "live")
  <2>1. PICK p \in DOMAIN pools : p = donation[o].pool
    BY <1>1, <1>4
  <2>2. Amount[o] \in Nat /\ pools[p].amount \in Nat /\ pools[p] \in PoolDoc /\ donation[o] \in PledgeDoc
    BY <1>1, <1>4, AmountAssumption, PoolsAreFinite DEF Types
  <2>3. ASSUME NEW s \in {"reduced", "absorbed"},
               donation' = [donation EXCEPT ![o].outcome = s]
        PROVE  /\ Kept(o) = Amount[o] /\ Kept(o)' = (IF s = "reduced" THEN 0 ELSE Amount[o])
               /\ \A q \in Order \ {o} : donation'[q] = donation[q]
    <3>1. PICK k : k = [donation[o] EXCEPT !.outcome = s]
      OBVIOUS
    <3>2. k.outcome = s /\ k \in PledgeDoc
      BY <2>2, <3>1 DEF PledgeDoc
    <3>3. donation'[o] = k /\ \A q \in Order \ {o} : donation'[q] = donation[q]
      BY <1>1, <2>3, <3>1
    <3>4. k # None
      BY <3>2, NoneIsNoPledge
    <3> QED
      BY <1>4, <3>2, <3>3, <3>4 DEF Kept
  <2>4. CASE ~Reversible(o)
    <3>1. donation' = [donation EXCEPT ![o].outcome = "absorbed"] /\ UNCHANGED pools
      BY <1>4, <2>4 DEF ReverseForOrder
    <3>2. Kept(o)' = Kept(o) /\ \A q \in Order \ {o} : donation'[q] = donation[q]
      BY <2>3, <3>1
    <3>3. \A q \in Order : Kept(q)' = Kept(q)
      BY <3>2 DEF Kept
    <3> QED
      BY <1>1, <1>2, <3>1, <3>3, MoneyStands
  <2>5. CASE Reversible(o)
    <3>1. pools[p].amount >= Amount[o]
      BY <2>1, <2>5 DEF Reversible
    <3>2. PICK n \in Nat : n = pools[p].amount - Amount[o]
      BY <2>2, <3>1
    <3>3. /\ donation' = [donation EXCEPT ![o].outcome = "reduced"]
          /\ pools' = [pools EXCEPT ![p].amount = n]
      BY <1>4, <2>1, <2>5, <3>2 DEF ReverseForOrder
    <3>4. PICK doc : doc = [pools[p] EXCEPT !.amount = n]
      OBVIOUS
    <3>5. doc.amount = n
      BY <2>2, <3>4 DEF PoolDoc
    <3>6. pools' = [pools EXCEPT ![p] = doc]
      BY <3>3, <3>4
    <3>7. /\ DOMAIN pools' = DOMAIN pools /\ pools'[p].amount = n
          /\ \A q \in DOMAIN pools \ {p} : pools'[q].amount = pools[q].amount
      BY <3>5, <3>6
    <3>8. Held' = Held - pools[p].amount + n
      BY <1>1, <3>7, HeldWritten
    <3>9. Kept(o) = Amount[o] /\ Kept(o)' = 0 /\ \A q \in Order \ {o} : donation'[q] = donation[q]
      BY <2>3, <3>3
    <3>10. Pledged' = Pledged - Kept(o) + Kept(o)'
      BY <3>9, PledgesMove
    <3>11. InHands' = InHands /\ Lost' = Lost /\ gifted' = gifted /\ staleClaim' = staleClaim
      BY <1>1, <1>2, HandsStay DEF Lost
    <3>12. Held \in Int /\ Lost \in Int /\ InHands \in Int /\ Pledged \in Int /\ gifted \in Int
      BY <1>1, SumsAreInt
    <3>13. Held' = Held - Amount[o] /\ Pledged' = Pledged - Amount[o]
      BY <2>2, <3>2, <3>8, <3>9, <3>10, <3>12
    <3>14. MoneyTypes'
      BY <1>1 DEF MoneyTypes
    <3>15. Held + Lost + InHands = Pledged + gifted
              => (Held - Amount[o]) + Lost + InHands = (Pledged - Amount[o]) + gifted
      BY <2>2, <3>12, TakenOver
    <3> QED
      BY <3>11, <3>13, <3>14, <3>15 DEF Balanced
  <2> QED
    BY <2>4, <2>5
<1> QED
  BY <1>3, <1>4

(* A pool is closed at its target; what exceeded it goes to the worker, or is
   dropped with the season. *)
LEMMA RotateMoney ==
  ASSUME Shape, Types', Succession, MoneyTypes, Balanced, NEW w \in Worker, Rotate(w)
  PROVE  MoneyTypes' /\ Balanced'
<1>1. /\ Types /\ UNCHANGED <<gifted, donation>> /\ worker[w].at = "rotate"
      /\ worker \in [Worker -> WorkerDoc] /\ pools \in Seq(PoolDoc)
  BY DEF Shape, Types, Rotate
<1>2. CASE ~Fundable(worker[w].pool)
  <2>1. worker' = [worker EXCEPT ![w] = Idle] /\ UNCHANGED <<pools, staleClaim, dropped>>
    BY <1>2 DEF Rotate, Finish
  <2>2. \A v \in Worker : Hand(v)' = Hand(v)
    <3>1. worker'[w] = Idle /\ \A v \in Worker \ {w} : worker'[v] = worker[v]
      BY <1>1, <2>1
    <3> QED
      BY <1>1, <3>1 DEF Hand, Idle
  <2> QED
    BY <1>1, <2>1, <2>2, MoneyStands DEF Kept
<1>3. CASE Fundable(worker[w].pool)
  <2>1. PICK p \in DOMAIN pools : p = worker[w].pool
    BY <1>3, RotateReads
  <2>2. PICK seen \in Nat, x \in Nat : seen = worker[w].target /\ x = Overflow(p, seen)
    <3>1. worker[w].target \in Nat
      BY <1>1, TargetsAreNat DEF WorkerDoc
    <3> QED
      BY <1>3, <2>1, <3>1, RotateReads
  <2>3. PICK last \in BOOLEAN : last = (pools[p].goal = LastGoal)
    OBVIOUS
  <2>4. PICK doc \in PoolDoc : pools' = [pools EXCEPT ![p] = doc] /\ doc.amount = seen
    BY <1>3, <2>1, <2>2, RotateReads
  <2>5. /\ worker' = [worker EXCEPT ![w] =
                       IF last THEN Idle ELSE Delivery("next", worker[w].order, p, seen, x)]
        /\ dropped' = IF last THEN dropped \cup {[pool |-> p, amount |-> x]} ELSE dropped
        /\ staleClaim' = (staleClaim \/ seen # pools[p].target)
    BY <1>3, <2>1, <2>2, <2>3, RotateReads
  <2>6. /\ DOMAIN pools' = DOMAIN pools /\ pools'[p].amount = seen
        /\ \A q \in DOMAIN pools \ {p} : pools'[q].amount = pools[q].amount
    BY <1>1, <2>4
  <2>7. Held' = Held - pools[p].amount + seen
    BY <1>1, <2>6, HeldWritten
  <2>8. pools[p].amount \in Nat /\ pools[p].target \in Nat /\ pools[p].status = "active"
    <3>1. pools[p] \in PoolDoc
      BY <1>1
    <3>2. pools[p].amount \in Nat /\ pools[p].target \in Nat
      BY <3>1, TargetsAreNat DEF PoolDoc
    <3> QED
      BY <1>3, <2>1, <3>2 DEF Fundable
  <2>9. x = pools[p].amount - pools[p].target
    BY <2>2 DEF Overflow
  <2>10. Pledged' = Pledged
    BY <1>1, PledgesStay DEF Kept
  <2>11. Held \in Int /\ Lost \in Int /\ InHands \in Int /\ Pledged \in Int /\ gifted \in Int
    BY <1>1, SumsAreInt
  <2>12. InHands' = InHands - Hand(w) + Hand(w)'
    <3>1. \A v \in Worker \ {w} : worker'[v] = worker[v]
      BY <1>1, <2>5
    <3> QED
      BY <1>1, <3>1, HandsMove
  <2>13. Hand(w) = 0 /\ Hand(w)' = IF last THEN 0 ELSE x
    <3>1. Hand(w) = 0
      BY <1>1 DEF Hand
    <3>2. CASE last
      BY <1>1, <2>5, <3>1, <3>2 DEF Hand, Idle
    <3>3. CASE ~last
      <4>1. worker'[w] = Delivery("next", worker[w].order, p, seen, x)
        BY <1>1, <2>5, <3>3
      <4>2. worker'[w].at = "next" /\ worker'[w].overflow = x
        BY <4>1 DEF Delivery
      <4> QED
        BY <3>1, <3>3, <4>2 DEF Hand
    <3> QED
      BY <3>2, <3>3
  <2>14. MoneyTypes' /\ Lost' = Lost + IF last THEN x ELSE 0
    <3>1. CASE last
      <4>1. PICK d : d = [pool |-> p, amount |-> x]
        OBVIOUS
      <4>2. dropped' = dropped \cup {d} /\ d.pool = p /\ d.amount = x
        BY <2>5, <3>1, <4>1
      <4>3. d \notin dropped
        <5>1. Drops(p) = {}
          BY <2>8 DEF Succession, SuccessionFits, Unsucceeded
        <5> QED
          BY <4>2, <5>1 DEF Drops
      <4>4. Lost' = Lost + d.amount /\ IsFiniteSet(dropped') /\ \A e \in dropped' : e.amount \in Nat
        BY <4>2, <4>3, LostMore
      <4> QED
        BY <1>1, <3>1, <4>2, <4>4 DEF MoneyTypes
    <3>2. CASE ~last
      <4>1. dropped' = dropped
        BY <2>5, <3>2
      <4>2. Lost' = Lost
        BY <4>1 DEF Lost
      <4> QED
        BY <1>1, <2>11, <3>2, <4>1, <4>2 DEF MoneyTypes
    <3> QED
      BY <3>1, <3>2
  <2>15. ASSUME ~staleClaim' PROVE Held' + Lost' + InHands' = Pledged' + gifted'
    <3>1. seen = pools[p].target /\ Held + Lost + InHands = Pledged + gifted
      BY <2>5, <2>15 DEF Balanced
    <3>2. Held' = Held - x
      BY <2>2, <2>7, <2>8, <2>9, <2>11, <3>1
    <3>3. CASE last
      <4>1. Lost' = Lost + x /\ InHands' = InHands
        BY <2>11, <2>12, <2>13, <2>14, <3>3
      <4> QED
        BY <1>1, <2>10, <2>11, <3>1, <3>2, <4>1
    <3>4. CASE ~last
      <4>1. Lost' = Lost /\ InHands' = InHands + x
        BY <2>11, <2>12, <2>13, <2>14, <3>4
      <4> QED
        BY <1>1, <2>10, <2>11, <3>1, <3>2, <4>1
    <3> QED
      BY <3>3, <3>4
  <2> QED
    BY <2>14, <2>15 DEF Balanced
<1> QED
  BY <1>2, <1>3

LEMMA WorkersMoney ==
  ASSUME Shape, Types', Succession, MoneyTypes, Balanced, NEW w \in Worker,
         FindPool(w) \/ CreateNext(w) \/ Fail(w) \/ (\E o \in Order : Take(w, o))
  PROVE  MoneyTypes' /\ Balanced'
<1>1. Types /\ worker \in [Worker -> WorkerDoc]
  BY DEF Shape, Types
<1>2. ASSUME UNCHANGED <<pools, dropped, gifted, staleClaim, donation>>, worker[w].at # "next",
             NEW doc, worker' = [worker EXCEPT ![w] = doc], doc.at # "next"
      PROVE  MoneyTypes' /\ Balanced'
  <2>1. \A v \in Worker : Hand(v)' = Hand(v)
    BY <1>1, <1>2 DEF Hand
  <2> QED
    BY <1>1, <1>2, <2>1, MoneyStands DEF Kept
<1>3. Idle.at # "next"
  BY DEF Idle
<1>4. CASE FindPool(w)
  <2>1. PICK p : worker' = [worker EXCEPT ![w].at = "pooled", ![w].pool = p]
    BY <1>4 DEF FindPool
  <2>2. worker' = [worker EXCEPT ![w] = Delivery("pooled", worker[w].order, p, worker[w].target,
                                                 worker[w].overflow)]
    BY <1>1, <2>1, PoolTaken
  <2>3. PICK doc : /\ doc = Delivery("pooled", worker[w].order, p, worker[w].target, worker[w].overflow)
                   /\ worker' = [worker EXCEPT ![w] = doc]
    BY <2>2
  <2>4. doc.at = "pooled" /\ worker[w].at = "checked"
        /\ UNCHANGED <<pools, dropped, gifted, staleClaim, donation>>
    BY <1>4, <2>3, DeliveryFields DEF FindPool, ghostVars
  <2> QED
    BY <1>2, <2>3, <2>4
<1>5. CASE CreateNext(w)
  <2>1. UNCHANGED <<gifted, staleClaim, donation>> /\ worker[w].at = "next"
    BY <1>5 DEF CreateNext
  <2>2. CASE Open # {}
    <3>1. Lose(w) /\ Finish(w) /\ UNCHANGED pools
      BY <1>5, <2>2 DEF CreateNext
    <3> QED
      BY <2>1, <3>1, MoneyLost
  <2>3. CASE Open = {}
    <3>1. PICK doc \in PoolDoc :
             pools' = Append(pools, doc) /\ doc.amount = worker[w].overflow
      BY <1>5, <2>3, CreateReads
    <3>2. PICK next :
             /\ next = IF worker[w].overflow >= Target
                         THEN Delivery("rotate", worker[w].order, Len(pools) + 1, Target, 0)
                         ELSE Idle
             /\ worker' = [worker EXCEPT ![w] = next]
      BY <1>5, <2>3, CreateReads
    <3>3. UNCHANGED dropped
      BY <1>5, <2>3, CreateReads
    <3>4. next.at # "next"
      BY <1>3, <3>2 DEF Delivery
    <3>5. Hand(w) = doc.amount /\ Hand(w)' = 0 /\ \A v \in Worker \ {w} : worker'[v] = worker[v]
      BY <1>1, <2>1, <3>1, <3>2, <3>4 DEF Hand
    <3> QED
      BY <1>1, <2>1, <3>1, <3>3, <3>5, MoneyOpens
  <2> QED
    BY <2>2, <2>3
<1>6. CASE Fail(w)
  <2>1. Finish(w) /\ UNCHANGED <<pools, gifted, staleClaim, donation>>
    BY <1>6 DEF Fail
  <2>2. CASE worker[w].at = "next"
    BY <1>6, <2>1, <2>2, MoneyLost DEF Fail
  <2>3. CASE worker[w].at # "next"
    <3>1. UNCHANGED dropped
      BY <1>6, <2>3 DEF Fail
    <3> QED
      BY <1>2, <1>3, <2>1, <2>3, <3>1 DEF Finish
  <2> QED
    BY <2>2, <2>3
<1>7. ASSUME NEW o \in Order, Take(w, o) PROVE MoneyTypes' /\ Balanced'
  <2>1. PICK doc : /\ doc = [Idle EXCEPT !.at = "checked", !.order = o]
                   /\ worker' = [worker EXCEPT ![w] = doc]
    BY <1>7 DEF Take
  <2>2. doc.at = "checked"
    BY <2>1 DEF Idle
  <2>3. worker[w].at # "next" /\ UNCHANGED <<pools, dropped, gifted, staleClaim, donation>>
    BY <1>3, <1>7 DEF Take, ghostVars
  <2> QED
    BY <1>2, <2>1, <2>2, <2>3
<1> QED
  BY <1>4, <1>5, <1>6, <1>7

(* The administrator, the gifts of points, the openings and the archives. *)
LEMMA PointsMoney ==
  ASSUME Shape, MoneyTypes, Balanced, NEW p \in DOMAIN pools, DonatePoints(p)
  PROVE  MoneyTypes' /\ Balanced'
<1>1. Types /\ UNCHANGED <<donation, worker, dropped, staleClaim>> /\ gifted' = gifted + 1
  BY DEF Shape, DonatePoints
<1>2. pools[p].amount \in Nat /\ pools[p] \in PoolDoc
  BY <1>1, PoolsAreFinite DEF Types
<1>3. PICK n \in Nat : n = pools[p].amount + 1
  BY <1>2
<1>4. PICK doc : doc = [pools[p] EXCEPT !.amount = n]
  OBVIOUS
<1>5. doc.amount = n
  BY <1>2, <1>4 DEF PoolDoc
<1>6. pools' = [pools EXCEPT ![p] = doc]
  BY <1>3, <1>4 DEF DonatePoints
<1>7. /\ DOMAIN pools' = DOMAIN pools /\ pools'[p].amount = n
      /\ \A q \in DOMAIN pools \ {p} : pools'[q].amount = pools[q].amount
  BY <1>5, <1>6
<1>8. Held' = Held - pools[p].amount + n
  BY <1>1, <1>7, HeldWritten
<1>9. InHands' = InHands /\ Pledged' = Pledged /\ Lost' = Lost
  BY <1>1, HandsStay, PledgesStay DEF Lost, Hand, Kept
<1>10. Held \in Int /\ Lost \in Int /\ InHands \in Int /\ Pledged \in Int /\ gifted \in Int
  BY <1>1, SumsAreInt
<1>11. Held' = Held + 1
  BY <1>2, <1>3, <1>8, <1>10
<1>12. MoneyTypes'
  BY <1>1 DEF MoneyTypes
<1> QED
  BY <1>1, <1>9, <1>10, <1>11, <1>12 DEF Balanced

LEMMA PoolsMoney ==
  ASSUME Shape, Types', MoneyTypes, Balanced,
         \/ \E p \in DOMAIN pools : EditTarget(p)
         \/ OpenDefault \/ ResetInserts \/ ResetArchives \/ ArchiveFunded
  PROVE  MoneyTypes' /\ Balanced'
<1>1. Types /\ UNCHANGED <<donation, worker, gifted, dropped, staleClaim>>
  BY DEF Shape, EditTarget, OpenDefault, ResetInserts, ResetArchives, ArchiveFunded, ghostVars
<1>2. ASSUME DOMAIN pools' = DOMAIN pools,
             \A q \in DOMAIN pools : pools'[q].amount = pools[q].amount
      PROVE  MoneyTypes' /\ Balanced'
  BY <1>1, <1>2, MoneyStands DEF Hand, Kept
<1>3. CASE pools' = pools
  BY <1>2, <1>3
<1>4. CASE pools' = Append(pools, NewPool(0, 0, 0))
  <2>1. PICK doc : doc = NewPool(0, 0, 0)
    OBVIOUS
  <2>2. doc \in PoolDoc /\ doc.amount = 0
    BY <2>1, AmountAssumption DEF NewPool, PoolDoc
  <2> QED
    BY <1>1, <1>4, <2>1, <2>2, MoneyOpens
<1>5. ASSUME NEW p \in DOMAIN pools, EditTarget(p) PROVE MoneyTypes' /\ Balanced'
  <2>1. PICK t : pools' = [pools EXCEPT ![p].target = t]
    BY <1>5 DEF EditTarget
  <2>2. PICK doc : doc = [pools[p] EXCEPT !.target = t]
    OBVIOUS
  <2>3. doc.amount = pools[p].amount
    BY <1>1, <2>2 DEF PoolDoc, Types
  <2>4. pools' = [pools EXCEPT ![p] = doc]
    BY <2>1, <2>2
  <2>5. DOMAIN pools' = DOMAIN pools /\ \A q \in DOMAIN pools : pools'[q].amount = pools[q].amount
    BY <2>3, <2>4
  <2> QED
    BY <1>2, <2>5
<1>6. CASE ResetArchives \/ ArchiveFunded
  <2>1. \A p \in DOMAIN pools : pools[p] \in PoolDoc
    BY <1>1 DEF Types
  <2>2. DOMAIN pools' = DOMAIN pools
    BY <1>6 DEF ResetArchives, ArchiveFunded
  <2>3. ASSUME NEW p \in DOMAIN pools PROVE pools'[p].amount = pools[p].amount
    <3> DEFINE one == [pools[p] EXCEPT !.archived = TRUE]
               both == [pools[p] EXCEPT !.status = "archived", !.archived = TRUE]
    <3>1. pools'[p] = pools[p] \/ pools'[p] = one \/ pools'[p] = both
      BY <1>6, <2>3 DEF ResetArchives, ArchiveFunded
    <3>2. one.amount = pools[p].amount /\ both.amount = pools[p].amount
      BY <2>1 DEF PoolDoc
    <3> HIDE DEF one, both
    <3> QED
      BY <3>1, <3>2
  <2> QED
    BY <1>2, <2>2, <2>3
<1> QED
  BY <1>3, <1>4, <1>5, <1>6 DEF OpenDefault, ResetInserts

Money == MoneyTypes /\ Balanced

LEMMA InitMoney == Init => Money
<1> SUFFICES ASSUME Init PROVE MoneyTypes /\ Balanced
  BY DEF Money
<1>1. MoneyTypes
  BY FS_EmptySet DEF Init, MoneyTypes
<1>2. PICK doc : doc = NewPool(0, 0, 0)
  OBVIOUS
<1>3. doc.amount = 0
  BY <1>2 DEF NewPool
<1>4. DOMAIN pools = {1} /\ pools[1] = doc
  BY <1>2 DEF Init
<1>5. Held = 0
  <2>1. PICK f, S : f = [p \in DOMAIN pools |-> pools[p].amount] /\ S = DOMAIN pools
    OBVIOUS
  <2>2. Held = SumFunctionOnSet(f, S)
    BY <2>1 DEF Held, SumFunction
  <2>3. IsFiniteSet(S) /\ \A x \in S : f[x] = 0
    BY <1>3, <1>4, <2>1, FS_Singleton
  <2> QED
    BY <2>2, <2>3, SumIsZero
<1>6. Lost = 0
  <2>1. PICK f, S : f = [d \in dropped |-> d.amount] /\ S = dropped
    OBVIOUS
  <2>2. Lost = SumFunctionOnSet(f, S)
    BY <2>1 DEF Lost, SumFunction
  <2>3. IsFiniteSet(S) /\ \A x \in S : f[x] = 0
    BY <1>1, <2>1 DEF Init, MoneyTypes
  <2> QED
    BY <2>2, <2>3, SumIsZero
<1>7. InHands = 0
  <2>1. PICK f : f = [w \in Worker |-> Hand(w)]
    OBVIOUS
  <2>2. InHands = SumFunctionOnSet(f, Worker)
    BY <2>1 DEF InHands, SumFunction
  <2>3. \A x \in Worker : f[x] = 0
    BY <2>1 DEF Init, Hand, Idle
  <2> QED
    BY <2>2, <2>3, SumIsZero, FiniteAssumption
<1>8. Pledged = 0
  <2>1. PICK f : f = [o \in Order |-> Kept(o)]
    OBVIOUS
  <2>2. Pledged = SumFunctionOnSet(f, Order)
    BY <2>1 DEF Pledged, SumFunction
  <2>3. \A x \in Order : f[x] = 0
    BY <2>1 DEF Init, Kept
  <2> QED
    BY <2>2, <2>3, SumIsZero, FiniteAssumption
<1>9. gifted = 0
  BY DEF Init
<1> QED
  BY <1>1, <1>5, <1>6, <1>7, <1>8, <1>9 DEF Balanced

LEMMA NextMoney == Shape /\ Shape' /\ Succession /\ Money /\ [Next]_vars => Money'
<1> SUFFICES ASSUME Shape, Shape', Succession, MoneyTypes, Balanced, [Next]_vars
             PROVE  MoneyTypes' /\ Balanced'
  BY DEF Money
<1>1. Types /\ Types'
  BY DEF Shape
<1>2. CASE UNCHANGED <<pools, worker, dropped, donation, gifted, staleClaim>>
  BY <1>1, <1>2, MoneyStands DEF Hand, Kept
<1>3. ASSUME NEW o \in Order, ReverseForOrder(o) PROVE MoneyTypes' /\ Balanced'
  BY <1>3, ReverseMoney
<1>4. ASSUME NEW w \in Worker, Pledge(w) \/ Rotate(w) PROVE MoneyTypes' /\ Balanced'
  BY <1>1, <1>4, PledgeMoney, RotateMoney
<1>5. ASSUME NEW w \in Worker,
             FindPool(w) \/ CreateNext(w) \/ Fail(w) \/ (\E o \in Order : Take(w, o))
      PROVE  MoneyTypes' /\ Balanced'
  BY <1>1, <1>5, WorkersMoney
<1>6. ASSUME NEW p \in DOMAIN pools, DonatePoints(p) PROVE MoneyTypes' /\ Balanced'
  BY <1>6, PointsMoney
<1>7. CASE \/ \E p \in DOMAIN pools : EditTarget(p)
           \/ OpenDefault \/ ResetInserts \/ ResetArchives \/ ArchiveFunded
  BY <1>1, <1>7, PoolsMoney
<1>8. \/ UNCHANGED <<pools, worker, dropped, donation, gifted, staleClaim>>
      \/ \E o \in Order : ReverseForOrder(o)
      \/ \E w \in Worker :
            \/ FindPool(w) \/ Pledge(w) \/ Rotate(w) \/ CreateNext(w) \/ Fail(w)
            \/ \E o \in Order : Take(w, o)
      \/ \E p \in DOMAIN pools : EditTarget(p) \/ DonatePoints(p)
      \/ OpenDefault \/ ResetInserts \/ ResetArchives \/ ArchiveFunded
  BY DEF Next, Complete, CancelPaid, Refund, ResetDies, vars, adminVars, ghostVars
<1> QED
  BY <1>2, <1>3, <1>4, <1>5, <1>6, <1>7, <1>8

-----------------------------------------------------------------------------
(* The inductive invariant and the theorems. *)

IInv == Shape /\ RowsFit /\ Raced /\ Succession /\ Money

LEMMA InitInv == Init => IInv
<1>1. Init => Raced
  BY DEF Init, Raced, RacedFit, RefundedPledgeOnlyInRace, Pledging, Idle
<1> QED
  BY <1>1, InitShape, InitRows, InitSuccession, InitMoney DEF IInv

LEMMA NextKeeps == IInv /\ [Next]_vars => IInv'
BY NextShape, NextRows, NextRaced, NextSuccession, NextMoney DEF IInv

LEMMA Invariance == Spec => []IInv
BY InitInv, NextKeeps, PTL DEF Spec

LEMMA TypeFollows == IInv => TypeOK
<1> SUFFICES ASSUME IInv PROVE TypeOK
  OBVIOUS
<1>1. Types /\ PoolsFit /\ WorkersFit /\ DonationsFit /\ RowsFit
  BY DEF IInv, Shape
<1>2. order \in [Order -> {"open", "cancelled", "completed", "refunded"}]
  BY <1>1 DEF Types, OrderStatus
<1>3. ASSUME NEW o \in Order PROVE rows[o].plus \in Nat /\ rows[o].minus \in 0 .. rows[o].plus
  BY <1>1, RowsRead DEF RowsFit, RowFits
<1>4. donation \in [Order -> {None} \cup
          [pool : DOMAIN pools, outcome : {"live", "reduced", "absorbed"}]]
  BY <1>1 DEF Types, DonationsFit, PledgeDoc
<1>5. ASSUME NEW p \in DOMAIN pools
      PROVE  pools[p] \in [status : {"active", "funded", "complete", "archived"},
                        archived : BOOLEAN, goal : 0 .. LastGoal, amount : Nat,
                        target : Targets \cup {Target}, from : 0 .. p - 1]
  <2>1. pools[p] \in PoolDoc /\ pools[p].from < p /\ p \in Nat
    BY <1>1 DEF Types, PoolsFit
  <2>2. pools[p].from \in 0 .. p - 1
    BY <2>1 DEF PoolDoc
  <2> QED
    BY <2>1, <2>2 DEF PoolDoc
<1>6. worker \in [Worker -> [at : {"idle", "checked", "pooled", "rotate", "next"},
          order : Order \cup {None}, pool : {0} \cup DOMAIN pools,
          target : {0, Target} \cup Targets, overflow : Nat]]
  BY <1>1 DEF Types, WorkerDoc, WorkersFit, WorkerFits
<1>7. Cardinality(Open) <= 1
  <2>1. CASE Open = {}
    BY <2>1, FS_EmptySet
  <2>2. CASE Open # {}
    <3>1. PICK p : Open = {p}
      BY <1>1, <2>2 DEF PoolsFit
    <3>2. Cardinality({p}) = 1
      BY FS_Singleton
    <3>3. Cardinality(Open) = 1
      BY <3>1, <3>2
    <3> QED
      BY <3>3
  <2> QED
    BY <2>1, <2>2
<1>8. resetting \in BOOLEAN /\ interventions \in 0 .. MaxInterventions
  BY <1>1 DEF Types
<1> QED
  BY <1>2, <1>3, <1>4, <1>5, <1>6, <1>7, <1>8 DEF TypeOK

LEMMA LedgerFollows == IInv => LedgerMatchesCharity
<1> SUFFICES ASSUME IInv, NEW o \in Order, ~(o \in Legacy /\ donation[o] = None),
                    ~(order[o] = "refunded" /\ o \notin handled)
             PROVE  Net(o) = Kept(o)
  BY DEF LedgerMatchesCharity
<1>1. RowFits(o) /\ Types /\ DonationsFit
  BY DEF IInv, RowsFit, Shape
<1>2. rows[o].plus \in Nat /\ rows[o].minus \in Nat
  BY <1>1, RowsRead
<1>3. CASE donation[o] = None
  BY <1>1, <1>2, <1>3 DEF RowFits, Net, Kept
<1>4. CASE donation[o] # None
  BY <1>1, <1>4 DEF DonationsFit, Delivered, RowFits
<1> QED
  BY <1>3, <1>4

(* The types hold for any orders, workers, amounts and goals: at most one
   pool is open, a pledge and a worker name a pool that exists, what was
   taken out of an order's rows never exceeds what was booked. *)
THEOREM PoolTypeCorrect == Spec => []TypeOK
BY Invariance, TypeFollows, PTL

(* TFTW's ledger ends at what the charity keeps, however often the events
   are delivered and whichever of the refund of Konnect, the reversal and
   the donation writes the rows first. *)
THEOREM LedgerIsCharity == Spec => []LedgerMatchesCharity
BY Invariance, LedgerFollows, PTL

(* A refunded order keeps a live contribution only while its reversal is
   still to come, or if it was refunded behind the back of a worker. *)
THEOREM RefundedPledgeIsRaced == Spec => []RefundedPledgeOnlyInRace
<1>1. IInv => RefundedPledgeOnlyInRace
  BY DEF IInv, Raced
<1> QED
  BY <1>1, Invariance, PTL

(* A funded goal hands over once, however many workers see it funded and
   wherever their processes die. *)
THEOREM GoalIsSucceededOnce == Spec => []FundedIsSucceededOnce
<1>1. IInv => FundedIsSucceededOnce
  BY SuccessionCounts DEF IInv
<1> QED
  BY <1>1, Invariance, PTL

(* The pools hold what was pledged and kept and what points became, but for
   the overflow a rotation lost, for any number of orders and workers -
   unless a rotation used a target edited since its donation read it. *)
THEOREM PoolsAreConserved == Spec => []PoolsHoldPledges
<1>1. IInv => PoolsHoldPledges
  BY BalanceIsProperty DEF IInv, Money
<1> QED
  BY <1>1, Invariance, PTL
================================================================================
