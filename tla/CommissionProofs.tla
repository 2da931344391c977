---------------------------- MODULE CommissionProofs ----------------------------
(***************************************************************************)
(* Proofs about CommissionBook, for any set of orders and workers, any     *)
(* subtotals and any threshold.                                            *)
(***************************************************************************)
EXTENDS CommissionBook, TLAPS

--------------------------------------------------------------------------------
(* The arithmetic of one decision.                                          *)

LEMMA ShareType ==
  ASSUME NEW s \in Nat
  PROVE  PlatformShare(s) \in Nat /\ PlatformShare(s) <= s
BY SMT DEF PlatformShare

LEMMA V2Outcome ==
  ASSUME NEW subtotal \in Nat, NEW d \in Int, NEW c \in Control
  PROVE  LET out == DecideV2(subtotal, d, c) IN
         /\ out \in Outcome
         /\ out.dueBefore = d
         /\ out.dueAfter = d + out.accrued - out.settled
         /\ out.settled > 0 => out.accrued = 0 /\ out.kind = "SETTLEMENT"
         /\ out.kind = "SETTLEMENT" => out.settled > 0 /\ out.accrued = 0
         /\ out.model = "V2"
<1>1. PlatformShare(subtotal) \in Nat
  BY ShareType
<1>2. Threshold \in Nat /\ Threshold > 0
  BY ThresholdAssumption
<1> QED
  BY <1>1, <1>2, SMT DEF DecideV2, Outcome, Least

LEMMA LegacyOutcome ==
  ASSUME NEW subtotal \in Nat, NEW d \in Int
  PROVE  LET out == DecideLegacy(subtotal, d) IN
         /\ out \in Outcome
         /\ out.dueBefore = d
         /\ out.dueAfter = d + out.accrued - out.settled
         /\ out.model = "LEGACY"
<1>1. PlatformShare(subtotal) \in Nat
  BY ShareType
<1>2. Threshold \in Nat /\ Threshold > 0
  BY ThresholdAssumption
<1> QED
  BY <1>1, <1>2, SMT DEF DecideLegacy, Outcome, Least

--------------------------------------------------------------------------------
(* Rows that replay: they start at the balance d and end at the balance b.  *)

Start(rows, d, i) == IF i = 1 THEN d ELSE rows[i - 1].after

Replays(rows, d, b) ==
  /\ \A i \in 1..Len(rows) : rows[i].after = Start(rows, d, i) + rows[i].delta
  /\ b = IF Len(rows) = 0 THEN d ELSE rows[Len(rows)].after

\* The rows of a decision, written on the balance it was decided on, replay to
\* the balance it leaves.
LEMMA DecisionRowsReplay ==
  ASSUME NEW o \in Order, NEW out \in Outcome,
         out.dueAfter = out.dueBefore + out.accrued - out.settled,
         out.model = "V2" => (out.kind = "SETTLEMENT" <=> out.settled > 0),
         out.model = "V2" => (out.settled > 0 => out.accrued = 0)
  PROVE  LET rows == LedgerRows(o, out) IN
         /\ rows \in Seq(Row)
         /\ rows # <<>>
         /\ Replays(rows, out.dueBefore, out.dueAfter)
<1> DEFINE accrual == [order |-> o, type |-> "ACCRUAL", amount |-> out.accrued,
                       delta |-> out.accrued, after |-> out.dueBefore + out.accrued]
           settlement == [order |-> o, type |-> "SETTLEMENT", amount |-> out.settled,
                          delta |-> -out.settled, after |-> out.dueAfter]
<1>1. /\ out.accrued \in Nat /\ out.settled \in Nat
      /\ out.dueBefore \in Int /\ out.dueAfter \in Int
      /\ out.model \in {"V2", "LEGACY"} /\ out.kind \in {"NORMAL", "SETTLEMENT"}
  BY DEF Outcome
<1>2. accrual \in Row /\ settlement \in Row
  BY <1>1 DEF Row, RowType
<1>3. CASE out.settled > 0 /\ (out.model = "LEGACY" \/ out.kind = "NORMAL")
  <2>1. LedgerRows(o, out) = <<accrual, settlement>>
    BY <1>3, <1>2 DEF LedgerRows
  <2> QED
    BY <2>1, <1>1, <1>2, <1>3 DEF Replays, Start
<1>4. CASE out.settled > 0 /\ ~(out.model = "LEGACY" \/ out.kind = "NORMAL")
  <2>1. LedgerRows(o, out) = <<settlement>>
    BY <1>4, <1>2 DEF LedgerRows
  <2> QED
    BY <2>1, <1>1, <1>2, <1>4 DEF Replays, Start
<1>5. CASE ~(out.settled > 0)
  <2>1. out.model = "LEGACY" \/ out.kind = "NORMAL"
    BY <1>1, <1>5
  <2>2. LedgerRows(o, out) = <<accrual>>
    BY <1>5, <1>2, <2>1 DEF LedgerRows
  <2> QED
    BY <2>2, <1>1, <1>2, <1>5 DEF Replays, Start
<1> QED
  BY <1>3, <1>4, <1>5

\* What is read off an order's rows is a number of millimes.
LEMMA AmountType ==
  ASSUME NEW rows \in SUBSET Row, NEW type
  PROVE  AmountOf(rows, type) \in Nat
<1>1. CASE \E r \in rows : r.type = type
  <2>1. (CHOOSE r \in rows : r.type = type) \in rows
    BY <1>1
  <2> QED
    BY <1>1, <2>1 DEF AmountOf, Row
<1>2. CASE ~ \E r \in rows : r.type = type
  BY <1>2 DEF AmountOf
<1> QED
  BY <1>1, <1>2

LEMMA ReversalReplays ==
  ASSUME NEW o \in Order, NEW rows \in SUBSET Row, NEW d \in Int
  PROVE  LET row == ReversalRow(o, rows, d) IN
         /\ row \in Row
         /\ row.after \in Int
         /\ Replays(<<row>>, d, row.after)
<1>1. ReversalDelta(rows) \in Int
  BY AmountType DEF ReversalDelta
<1> DEFINE row == ReversalRow(o, rows, d)
<1>2. row \in Row /\ row.after = d + row.delta /\ row.after \in Int
  BY <1>1 DEF ReversalRow, Row, RowType, Magnitude
<1> QED
  BY <1>2 DEF Replays, Start

\* Appending rows that replay from the last balance keeps a ledger replaying.
LEMMA AppendReplays ==
  ASSUME NEW l \in Seq(Row), NEW rows \in Seq(Row), NEW d \in Int, NEW b \in Int,
         Replays(l, 0, d), Replays(rows, d, b)
  PROVE  l \o rows \in Seq(Row) /\ Replays(l \o rows, 0, b)
<1>1. /\ l \o rows \in Seq(Row)
      /\ Len(l \o rows) = Len(l) + Len(rows)
      /\ Len(l) \in Nat /\ Len(rows) \in Nat
  OBVIOUS
<1>2. \A i \in 1..Len(l) : (l \o rows)[i] = l[i]
  OBVIOUS
<1>3. \A i \in 1..Len(rows) : (l \o rows)[Len(l) + i] = rows[i]
  OBVIOUS
<1>4. ASSUME NEW i \in 1..Len(l \o rows)
      PROVE  (l \o rows)[i].after = Start(l \o rows, 0, i) + (l \o rows)[i].delta
  <2>1. CASE i <= Len(l)
    <3>1. i = 1 \/ i - 1 \in 1..Len(l)
      BY <1>1, <2>1
    <3> QED
      BY <1>1, <1>2, <2>1, <3>1 DEF Replays, Start
  <2>2. CASE i > Len(l)
    <3> DEFINE j == i - Len(l)
    <3>1. j \in 1..Len(rows) /\ (l \o rows)[i] = rows[j]
      BY <1>1, <1>3, <2>2
    <3>2. rows[j].after = Start(rows, d, j) + rows[j].delta
      BY <3>1 DEF Replays
    <3>3. Start(rows, d, j) = Start(l \o rows, 0, i)
      <4>1. CASE j = 1 /\ Len(l) = 0
        BY <4>1, <1>1 DEF Replays, Start
      <4>2. CASE j = 1 /\ Len(l) > 0
        <5>1. i - 1 = Len(l) /\ i # 1 /\ (l \o rows)[i - 1] = l[Len(l)]
          BY <4>2, <1>1, <1>2
        <5> QED
          BY <4>2, <5>1, <1>1 DEF Replays, Start
      <4>3. CASE j # 1
        <5>1. j - 1 \in 1..Len(rows) /\ i # 1 /\ (l \o rows)[i - 1] = rows[j - 1]
          BY <4>3, <3>1, <1>1, <1>3
        <5> QED
          BY <4>3, <5>1 DEF Start
      <4> QED
        BY <4>1, <4>2, <4>3, <1>1
    <3> QED
      BY <3>1, <3>2, <3>3
  <2> QED
    BY <1>1, <2>1, <2>2
<1>5. b = IF Len(l \o rows) = 0 THEN 0 ELSE (l \o rows)[Len(l \o rows)].after
  <2>1. CASE Len(rows) = 0
    BY <2>1, <1>1, <1>2 DEF Replays
  <2>2. CASE Len(rows) > 0
    BY <2>2, <1>1, <1>3 DEF Replays
  <2> QED
    BY <1>1, <2>1, <2>2
<1> QED
  BY <1>1, <1>4, <1>5 DEF Replays

--------------------------------------------------------------------------------
(* What a transaction writes, read off its snapshot.                        *)

Sound(e, d) ==
  /\ e.order \in OrderDoc
  /\ e.rows \in Seq(Row)
  /\ e.due \in Int
  /\ e.revenue \in SUBSET Revenue
  /\ e.rows # <<>> => Replays(e.rows, d, e.due)

LEMMA NoMovementSound ==
  ASSUME NEW t \in Open, NEW doc \in OrderDoc
  PROVE  Sound(NoMovement(t, doc), t.seen.due)
<1>1. t.seen.due \in Int
  BY DEF Open, Snapshot
<1> QED
  BY <1>1 DEF Sound, NoMovement

LEMMA ApplySound ==
  ASSUME NEW t \in Open, NEW doc \in OrderDoc, sale \in [Order -> Sale]
  PROVE  Sound(ApplyForOrder(t, doc), t.seen.due)
<1> DEFINE s == sale[t.order]
           out == IF t.seen.v2 THEN DecideV2(s.subtotal, t.seen.due, s.control)
                  ELSE DecideLegacy(s.subtotal, t.seen.due)
<1>1. t.order \in Order /\ t.seen.due \in Int
  BY DEF Open, Snapshot
<1>2. s \in SaleType
  BY <1>1, SaleAssumption
<1>3. s.subtotal \in Nat /\ s.control \in Control
  BY <1>2 DEF SaleType
<1>4. /\ out \in Outcome
      /\ out.dueBefore = t.seen.due
      /\ out.dueAfter = out.dueBefore + out.accrued - out.settled
      /\ out.model = "V2" => (out.kind = "SETTLEMENT" <=> out.settled > 0)
      /\ out.model = "V2" => (out.settled > 0 => out.accrued = 0)
  BY <1>1, <1>3, V2Outcome, LegacyOutcome
<1>5. CASE DecisionRows(t.seen.rows) # {} \/ ~Governed(t)
  <2>1. ApplyForOrder(t, doc) = NoMovement(t, doc)
    BY <1>5 DEF ApplyForOrder
  <2> QED
    BY <2>1, NoMovementSound
<1>6. CASE ~(DecisionRows(t.seen.rows) # {} \/ ~Governed(t))
  <2> DEFINE frozen == IF doc.commission = NoDecision THEN [doc EXCEPT !.commission = out] ELSE doc
  <2>1. ApplyForOrder(t, doc) =
          [order |-> frozen, rows |-> LedgerRows(t.order, out), due |-> out.dueAfter,
           revenue |-> RevenueRows(t.order, out, s.booked)]
    BY <1>6 DEF ApplyForOrder
  <2>2. frozen \in OrderDoc
    BY <1>4 DEF OrderDoc
  <2>3. out.dueAfter \in Int /\ out.accrued \in Nat /\ out.settled \in Nat
    BY <1>4 DEF Outcome
  <2>4. RevenueRows(t.order, out, s.booked) \in SUBSET Revenue
    BY <2>3, <1>1 DEF RevenueRows, Revenue, RevenueType
  <2>5. LedgerRows(t.order, out) \in Seq(Row) /\ Replays(LedgerRows(t.order, out), t.seen.due, out.dueAfter)
    BY <1>1, <1>4, DecisionRowsReplay
  <2> HIDE DEF out, s, frozen
  <2> QED
    BY <2>1, <2>2, <2>3, <2>4, <2>5 DEF Sound
<1> QED
  BY <1>5, <1>6

LEMMA NegatedRevenue ==
  ASSUME revenue \in SUBSET Revenue, NEW o \in Order, NEW types
  PROVE  RevenueReversal(revenue, o, types) \in SUBSET Revenue
<1>1. ASSUME NEW r \in Revenue PROVE Negated(r) \in Revenue
  BY DEF Negated, Revenue
<1> QED
  BY <1>1 DEF RevenueReversal

LEMMA ReverseSound ==
  ASSUME NEW t \in Open, NEW doc \in OrderDoc, revenue \in SUBSET Revenue
  PROVE  Sound(ReverseForOrder(t, doc), t.seen.due)
<1>1. t.order \in Order /\ t.seen.due \in Int /\ t.seen.rows \in SUBSET Row
  BY DEF Open, Snapshot
<1>2. CASE DecisionRows(t.seen.rows) = {}
  <2>1. ReverseForOrder(t, doc) = NoMovement(t, doc)
    BY <1>2 DEF ReverseForOrder
  <2> QED
    BY <2>1, NoMovementSound
<1>3. CASE DecisionRows(t.seen.rows) # {}
  <2> DEFINE row == ReversalRow(t.order, t.seen.rows, t.seen.due)
  <2>1. ReverseForOrder(t, doc) =
          [order |-> doc, rows |-> <<row>>, due |-> row.after,
           revenue |-> RevenueReversal(revenue, t.order, {"EARNED", "SETTLED"})]
    BY <1>3 DEF ReverseForOrder
  <2>2. row \in Row /\ row.after \in Int /\ Replays(<<row>>, t.seen.due, row.after)
    BY <1>1, ReversalReplays
  <2>3. RevenueReversal(revenue, t.order, {"EARNED", "SETTLED"}) \in SUBSET Revenue
    BY <1>1, NegatedRevenue
  <2> HIDE DEF row
  <2>4. <<row>> \in Seq(Row)
    BY <2>2
  <2> QED
    BY <2>1, <2>2, <2>3, <2>4 DEF Sound
<1> QED
  BY <1>2, <1>3

LEMMA RefundSound ==
  ASSUME NEW t \in Open, NEW e, NEW d \in Int, revenue \in SUBSET Revenue, Sound(e, d)
  PROVE  Sound(WithRefundRequest(t, e), d)
<1>1. RevenueReversal(revenue, t.order, {"NET"}) \in SUBSET Revenue
  BY NegatedRevenue DEF Open
<1>2. [e.order EXCEPT !.refundRequested = TRUE] \in OrderDoc
  BY DEF Sound, OrderDoc
<1> QED
  BY <1>1, <1>2 DEF Sound, WithRefundRequest

LEMMA EffectSound ==
  ASSUME NEW t \in Open, sale \in [Order -> Sale], revenue \in SUBSET Revenue
  PROVE  Sound(Effect(t), t.seen.due)
<1> DEFINE doc == t.seen.order
           s == sale[t.order]
           returned == t.recovery = "RETURNED_TO_MERCHANT"
<1>1. /\ doc \in OrderDoc /\ t.seen.due \in Int /\ t.recovery \in Recovery /\ t.op \in Op
  BY DEF Open, Snapshot
<1>2. CASE t.op = "confirm"
  <2> DEFINE n == [doc EXCEPT !.status = IF s.delivery THEN "OUT_FOR_DELIVERY" ELSE "COMPLETED",
                              !.pay = IF s.online \/ s.delivery THEN @ ELSE "PAID"]
  <2>1. n \in OrderDoc
    BY <1>1 DEF OrderDoc, Status, Pay
  <2>2. Effect(t) = ApplyForOrder(t, n)
    BY <1>2 DEF Effect
  <2> QED
    BY <2>1, <2>2, ApplySound
<1>3. CASE t.op = "deliver"
  <2>1. [doc EXCEPT !.status = "COMPLETED"] \in OrderDoc
    BY <1>1 DEF OrderDoc, Status
  <2>2. Effect(t) = NoMovement(t, [doc EXCEPT !.status = "COMPLETED"])
    BY <1>3 DEF Effect
  <2> QED
    BY <2>1, <2>2, NoMovementSound
<1>4. CASE t.op = "fail"
  <2> DEFINE n == [doc EXCEPT !.status = "CANCELLED", !.recovery = t.recovery]
  <2>1. n \in OrderDoc
    BY <1>1 DEF OrderDoc, Status
  <2>2. Effect(t) = IF returned THEN ReverseForOrder(t, n) ELSE NoMovement(t, n)
    BY <1>4 DEF Effect
  <2> QED
    BY <2>1, <2>2, NoMovementSound, ReverseSound
<1>5. CASE t.op = "resolve"
  <2> DEFINE n == [doc EXCEPT !.recovery = t.recovery]
  <2>1. n \in OrderDoc
    BY <1>1 DEF OrderDoc
  <2>2. Effect(t) = IF returned THEN ReverseForOrder(t, n) ELSE NoMovement(t, n)
    BY <1>5 DEF Effect
  <2> QED
    BY <2>1, <2>2, NoMovementSound, ReverseSound
<1>6. CASE t.op = "refund"
  <2> DEFINE n == [doc EXCEPT !.status = "REFUNDED", !.pay = "REFUND_PENDING"]
  <2>1. n \in OrderDoc
    BY <1>1 DEF OrderDoc, Status, Pay
  <2>2. Effect(t) = WithRefundRequest(t, ReverseForOrder(t, n))
    BY <1>6 DEF Effect
  <2> QED
    BY <1>1, <2>1, <2>2, ReverseSound, RefundSound
<1>7. CASE t.op = "refundOffline"
  <2> DEFINE n == [doc EXCEPT !.status = "REFUNDED", !.pay = "REFUNDED"]
  <2>1. n \in OrderDoc
    BY <1>1 DEF OrderDoc, Status, Pay
  <2>2. Effect(t) = ReverseForOrder(t, n)
    BY <1>7 DEF Effect
  <2> QED
    BY <2>1, <2>2, ReverseSound
<1>8. CASE t.op = "cancel"
  <2> DEFINE n == [doc EXCEPT !.status = "CANCELLED", !.pay = "REFUND_PENDING"]
  <2>1. n \in OrderDoc
    BY <1>1 DEF OrderDoc, Status, Pay
  <2>2. Effect(t) = WithRefundRequest(t, NoMovement(t, n))
    BY <1>8 DEF Effect
  <2> QED
    BY <1>1, <2>1, <2>2, NoMovementSound, RefundSound
<1> QED
  BY <1>1, <1>2, <1>3, <1>4, <1>5, <1>6, <1>7, <1>8 DEF Op

--------------------------------------------------------------------------------
(* The inductive invariant. LedgerReplays alone is not inductive: a commit  *)
(* writes rows computed on the balance its transaction read, so an open     *)
(* transaction whose read is not marked stale must have read the balance    *)
(* the ledger now ends at. IsOpen and the two facts about it are what the   *)
(* write-conflict check of the store provides.                              *)

IsOpen(w) == txn[w].phase = "open"

SnapshotsCurrent ==
  \A w \in Worker : IsOpen(w) /\ ~txn[w].dueStale => txn[w].seen.due = due

IInv == TypeOK /\ LedgerReplays /\ SnapshotsCurrent

LEMMA LedgerReplaysIsReplays ==
  ASSUME ledger \in Seq(Row)
  PROVE  LedgerReplays <=> Replays(ledger, 0, due)
<1>1. DOMAIN ledger = 1..Len(ledger) /\ Len(ledger) \in Nat /\ (ledger = <<>> <=> Len(ledger) = 0)
  OBVIOUS
<1> QED
  BY <1>1 DEF LedgerReplays, Before, Replays, Start

LEMMA InitIInv == Init => IInv
<1> SUFFICES ASSUME Init PROVE IInv
  OBVIOUS
<1>1. order \in [Order -> OrderDoc]
  BY DEF Init, OrderDoc, Status, Pay, Recovery
<1>2. revenue \in SUBSET Revenue
  <2>1. ASSUME NEW o \in Order PROVE BookedAtPayment(o) \in SUBSET Revenue
    <3>1. sale[o] \in SaleType
      BY SaleAssumption DEF Init
    <3>2. PlatformShare(sale[o].subtotal) \in Nat
      BY <3>1, ShareType DEF SaleType
    <3> QED
      BY <3>2 DEF BookedAtPayment, Revenue, RevenueType
  <2> QED
    BY <2>1 DEF Init
<1>3. txn \in [Worker -> {Idle} \cup Called \cup Open]
  BY DEF Init
<1>4. SnapshotsCurrent
  BY DEF Init, SnapshotsCurrent, IsOpen, Idle
<1>5. TypeOK
  BY <1>1, <1>2, <1>3 DEF Init, TypeOK
<1>6. LedgerReplays
  BY DEF Init, LedgerReplays
<1> QED
  BY <1>4, <1>5, <1>6 DEF IInv
\* A transaction opened now reads the current balance and rows.
LEMMA OpenedSound ==
  ASSUME TypeOK, NEW t \in Called \cup Open
  PROVE  Opened(t) \in Open /\ Opened(t).seen.due = due
<1>1. t.order \in Order /\ t.op \in Op /\ t.recovery \in Recovery
  BY DEF Called, Open
<1>2. RowsOf(t.order) \in SUBSET Row
  BY DEF TypeOK, RowsOf
<1> QED
  BY <1>1, <1>2 DEF Opened, Open, Snapshot, TypeOK

\* Begin and Retry
LEMMA OpeningStep ==
  ASSUME IInv, NEW w \in Worker, txn[w].phase \in {"called", "open"},
         txn' = [txn EXCEPT ![w] = Opened(txn[w])],
         UNCHANGED <<sale, order, due, ledger, revenue, v2>>
  PROVE  IInv'
<1>1. txn[w] \in Called \cup Open
  BY DEF IInv, TypeOK, Idle
<1>2. Opened(txn[w]) \in Open /\ Opened(txn[w]).seen.due = due
  BY <1>1, OpenedSound DEF IInv
<1>3. TypeOK'
  BY <1>2 DEF IInv, TypeOK
<1>4. LedgerReplays'
  BY DEF IInv, LedgerReplays, Before
<1>5. SnapshotsCurrent'
  BY <1>2 DEF IInv, SnapshotsCurrent, IsOpen, TypeOK
<1> QED
  BY <1>3, <1>4, <1>5 DEF IInv

\* Call and Refuse: a worker takes up a call or drops one.
LEMMA ClosedStep ==
  ASSUME IInv, NEW w \in Worker, NEW t \in {Idle} \cup Called,
         txn' = [txn EXCEPT ![w] = t],
         UNCHANGED <<sale, order, due, ledger, revenue>>, v2' \in BOOLEAN
  PROVE  IInv'
<1>1. t.phase # "open"
  BY DEF Idle, Called
<1>2. TypeOK'
  BY DEF IInv, TypeOK
<1>3. LedgerReplays'
  BY DEF IInv, LedgerReplays, Before
<1>4. SnapshotsCurrent'
  BY <1>1 DEF IInv, SnapshotsCurrent, IsOpen, TypeOK
<1> QED
  BY <1>2, <1>3, <1>4 DEF IInv

\* A commit: the conflict check makes the balance read the balance written on.
LEMMA CommitStep ==
  ASSUME IInv, NEW w \in Worker, IsOpen(w), Commit(w)
  PROVE  IInv'
<1> DEFINE t == txn[w]
           e == Effect(t)
<1>1. t \in Open
  BY DEF IInv, TypeOK, IsOpen, Idle, Called
<1>2. Sound(e, t.seen.due)
  BY <1>1, EffectSound DEF IInv, TypeOK
<1>3. /\ ~(t.dueStale /\ e.rows # <<>>)
      /\ order' = [order EXCEPT ![t.order] = e.order]
      /\ due' = IF e.rows = <<>> THEN due ELSE e.due
      /\ ledger' = ledger \o e.rows
      /\ revenue' = revenue \cup e.revenue
      /\ txn' = [v \in Worker |->
                   IF v = w THEN Idle
                   ELSE IF txn[v].phase = "open" THEN StaleAfter(v, t)
                   ELSE txn[v]]
      /\ UNCHANGED <<sale, v2>>
  BY DEF Commit, Conflict
<1> HIDE DEF e
<1>4. t.order \in Order
  BY <1>1 DEF Open
<1>5. ASSUME NEW v \in Worker, IsOpen(v)
      PROVE  /\ StaleAfter(v, t) \in Open
             /\ StaleAfter(v, t).seen = txn[v].seen
             /\ ~StaleAfter(v, t).dueStale => ~txn[v].dueStale /\ e.rows = <<>>
  <2>1. txn[v] \in Open
    BY <1>5 DEF IInv, TypeOK, IsOpen, Idle, Called
  <2> QED
    BY <2>1 DEF StaleAfter, Open, e
<1>6. TypeOK'
  <2>1. order' \in [Order -> OrderDoc] /\ revenue' \in SUBSET Revenue
    BY <1>2, <1>3, <1>4 DEF IInv, TypeOK, Sound
  <2>2. due' \in Int /\ ledger' \in Seq(Row)
    BY <1>2, <1>3 DEF IInv, TypeOK, Sound
  <2>3. txn' \in [Worker -> {Idle} \cup Called \cup Open]
    BY <1>3, <1>5 DEF IInv, TypeOK, IsOpen
  <2> QED
    BY <1>3, <2>1, <2>2, <2>3 DEF IInv, TypeOK
<1>7. LedgerReplays'
  <2>1. CASE e.rows = <<>>
    <3>1. ledger' = ledger /\ due' = due
      BY <1>3, <2>1 DEF IInv, TypeOK
    <3> QED
      BY <3>1 DEF IInv, LedgerReplays, Before
  <2>2. CASE e.rows # <<>>
    <3>1. t.seen.due = due
      BY <1>3, <2>2 DEF IInv, SnapshotsCurrent
    <3>2. Replays(e.rows, due, e.due) /\ e.rows \in Seq(Row) /\ e.due \in Int
      BY <1>2, <2>2, <3>1 DEF Sound
    <3>3. Replays(ledger, 0, due) /\ ledger \in Seq(Row) /\ due \in Int
      BY LedgerReplaysIsReplays DEF IInv, TypeOK
    <3>4. ledger' \in Seq(Row) /\ Replays(ledger', 0, due')
      BY <1>3, <2>2, <3>2, <3>3, AppendReplays
    <3>5. DOMAIN ledger' = 1..Len(ledger') /\ Len(ledger') \in Nat
            /\ (ledger' = <<>> <=> Len(ledger') = 0)
      BY <3>4
    <3> QED
      BY <3>4, <3>5 DEF LedgerReplays, Before, Replays, Start
  <2> QED
    BY <2>1, <2>2
<1>8. SnapshotsCurrent'
  <2> SUFFICES ASSUME NEW v \in Worker, IsOpen(v)', ~txn'[v].dueStale
               PROVE  txn'[v].seen.due = due'
    BY DEF SnapshotsCurrent
  <2>1. v # w /\ IsOpen(v) /\ txn'[v] = StaleAfter(v, t)
    BY <1>3 DEF IsOpen, Idle
  <2>2. txn'[v].seen = txn[v].seen /\ ~txn[v].dueStale /\ e.rows = <<>>
    BY <1>5, <2>1
  <2> QED
    BY <1>3, <2>1, <2>2 DEF IInv, SnapshotsCurrent
<1> QED
  BY <1>6, <1>7, <1>8 DEF IInv

LEMMA NextIInv == IInv /\ [Next]_vars => IInv'
<1> SUFFICES ASSUME IInv, [Next]_vars PROVE IInv'
  OBVIOUS
<1>1. CASE UNCHANGED vars
  BY <1>1 DEF vars, IInv, TypeOK, LedgerReplays, Before, SnapshotsCurrent, IsOpen
<1>2. ASSUME NEW w \in Worker, Step(w) PROVE IInv'
  <2>1. CASE Begin(w)
    BY <2>1, OpeningStep DEF Begin
  <2>2. CASE ConfirmPickup(w)
    BY <2>2, CommitStep DEF ConfirmPickup, Serves, IsOpen
  <2>3. CASE Deliver(w)
    BY <2>3, CommitStep DEF Deliver, Serves, IsOpen
  <2>4. CASE FailDelivery(w)
    BY <2>4, CommitStep DEF FailDelivery, Serves, IsOpen
  <2>5. CASE ResolveRecovery(w)
    BY <2>5, CommitStep DEF ResolveRecovery, Serves, IsOpen
  <2>6. CASE IssueRefund(w)
    BY <2>6, CommitStep DEF IssueRefund, Serves, IsOpen
  <2>7. CASE RecordOfflineRefund(w)
    BY <2>7, CommitStep DEF RecordOfflineRefund, Serves, IsOpen
  <2>8. CASE CancelPaid(w)
    BY <2>8, CommitStep DEF CancelPaid, Serves, IsOpen
  <2>9. CASE Retry(w)
    BY <2>9, OpeningStep DEF Retry
  <2>10. CASE Refuse(w)
    BY <2>10, ClosedStep DEF Refuse, IInv, TypeOK
  <2> QED
    BY <1>2, <2>1, <2>2, <2>3, <2>4, <2>5, <2>6, <2>7, <2>8, <2>9, <2>10 DEF Step
<1>3. ASSUME NEW w \in Worker, NEW o \in Order, NEW op \in Op, Call(w, o, op) PROVE IInv'
  <2>1. PICK recovery \in Recoveries(op) :
          txn' = [txn EXCEPT ![w] = [phase |-> "called", op |-> op, order |-> o,
                                     recovery |-> recovery]]
    BY <1>3 DEF Call
  <2>2. [phase |-> "called", op |-> op, order |-> o, recovery |-> recovery] \in Called
    BY DEF Called, Recoveries, Recovery, Op
  <2> QED
    BY <1>3, <2>1, <2>2, ClosedStep DEF Call, IInv, TypeOK
<1>4. CASE CutoffReached
  BY <1>4 DEF CutoffReached, IInv, TypeOK, LedgerReplays, Before, SnapshotsCurrent, IsOpen
<1> QED
  BY <1>1, <1>2, <1>3, <1>4 DEF Next

LEMMA Invariance == Spec => []IInv
BY InitIInv, NextIInv, PTL DEF Spec

\* Every reachable state has the types the module declares, for any orders,
\* workers, subtotals and threshold.
THEOREM TypeCorrect == Spec => []TypeOK
<1>1. IInv => TypeOK
  BY DEF IInv
<1> QED
  BY <1>1, Invariance, PTL

\* The commission ledger replays to commissionDue however many workers confirm,
\* fail, recover and refund sales of the establishment at the same time: no
\* accrual, settlement or reversal is lost or counted twice in the balance.
THEOREM BalanceIsLedger == Spec => []LedgerReplays
<1>1. IInv => LedgerReplays
  BY DEF IInv
<1> QED
  BY <1>1, Invariance, PTL

--------------------------------------------------------------------------------
(* The decision of an order, its rows and its revenue.                      *)
(* A transaction that commits read the order and the order's rows as they   *)
(* are: every operation writes the order, so a concurrent commit on the     *)
(* same order is a conflict. From that, each order's frozen decision        *)
(* determines its rows and what the platform booked for it.                 *)

Accrues(out) == out.model = "LEGACY" \/ out.kind = "NORMAL"

\* What either engine decides for order o on the balance d.
Decided(out, o, d) ==
  /\ out \in Outcome
  /\ out.dueBefore = d
  /\ out.merchantAmount + out.settled = sale[o].subtotal
  /\ Accrues(out) \/ (out.accrued = 0 /\ out.settled > 0)
  /\ out.settled > 0 => out.settled <= d + out.accrued
  /\ out.model = "V2" /\ out.settled > 0 =>
       out.kind = "SETTLEMENT" /\ out.accrued = 0 /\ sale[o].control = "TFTW" /\ d >= Threshold

DecisionFits(o) ==
  LET c == order[o].commission
      rows == RowsOf(o)
  IN  \/ c = NoDecision /\ rows = {}
      \/ /\ c \in Outcome
         /\ c.merchantAmount + c.settled = sale[o].subtotal
         /\ Accrues(c) \/ (c.accrued = 0 /\ c.settled > 0)
         /\ Accrues(c) => \E r \in rows : r.type = "ACCRUAL"
         /\ c.settled > 0 => \E r \in rows : r.type = "SETTLEMENT"
         /\ \A r \in rows :
              \/ r.type = "ACCRUAL" /\ Accrues(c) /\ r.amount = c.accrued
              \/ r.type = "SETTLEMENT" /\ c.settled > 0 /\ r.amount = c.settled
              \/ r.type = "REVERSAL" /\ r.delta = c.settled - c.accrued

Reversed(o) == \E r \in RowsOf(o) : r.type = "REVERSAL"

RevenueRow(o, type, n) == [order |-> o, type |-> type, amount |-> n]
Figure(c, type) == IF type = "EARNED" THEN c.accrued ELSE c.settled

RevenueFits(o) ==
  \A type \in {"EARNED", "SETTLED"}, n \in Int :
    LET figure == Figure(order[o].commission, type)
    IN  RevenueRow(o, type, n) \in revenue <=>
          /\ ~sale[o].booked
          /\ figure # 0
          /\ n = figure \/ (Reversed(o) /\ n = -figure)

\* Food that was brought out is not with the merchant any more.
Regular(doc) == doc.recovery # "NONE" => doc.status \notin {"OPEN", "OUT_FOR_DELIVERY"}

UndoneDoc(doc) == doc.status = "REFUNDED" \/ doc.recovery = "RETURNED_TO_MERCHANT"

StatusFits(o) ==
  /\ Regular(order[o])
  /\ UndoneDoc(order[o]) => order[o].commission = NoDecision \/ Reversed(o)

ReadsCurrent ==
  \A w \in Worker : IsOpen(w) /\ ~txn[w].orderStale =>
    /\ txn[w].seen.order = order[txn[w].order]
    /\ txn[w].seen.rows = RowsOf(txn[w].order)

OneRowEach ==
  \A i, j \in DOMAIN ledger :
    ledger[i].order = ledger[j].order /\ ledger[i].type = ledger[j].type => i = j

OrdersFit == \A o \in Order : DecisionFits(o) /\ RevenueFits(o) /\ StatusFits(o)

BookInv == IInv /\ ReadsCurrent /\ OneRowEach /\ SettlementIsEarned /\ OrdersFit

--------------------------------------------------------------------------------
(* What the engines decide.                                                 *)

LEMMA V2Decides ==
  ASSUME NEW o \in Order, sale[o] \in SaleType, NEW d \in Int
  PROVE  Decided(DecideV2(sale[o].subtotal, d, sale[o].control), o, d)
<1> DEFINE n == sale[o].subtotal
           out == DecideV2(n, d, sale[o].control)
<1>1. n \in Nat /\ sale[o].control \in Control
  BY DEF SaleType
<1>2. PlatformShare(n) \in Nat
  BY <1>1, ShareType
<1>3. out \in Outcome
  BY <1>1, V2Outcome
<1>4. Threshold \in Nat /\ Threshold > 0
  BY ThresholdAssumption
<1>5. CASE sale[o].control = "TFTW" /\ d >= Threshold /\ n > 0
  <2>1. /\ out.model = "V2" /\ out.kind = "SETTLEMENT" /\ out.accrued = 0 /\ out.dueBefore = d
        /\ out.settled = Least(d, n) /\ out.merchantAmount = n - Least(d, n)
    BY <1>5 DEF DecideV2
  <2> HIDE DEF out
  <2>2. Decided(out, o, d)
    BY <1>1, <1>3, <1>4, <1>5, <2>1 DEF Decided, Least
  <2> QED
    BY <2>2 DEF out
<1>6. CASE ~(sale[o].control = "TFTW" /\ d >= Threshold /\ n > 0)
  <2>1. /\ out.model = "V2" /\ out.kind = "NORMAL" /\ out.dueBefore = d
        /\ out.settled = 0 /\ out.merchantAmount = n - 0
    BY <1>6 DEF DecideV2
  <2> HIDE DEF out
  <2>2. Decided(out, o, d)
    BY <1>1, <1>3, <2>1 DEF Decided, Accrues
  <2> QED
    BY <2>2 DEF out
<1> QED
  BY <1>5, <1>6

LEMMA LegacyDecides ==
  ASSUME NEW o \in Order, sale[o] \in SaleType, NEW d \in Int
  PROVE  Decided(DecideLegacy(sale[o].subtotal, d), o, d)
<1> DEFINE n == sale[o].subtotal
           out == DecideLegacy(n, d)
<1>1. n \in Nat
  BY DEF SaleType
<1>2. PlatformShare(n) \in Nat
  BY <1>1, ShareType
<1>3. out \in Outcome
  BY <1>1, LegacyOutcome
<1> DEFINE balance == d + PlatformShare(n)
<1>4. /\ out.model = "LEGACY" /\ out.accrued = PlatformShare(n) /\ out.dueBefore = d
      /\ out.settled = (IF balance >= Threshold THEN Least(balance, n) ELSE 0)
      /\ out.merchantAmount = n - out.settled
  BY DEF DecideLegacy
<1> HIDE DEF out
<1>5. Decided(out, o, d)
  BY <1>1, <1>2, <1>3, <1>4, ThresholdAssumption DEF Decided, Accrues, Least, Outcome
<1> QED
  BY <1>5 DEF out

\* The rows of a decision, one by one.
LEMMA RowsOfDecision ==
  ASSUME NEW o \in Order, NEW d \in Int, NEW out, Decided(out, o, d)
  PROVE  LET rows == LedgerRows(o, out) IN
         /\ DOMAIN rows = 1..Len(rows) /\ Len(rows) \in {1, 2}
         /\ \A i \in DOMAIN rows :
              /\ rows[i].order = o
              /\ \/ rows[i].type = "ACCRUAL" /\ Accrues(out) /\ rows[i].amount = out.accrued
                 \/ rows[i].type = "SETTLEMENT" /\ out.settled > 0 /\ rows[i].amount = out.settled
              /\ rows[i].type = "SETTLEMENT" => Start(rows, d, i) = d + out.accrued
         /\ \A i, j \in DOMAIN rows : rows[i].type = rows[j].type => i = j
         /\ Accrues(out) => \E i \in DOMAIN rows : rows[i].type = "ACCRUAL"
         /\ out.settled > 0 => \E i \in DOMAIN rows : rows[i].type = "SETTLEMENT"
<1> DEFINE accrual == [order |-> o, type |-> "ACCRUAL", amount |-> out.accrued,
                       delta |-> out.accrued, after |-> out.dueBefore + out.accrued]
           settlement == [order |-> o, type |-> "SETTLEMENT", amount |-> out.settled,
                          delta |-> -out.settled, after |-> out.dueAfter]
<1>1. out.accrued \in Nat /\ out.settled \in Nat /\ out.dueBefore = d
  BY DEF Decided, Outcome
<1>2. CASE out.settled > 0 /\ Accrues(out)
  <2>1. LedgerRows(o, out) = <<accrual, settlement>>
    BY <1>2 DEF LedgerRows, Accrues
  <2> QED
    BY <1>1, <1>2, <2>1 DEF Start
<1>3. CASE out.settled > 0 /\ ~Accrues(out)
  <2>1. LedgerRows(o, out) = <<settlement>>
    BY <1>3 DEF LedgerRows, Accrues
  <2>2. out.accrued = 0
    BY <1>3 DEF Decided
  <2> QED
    BY <1>1, <1>3, <2>1, <2>2 DEF Start
<1>4. CASE ~(out.settled > 0)
  <2>1. Accrues(out)
    BY <1>4 DEF Decided
  <2>2. LedgerRows(o, out) = <<accrual>>
    BY <1>4, <2>1 DEF LedgerRows, Accrues
  <2> QED
    BY <1>1, <1>4, <2>1, <2>2 DEF Start
<1> QED
  BY <1>2, <1>3, <1>4

--------------------------------------------------------------------------------
(* A commit applies a decision, reverses one, or leaves the ledger alone.   *)

NetOnly(rows) == \A r \in rows : r.type = "NET"

Applies(t, e) ==
  /\ t.seen.order.status = "OPEN" /\ DecisionRows(t.seen.rows) = {}
  /\ e.order.recovery = t.seen.order.recovery
  /\ e.order.status \in {"OUT_FOR_DELIVERY", "COMPLETED"}
  /\ \E out \in Outcome :
       /\ Decided(out, t.order, t.seen.due)
       /\ e.rows = LedgerRows(t.order, out)
       /\ e.revenue = RevenueRows(t.order, out, sale[t.order].booked)
       /\ t.seen.order.commission = NoDecision => e.order.commission = out

Reverses(t, e) ==
  /\ DecisionRows(t.seen.rows) # {}
  /\ e.rows = <<ReversalRow(t.order, t.seen.rows, t.seen.due)>>
  /\ e.order.commission = t.seen.order.commission
  /\ RevenueReversal(revenue, t.order, {"EARNED", "SETTLED"}) \subseteq e.revenue
  /\ NetOnly(e.revenue \ RevenueReversal(revenue, t.order, {"EARNED", "SETTLED"}))

Stands(t, e) ==
  /\ e.rows = <<>>
  /\ e.order.commission = t.seen.order.commission
  /\ NetOnly(e.revenue)
  /\ UndoneDoc(e.order) => UndoneDoc(t.seen.order) \/ DecisionRows(t.seen.rows) = {}

StaysRegular(t, doc) == Regular(t.seen.order) => Regular(doc)

LEMMA StandKind ==
  ASSUME NEW t \in Open, NEW doc \in OrderDoc,
         doc.commission = t.seen.order.commission,
         UndoneDoc(doc) => UndoneDoc(t.seen.order) \/ DecisionRows(t.seen.rows) = {}
  PROVE  Stands(t, NoMovement(t, doc)) /\ NoMovement(t, doc).order = doc
BY DEF Stands, NoMovement, NetOnly

LEMMA ApplyKind ==
  ASSUME NEW t \in Open, NEW doc \in OrderDoc, sale \in [Order -> Sale],
         doc.commission = t.seen.order.commission,
         doc.recovery = t.seen.order.recovery,
         doc.status \in {"OUT_FOR_DELIVERY", "COMPLETED"},
         t.seen.order.status = "OPEN"
  PROVE  /\ StaysRegular(t, ApplyForOrder(t, doc).order)
         /\ Applies(t, ApplyForOrder(t, doc)) \/ Stands(t, ApplyForOrder(t, doc))
<1> DEFINE s == sale[t.order]
           out == IF t.seen.v2 THEN DecideV2(s.subtotal, t.seen.due, s.control)
                  ELSE DecideLegacy(s.subtotal, t.seen.due)
           frozen == IF doc.commission = NoDecision THEN [doc EXCEPT !.commission = out] ELSE doc
<1>1. t.order \in Order /\ t.seen.due \in Int
  BY DEF Open, Snapshot
<1>2. sale[t.order] \in SaleType
  BY <1>1, SaleAssumption
<1>3. Decided(out, t.order, t.seen.due)
  BY <1>1, <1>2, V2Decides, LegacyDecides
<1>4. out \in Outcome
  BY <1>3 DEF Decided
<1>5. CASE DecisionRows(t.seen.rows) # {} \/ ~Governed(t)
  <2>1. ApplyForOrder(t, doc) = NoMovement(t, doc)
    BY <1>5 DEF ApplyForOrder
  <2>2. UndoneDoc(doc) => UndoneDoc(t.seen.order)
    BY DEF UndoneDoc
  <2> QED
    BY <2>1, <2>2, StandKind DEF StaysRegular, Regular
<1>6. CASE ~(DecisionRows(t.seen.rows) # {} \/ ~Governed(t))
  <2>1. ApplyForOrder(t, doc) =
          [order |-> frozen, rows |-> LedgerRows(t.order, out), due |-> out.dueAfter,
           revenue |-> RevenueRows(t.order, out, s.booked)]
    BY <1>6 DEF ApplyForOrder
  <2> HIDE DEF out
  <2>2. /\ frozen.status = doc.status /\ frozen.recovery = doc.recovery
        /\ doc.commission = NoDecision => frozen.commission = out
    BY <1>4 DEF OrderDoc
  <2> HIDE DEF frozen
  <2>3. Applies(t, ApplyForOrder(t, doc))
    BY <1>3, <1>4, <1>6, <2>1, <2>2 DEF Applies
  <2> QED
    BY <2>1, <2>2, <2>3 DEF StaysRegular, Regular
<1> QED
  BY <1>5, <1>6

LEMMA ReverseKind ==
  ASSUME NEW t \in Open, NEW doc \in OrderDoc,
         doc.commission = t.seen.order.commission
  PROVE  /\ ReverseForOrder(t, doc).order = doc
         /\ Reverses(t, ReverseForOrder(t, doc)) \/ Stands(t, ReverseForOrder(t, doc))
<1>1. CASE DecisionRows(t.seen.rows) = {}
  <2>1. ReverseForOrder(t, doc) = NoMovement(t, doc)
    BY <1>1 DEF ReverseForOrder
  <2> QED
    BY <1>1, <2>1, StandKind
<1>2. CASE DecisionRows(t.seen.rows) # {}
  <2> DEFINE row == ReversalRow(t.order, t.seen.rows, t.seen.due)
             undone == RevenueReversal(revenue, t.order, {"EARNED", "SETTLED"})
  <2>1. ReverseForOrder(t, doc) =
          [order |-> doc, rows |-> <<row>>, due |-> row.after, revenue |-> undone]
    BY <1>2 DEF ReverseForOrder
  <2>2. undone \ undone = {}
    OBVIOUS
  <2> HIDE DEF row, undone
  <2>3. /\ ReverseForOrder(t, doc).order = doc /\ ReverseForOrder(t, doc).rows = <<row>>
        /\ ReverseForOrder(t, doc).revenue = undone
    BY <2>1
  <2> QED
    BY <1>2, <2>2, <2>3 DEF Reverses, NetOnly, row, undone
<1> QED
  BY <1>1, <1>2

\* The refund request adds reversals of what was booked at payment, no more.
LEMMA RefundKind ==
  ASSUME NEW t \in Open, NEW e, e.order \in OrderDoc, revenue \in SUBSET Revenue,
         Reverses(t, e) \/ Stands(t, e)
  PROVE  LET f == WithRefundRequest(t, e) IN
         /\ Reverses(t, f) \/ Stands(t, f)
         /\ f.order.status = e.order.status /\ f.order.recovery = e.order.recovery
<1> DEFINE f == WithRefundRequest(t, e)
           net == RevenueReversal(revenue, t.order, {"NET"})
           doc == [e.order EXCEPT !.refundRequested = TRUE]
<1>1. NetOnly(net)
  <2> SUFFICES ASSUME NEW r \in revenue, r.type = "NET" PROVE Negated(r).type = "NET"
    BY DEF NetOnly, RevenueReversal
  <2> QED
    BY DEF Negated, Revenue
<1>2. /\ doc.status = e.order.status /\ doc.recovery = e.order.recovery
      /\ doc.commission = e.order.commission
  BY DEF OrderDoc
<1> HIDE DEF net, doc
<1>3. f.order = doc /\ f.rows = e.rows /\ f.revenue = e.revenue \cup net
  BY DEF WithRefundRequest, net, doc
<1> HIDE DEF f
<1>4. Reverses(t, e) => Reverses(t, f)
  BY <1>1, <1>2, <1>3 DEF Reverses, NetOnly
<1>5. Stands(t, e) => Stands(t, f)
  BY <1>1, <1>2, <1>3 DEF Stands, NetOnly, UndoneDoc
<1>6. /\ Reverses(t, f) \/ Stands(t, f)
      /\ f.order.status = e.order.status /\ f.order.recovery = e.order.recovery
  BY <1>2, <1>3, <1>4, <1>5
<1> QED
  BY <1>6 DEF f

LEMMA EffectKind ==
  ASSUME NEW t \in Open, Claims(t), sale \in [Order -> Sale], revenue \in SUBSET Revenue
  PROVE  /\ StaysRegular(t, Effect(t).order)
         /\ Applies(t, Effect(t)) \/ Reverses(t, Effect(t)) \/ Stands(t, Effect(t))
<1> DEFINE doc == t.seen.order
           s == sale[t.order]
           returned == t.recovery = "RETURNED_TO_MERCHANT"
<1>1. /\ doc \in OrderDoc /\ t.seen.due \in Int /\ t.recovery \in Recovery /\ t.op \in Op
  BY DEF Open, Snapshot
<1>2. CASE t.op = "confirm"
  <2> DEFINE n == [doc EXCEPT !.status = IF s.delivery THEN "OUT_FOR_DELIVERY" ELSE "COMPLETED",
                              !.pay = IF s.online \/ s.delivery THEN @ ELSE "PAID"]
  <2>1. n \in OrderDoc
    BY <1>1 DEF OrderDoc, Status, Pay
  <2>2. Effect(t) = ApplyForOrder(t, n)
    BY <1>2 DEF Effect
  <2>3. /\ n.commission = doc.commission /\ n.recovery = doc.recovery
        /\ n.status \in {"OUT_FOR_DELIVERY", "COMPLETED"}
    BY <1>1 DEF OrderDoc
  <2>4. doc.status = "OPEN"
    BY <1>2 DEF Claims
  <2> HIDE DEF n
  <2> QED
    BY <2>1, <2>2, <2>3, <2>4, ApplyKind
<1>3. CASE t.op = "deliver"
  <2> DEFINE n == [doc EXCEPT !.status = "COMPLETED"]
  <2>1. n \in OrderDoc
    BY <1>1 DEF OrderDoc, Status
  <2>2. Effect(t) = NoMovement(t, n)
    BY <1>3 DEF Effect
  <2>3. /\ n.commission = doc.commission /\ n.recovery = doc.recovery /\ n.status = "COMPLETED"
    BY <1>1 DEF OrderDoc
  <2> HIDE DEF n
  <2>4. Stands(t, Effect(t)) /\ Effect(t).order = n
    BY <2>1, <2>2, <2>3, StandKind DEF UndoneDoc
  <2> QED
    BY <2>3, <2>4 DEF StaysRegular, Regular
<1>4. CASE t.op = "fail"
  <2> DEFINE n == [doc EXCEPT !.status = "CANCELLED", !.recovery = t.recovery]
  <2>1. n \in OrderDoc
    BY <1>1 DEF OrderDoc, Status
  <2>2. Effect(t) = IF returned THEN ReverseForOrder(t, n) ELSE NoMovement(t, n)
    BY <1>4 DEF Effect
  <2>3. /\ n.commission = doc.commission /\ n.recovery = t.recovery /\ n.status = "CANCELLED"
    BY <1>1 DEF OrderDoc
  <2> HIDE DEF n
  <2>4. CASE returned
    <3>1. /\ Effect(t).order = n
          /\ Reverses(t, Effect(t)) \/ Stands(t, Effect(t))
      BY <2>1, <2>2, <2>3, <2>4, ReverseKind
    <3> QED
      BY <2>3, <3>1 DEF StaysRegular, Regular
  <2>5. CASE ~returned
    <3>1. ~UndoneDoc(n)
      BY <2>3, <2>5 DEF UndoneDoc
    <3>2. Effect(t).order = n /\ Stands(t, Effect(t))
      BY <2>1, <2>2, <2>3, <2>5, <3>1, StandKind
    <3> QED
      BY <2>3, <3>2 DEF StaysRegular, Regular
  <2> QED
    BY <2>4, <2>5
<1>5. CASE t.op = "resolve"
  <2> DEFINE n == [doc EXCEPT !.recovery = t.recovery]
  <2>1. n \in OrderDoc
    BY <1>1 DEF OrderDoc
  <2>2. Effect(t) = IF returned THEN ReverseForOrder(t, n) ELSE NoMovement(t, n)
    BY <1>5 DEF Effect
  <2>3. /\ n.commission = doc.commission /\ n.recovery = t.recovery /\ n.status = doc.status
    BY <1>1 DEF OrderDoc
  <2>4. doc.recovery # "NONE"
    BY <1>5 DEF Claims
  <2> HIDE DEF n
  <2>5. CASE returned
    <3>1. /\ Effect(t).order = n
          /\ Reverses(t, Effect(t)) \/ Stands(t, Effect(t))
      BY <2>1, <2>2, <2>3, <2>5, ReverseKind
    <3> QED
      BY <2>3, <2>4, <3>1 DEF StaysRegular, Regular
  <2>6. CASE ~returned
    <3>1. UndoneDoc(n) => UndoneDoc(doc)
      BY <2>3, <2>6 DEF UndoneDoc
    <3>2. Effect(t).order = n /\ Stands(t, Effect(t))
      BY <2>1, <2>2, <2>3, <2>6, <3>1, StandKind
    <3> QED
      BY <2>3, <2>4, <3>2 DEF StaysRegular, Regular
  <2> QED
    BY <2>5, <2>6
<1>6. CASE t.op = "refund"
  <2> DEFINE n == [doc EXCEPT !.status = "REFUNDED", !.pay = "REFUND_PENDING"]
             e == ReverseForOrder(t, n)
  <2>1. n \in OrderDoc
    BY <1>1 DEF OrderDoc, Status, Pay
  <2>2. Effect(t) = WithRefundRequest(t, e)
    BY <1>6 DEF Effect
  <2>3. n.commission = doc.commission /\ n.status = "REFUNDED"
    BY <1>1 DEF OrderDoc
  <2> HIDE DEF n
  <2>4. /\ e.order = n
        /\ Reverses(t, e) \/ Stands(t, e)
    BY <2>1, <2>3, ReverseKind
  <2> HIDE DEF e
  <2>5. /\ Reverses(t, Effect(t)) \/ Stands(t, Effect(t))
        /\ Effect(t).order.status = n.status
    BY <2>1, <2>2, <2>4, RefundKind
  <2> QED
    BY <2>3, <2>5 DEF StaysRegular, Regular
<1>7. CASE t.op = "refundOffline"
  <2> DEFINE n == [doc EXCEPT !.status = "REFUNDED", !.pay = "REFUNDED"]
  <2>1. n \in OrderDoc
    BY <1>1 DEF OrderDoc, Status, Pay
  <2>2. Effect(t) = ReverseForOrder(t, n)
    BY <1>7 DEF Effect
  <2>3. n.commission = doc.commission /\ n.status = "REFUNDED"
    BY <1>1 DEF OrderDoc
  <2> HIDE DEF n
  <2>4. /\ Effect(t).order = n
        /\ Reverses(t, Effect(t)) \/ Stands(t, Effect(t))
    BY <2>1, <2>2, <2>3, ReverseKind
  <2> QED
    BY <2>3, <2>4 DEF StaysRegular, Regular
<1>8. CASE t.op = "cancel"
  <2> DEFINE n == [doc EXCEPT !.status = "CANCELLED", !.pay = "REFUND_PENDING"]
             e == NoMovement(t, n)
  <2>1. n \in OrderDoc
    BY <1>1 DEF OrderDoc, Status, Pay
  <2>2. Effect(t) = WithRefundRequest(t, e)
    BY <1>8 DEF Effect
  <2>3. n.commission = doc.commission /\ n.status = "CANCELLED" /\ n.recovery = doc.recovery
    BY <1>1 DEF OrderDoc
  <2> HIDE DEF n
  <2>4. e.order = n /\ Stands(t, e)
    BY <2>1, <2>3, StandKind DEF UndoneDoc
  <2> HIDE DEF e
  <2>5. /\ Reverses(t, Effect(t)) \/ Stands(t, Effect(t))
        /\ Effect(t).order.status = n.status
    BY <2>1, <2>2, <2>4, RefundKind
  <2> QED
    BY <2>3, <2>5 DEF StaysRegular, Regular
<1> QED
  BY <1>1, <1>2, <1>3, <1>4, <1>5, <1>6, <1>7, <1>8 DEF Op

--------------------------------------------------------------------------------
(* The invariant of the book.                                               *)

LEMMA InitBook == Init => BookInv
<1> SUFFICES ASSUME Init PROVE BookInv
  OBVIOUS
<1>1. IInv
  BY InitIInv
<1>2. ReadsCurrent /\ OneRowEach /\ SettlementIsEarned
  BY DEF Init, ReadsCurrent, IsOpen, Idle, OneRowEach, SettlementIsEarned
<1>3. ASSUME NEW o \in Order
      PROVE  DecisionFits(o) /\ RevenueFits(o) /\ StatusFits(o)
  <2>1. RowsOf(o) = {} /\ order[o].commission = NoDecision
    BY DEF Init, RowsOf
  <2>2. \A r \in revenue : r.type = "NET"
    BY DEF Init, BookedAtPayment
  <2>3. RevenueFits(o)
    BY <2>1, <2>2 DEF RevenueFits, RevenueRow, Figure, NoDecision
  <2>4. StatusFits(o)
    BY <2>1 DEF Init, StatusFits, Regular, UndoneDoc
  <2> QED
    BY <2>1, <2>3, <2>4 DEF DecisionFits
<1> QED
  BY <1>1, <1>2, <1>3 DEF BookInv, OrdersFit

\* A step that leaves the book alone, and whose open transactions were open or
\* have just read it.
LEMMA BookStands ==
  ASSUME BookInv, IInv', UNCHANGED <<sale, order, due, ledger, revenue>>,
         \A w \in Worker : IsOpen(w)' =>
            \/ IsOpen(w) /\ txn'[w] = txn[w]
            \/ /\ txn'[w].seen.order = order[txn'[w].order]
               /\ txn'[w].seen.rows = RowsOf(txn'[w].order)
  PROVE  BookInv'
<1>1. \A o : RowsOf(o)' = RowsOf(o)
  BY DEF RowsOf
<1>2. ReadsCurrent'
  BY <1>1 DEF BookInv, ReadsCurrent, IsOpen
<1>3. OneRowEach' /\ SettlementIsEarned'
  BY DEF BookInv, OneRowEach, SettlementIsEarned, Before
<1>4. OrdersFit'
  BY <1>1 DEF BookInv, OrdersFit, DecisionFits, RevenueFits, StatusFits, Reversed
<1> QED
  BY <1>2, <1>3, <1>4 DEF BookInv

\* The rows of an order after rows of one order were appended.
LEMMA RowsAppended ==
  ASSUME ledger \in Seq(Row), NEW rows \in Seq(Row), ledger' = ledger \o rows,
         NEW o, \A i \in DOMAIN rows : rows[i].order = o
  PROVE  /\ RowsOf(o)' = RowsOf(o) \cup {rows[i] : i \in DOMAIN rows}
         /\ \A p : p # o => RowsOf(p)' = RowsOf(p)
         /\ DOMAIN ledger = 1..Len(ledger) /\ Len(ledger) \in Nat
         /\ DOMAIN rows = 1..Len(rows) /\ Len(rows) \in Nat
         /\ DOMAIN ledger' = 1..(Len(ledger) + Len(rows))
         /\ \A i \in DOMAIN ledger : ledger'[i] = ledger[i]
         /\ \A i \in DOMAIN rows : ledger'[Len(ledger) + i] = rows[i]
<1>1. /\ DOMAIN ledger = 1..Len(ledger) /\ Len(ledger) \in Nat
      /\ DOMAIN rows = 1..Len(rows) /\ Len(rows) \in Nat
      /\ DOMAIN ledger' = 1..(Len(ledger) + Len(rows))
      /\ \A i \in DOMAIN ledger : ledger'[i] = ledger[i]
      /\ \A i \in DOMAIN rows : ledger'[Len(ledger) + i] = rows[i]
  OBVIOUS
<1>2. \A i \in DOMAIN ledger' :
        i \in DOMAIN ledger \/ (i - Len(ledger) \in DOMAIN rows /\ i = Len(ledger) + (i - Len(ledger)))
  BY <1>1
<1>3. \A i \in DOMAIN ledger : i \in DOMAIN ledger'
  BY <1>1
<1>4. \A i \in DOMAIN rows : Len(ledger) + i \in DOMAIN ledger'
  BY <1>1
<1>5. \A p, r : r \in RowsOf(p)' <=> \E i \in DOMAIN ledger' : ledger'[i].order = p /\ r = ledger'[i]
  BY DEF RowsOf
<1>6. \A p, r : r \in RowsOf(p) <=> \E i \in DOMAIN ledger : ledger[i].order = p /\ r = ledger[i]
  BY DEF RowsOf
<1>7. \A p, r : r \in RowsOf(p)' <=>
         r \in RowsOf(p) \/ (p = o /\ \E i \in DOMAIN rows : r = rows[i])
  <2> SUFFICES ASSUME NEW p, NEW r
               PROVE  r \in RowsOf(p)' <=>
                        r \in RowsOf(p) \/ (p = o /\ \E i \in DOMAIN rows : r = rows[i])
    OBVIOUS
  <2>1. ASSUME r \in RowsOf(p)' PROVE r \in RowsOf(p) \/ (p = o /\ \E i \in DOMAIN rows : r = rows[i])
    <3>1. PICK i \in DOMAIN ledger' : ledger'[i].order = p /\ r = ledger'[i]
      BY <1>5, <2>1
    <3>2. CASE i \in DOMAIN ledger
      BY <1>1, <1>6, <3>1, <3>2
    <3>3. CASE i - Len(ledger) \in DOMAIN rows /\ i = Len(ledger) + (i - Len(ledger))
      BY <1>1, <3>1, <3>3
    <3> QED
      BY <1>2, <3>2, <3>3
  <2>2. ASSUME r \in RowsOf(p) PROVE r \in RowsOf(p)'
    BY <1>1, <1>3, <1>5, <1>6, <2>2
  <2>3. ASSUME p = o, NEW i \in DOMAIN rows, r = rows[i] PROVE r \in RowsOf(p)'
    BY <1>1, <1>4, <1>5, <2>3
  <2> QED
    BY <2>1, <2>2, <2>3
<1>8. RowsOf(o)' = RowsOf(o) \cup {rows[i] : i \in DOMAIN rows}
  BY <1>7
<1>9. \A p : p # o => RowsOf(p)' = RowsOf(p)
  BY <1>7
<1> QED
  BY <1>1, <1>8, <1>9

\* What stood before a row stands, and the new rows start at the balance.
LEMMA BeforeAppended ==
  ASSUME ledger \in Seq(Row), LedgerReplays, NEW rows \in Seq(Row), ledger' = ledger \o rows
  PROVE  /\ \A i \in DOMAIN ledger : Before(i)' = Before(i)
         /\ \A i \in DOMAIN rows, n \in Nat :
              n = Len(ledger) + i => Before(n)' = Start(rows, due, i)
<1>1. /\ DOMAIN ledger = 1..Len(ledger) /\ Len(ledger) \in Nat
      /\ DOMAIN rows = 1..Len(rows) /\ Len(rows) \in Nat
      /\ \A i \in DOMAIN ledger : ledger'[i] = ledger[i]
      /\ \A i \in DOMAIN rows : ledger'[Len(ledger) + i] = rows[i]
  OBVIOUS
<1>2. due = IF Len(ledger) = 0 THEN 0 ELSE ledger[Len(ledger)].after
  BY <1>1 DEF LedgerReplays
<1>3. ASSUME NEW i \in DOMAIN ledger PROVE Before(i)' = Before(i)
  <2>1. i = 1 \/ i - 1 \in DOMAIN ledger
    BY <1>1
  <2> QED
    BY <1>1, <2>1 DEF Before
<1>4. ASSUME NEW i \in DOMAIN rows, NEW n \in Nat, n = Len(ledger) + i
      PROVE  Before(n)' = Start(rows, due, i)
  <2>1. CASE i = 1 /\ Len(ledger) = 0
    BY <1>1, <1>2, <1>4, <2>1 DEF Before, Start
  <2>2. CASE i = 1 /\ Len(ledger) # 0
    <3>1. Len(ledger) \in DOMAIN ledger /\ n - 1 = Len(ledger) /\ n # 1
      BY <1>1, <1>4, <2>2
    <3> QED
      BY <1>1, <1>2, <2>2, <3>1 DEF Before, Start
  <2>3. CASE i # 1
    <3>1. i - 1 \in DOMAIN rows /\ n # 1 /\ n - 1 = Len(ledger) + (i - 1)
      BY <1>1, <1>4, <2>3
    <3> QED
      BY <1>1, <2>3, <3>1 DEF Before, Start
  <2> QED
    BY <2>1, <2>2, <2>3
<1> QED
  BY <1>3, <1>4

--------------------------------------------------------------------------------
(* The three kinds of commit. Commits(t, e) is what they share: e is the    *)
(* effect of transaction t, whose read of its order is current.             *)

Commits(t, e) ==
  /\ t \in Open /\ Sound(e, t.seen.due)
  /\ t.seen.order = order[t.order] /\ t.seen.rows = RowsOf(t.order)
  /\ e.rows # <<>> => t.seen.due = due
  /\ \A i \in DOMAIN e.rows : \A r \in RowsOf(t.order) : r.type # e.rows[i].type
  /\ order' = [order EXCEPT ![t.order] = e.order]
  /\ ledger' = ledger \o e.rows
  /\ revenue' = revenue \cup e.revenue
  /\ UNCHANGED sale
  /\ Regular(order[t.order]) => Regular(e.order)
  /\ \A r \in e.revenue : r.order = t.order

\* What a commit writes about its own order says nothing of another.
Own(t, e) ==
  /\ \A i \in DOMAIN e.rows : e.rows[i].order = t.order
  /\ \A r \in e.revenue : r.order = t.order

LEMMA OthersStand ==
  ASSUME BookInv, NEW t, NEW e, Commits(t, e), Own(t, e), NEW o \in Order, o # t.order
  PROVE  /\ order'[o] = order[o] /\ RowsOf(o)' = RowsOf(o)
         /\ DecisionFits(o)' /\ RevenueFits(o)' /\ StatusFits(o)'
<1>1. e.rows \in Seq(Row) /\ ledger \in Seq(Row)
  BY DEF Commits, Sound, BookInv, IInv, TypeOK
<1>2. order'[o] = order[o] /\ sale' = sale
  BY DEF Commits, BookInv, IInv, TypeOK
<1>3. RowsOf(o)' = RowsOf(o)
  <2>1. ledger' = ledger \o e.rows /\ \A i \in DOMAIN e.rows : e.rows[i].order = t.order
    BY DEF Commits, Own
  <2>2. \A p : p # t.order => RowsOf(p)' = RowsOf(p)
    BY <1>1, <2>1, RowsAppended, ZenonT(40)
  <2> QED
    BY <2>2
<1>4. \A type, n : RevenueRow(o, type, n) \in revenue' <=> RevenueRow(o, type, n) \in revenue
  BY DEF Commits, Own, RevenueRow
<1>5. DecisionFits(o) /\ RevenueFits(o) /\ StatusFits(o)
  BY DEF BookInv, OrdersFit
<1>6. DecisionFits(o)' /\ StatusFits(o)'
  BY <1>2, <1>3, <1>5 DEF DecisionFits, StatusFits, Reversed
<1>7. RevenueFits(o)'
  BY <1>2, <1>3, <1>4, <1>5 DEF RevenueFits, Reversed
<1> QED
  BY <1>2, <1>3, <1>6, <1>7

\* The (order, type) index keeps the new rows apart from the old.
LEMMA RowsStayApart ==
  ASSUME BookInv, NEW t, NEW e, Commits(t, e), Own(t, e),
         \A i, j \in DOMAIN e.rows : e.rows[i].type = e.rows[j].type => i = j
  PROVE  OneRowEach'
<1>1. e.rows \in Seq(Row) /\ ledger \in Seq(Row) /\ ledger' = ledger \o e.rows
  BY DEF Commits, Sound, BookInv, IInv, TypeOK
<1>2. /\ DOMAIN ledger = 1..Len(ledger) /\ Len(ledger) \in Nat
      /\ DOMAIN e.rows = 1..Len(e.rows) /\ Len(e.rows) \in Nat
      /\ DOMAIN ledger' = 1..(Len(ledger) + Len(e.rows))
      /\ \A i \in DOMAIN ledger : ledger'[i] = ledger[i]
      /\ \A i \in DOMAIN e.rows : ledger'[Len(ledger) + i] = e.rows[i]
  BY <1>1, RowsAppended DEF Own
<1>3. ASSUME NEW i \in DOMAIN ledger, NEW j \in DOMAIN e.rows, ledger[i].order = t.order
      PROVE  ledger[i].type # e.rows[j].type
  <2>1. ledger[i] \in RowsOf(t.order)
    BY <1>3 DEF RowsOf
  <2> QED
    BY <2>1 DEF Commits
<1> SUFFICES ASSUME NEW i \in DOMAIN ledger', NEW j \in DOMAIN ledger',
                    ledger'[i].order = ledger'[j].order, ledger'[i].type = ledger'[j].type
             PROVE  i = j
  BY DEF OneRowEach
<1>4. \A k \in DOMAIN ledger' : k \in DOMAIN ledger \/ k - Len(ledger) \in DOMAIN e.rows
  BY <1>2
<1>5. \A k \in DOMAIN ledger' : k - Len(ledger) \in DOMAIN e.rows => ledger'[k] = e.rows[k - Len(ledger)]
  <2> SUFFICES ASSUME NEW k \in DOMAIN ledger', k - Len(ledger) \in DOMAIN e.rows
               PROVE  ledger'[k] = e.rows[k - Len(ledger)]
    OBVIOUS
  <2>1. k = Len(ledger) + (k - Len(ledger))
    BY <1>2
  <2> QED
    BY <1>2, <2>1
<1>6. CASE i \in DOMAIN ledger /\ j \in DOMAIN ledger
  BY <1>2, <1>6 DEF BookInv, OneRowEach
<1>7. CASE i \in DOMAIN ledger /\ j - Len(ledger) \in DOMAIN e.rows
  BY <1>2, <1>3, <1>5, <1>7 DEF Own
<1>8. CASE j \in DOMAIN ledger /\ i - Len(ledger) \in DOMAIN e.rows
  BY <1>2, <1>3, <1>5, <1>8 DEF Own
<1>9. CASE i - Len(ledger) \in DOMAIN e.rows /\ j - Len(ledger) \in DOMAIN e.rows
  <2>1. i - Len(ledger) = j - Len(ledger)
    BY <1>5, <1>9
  <2> QED
    BY <1>2, <2>1
<1> QED
  BY <1>4, <1>6, <1>7, <1>8, <1>9

\* Settlements of old are judged by the same decision on the same balance.
LEMMA SettlementsStand ==
  ASSUME BookInv, NEW t, NEW e, Commits(t, e), Own(t, e),
         RowsOf(t.order) # {} => e.order.commission = order[t.order].commission,
         \A i \in DOMAIN e.rows : e.rows[i].type = "SETTLEMENT" =>
            /\ e.rows[i].amount <= Start(e.rows, due, i)
            /\ e.order.commission.model = "V2" =>
                 sale[t.order].control = "TFTW" /\ Start(e.rows, due, i) >= Threshold
  PROVE  SettlementIsEarned'
<1>1. e.rows \in Seq(Row) /\ ledger \in Seq(Row) /\ ledger' = ledger \o e.rows
  BY DEF Commits, Sound, BookInv, IInv, TypeOK
<1>2. /\ DOMAIN ledger = 1..Len(ledger) /\ Len(ledger) \in Nat
      /\ DOMAIN e.rows = 1..Len(e.rows) /\ Len(e.rows) \in Nat
      /\ DOMAIN ledger' = 1..(Len(ledger) + Len(e.rows))
      /\ \A i \in DOMAIN ledger : ledger'[i] = ledger[i]
      /\ \A i \in DOMAIN e.rows : ledger'[Len(ledger) + i] = e.rows[i]
  BY <1>1, RowsAppended DEF Own
<1>3. /\ \A i \in DOMAIN ledger : Before(i)' = Before(i)
      /\ \A i \in DOMAIN e.rows, n \in Nat :
           n = Len(ledger) + i => Before(n)' = Start(e.rows, due, i)
  BY <1>1, BeforeAppended DEF BookInv, IInv
<1>4. /\ sale' = sale /\ order' = [order EXCEPT ![t.order] = e.order]
      /\ order \in [Order -> OrderDoc] /\ t.order \in Order
  BY DEF Commits, BookInv, IInv, TypeOK, Open
<1> SUFFICES ASSUME NEW i \in DOMAIN ledger', ledger'[i].type = "SETTLEMENT"
             PROVE  /\ ledger'[i].amount <= Before(i)'
                    /\ order'[ledger'[i].order].commission.model = "V2" =>
                         /\ sale'[ledger'[i].order].control = "TFTW"
                         /\ Before(i)' >= Threshold
  BY DEF SettlementIsEarned
<1>5. CASE i \in DOMAIN ledger
  <2>1. ledger'[i] = ledger[i] /\ Before(i)' = Before(i)
    BY <1>2, <1>3, <1>5
  <2>2. ledger[i].order \in Order
    <3>1. ledger[i] \in Row
      BY <1>1, <1>5
    <3> QED
      BY <3>1 DEF Row
  <2>3. order'[ledger[i].order].commission = order[ledger[i].order].commission
    <3>1. CASE ledger[i].order # t.order
      BY <1>4, <2>2, <3>1
    <3>2. CASE ledger[i].order = t.order
      <4>1. RowsOf(t.order) # {}
        BY <1>5, <3>2 DEF RowsOf
      <4> QED
        BY <1>4, <3>2, <4>1
    <3> QED
      BY <3>1, <3>2
  <2> QED
    BY <1>4, <1>5, <2>1, <2>3 DEF BookInv, SettlementIsEarned
<1>6. CASE i \notin DOMAIN ledger
  <2> DEFINE k == i - Len(ledger)
  <2>1. k \in DOMAIN e.rows /\ i = Len(ledger) + k /\ i \in Nat
    BY <1>2, <1>6
  <2> HIDE DEF k
  <2>2. ledger'[i] = e.rows[k] /\ Before(i)' = Start(e.rows, due, k)
    BY <1>2, <1>3, <2>1
  <2>3. e.rows[k].order = t.order
    BY <2>1 DEF Own
  <2>4. order'[t.order] = e.order
    BY <1>4
  <2> QED
    BY <1>4, <2>1, <2>2, <2>3, <2>4
<1> QED
  BY <1>5, <1>6

\* A decision: the order had none, and no rows.
LEMMA ApplyCommits ==
  ASSUME BookInv, NEW t, NEW e, Commits(t, e), Applies(t, e)
  PROVE  OneRowEach' /\ SettlementIsEarned' /\ OrdersFit'
<1> DEFINE o == t.order
<1>1. /\ o \in Order /\ t.seen.order = order[o] /\ t.seen.rows = RowsOf(o)
      /\ order[o] \in OrderDoc /\ order'[o] = e.order
      /\ e.rows \in Seq(Row) /\ ledger \in Seq(Row)
      /\ sale' = sale /\ t.seen.due \in Int
      /\ sale[o] \in Sale /\ revenue \in SUBSET Revenue
  BY DEF Commits, Sound, Open, Snapshot, BookInv, IInv, TypeOK
<1>2. DecisionFits(o) /\ RevenueFits(o) /\ StatusFits(o)
  BY <1>1 DEF BookInv, OrdersFit
<1>3. order[o].commission = NoDecision /\ RowsOf(o) = {}
  <2> DEFINE c == order[o].commission
  <2>1. DecisionRows(RowsOf(o)) = {}
    BY <1>1 DEF Applies
  <2>2. \A r \in RowsOf(o) : r.type \notin {"ACCRUAL", "SETTLEMENT"}
    BY <2>1 DEF DecisionRows
  <2>3. CASE c # NoDecision \/ RowsOf(o) # {}
    <3>1. /\ Accrues(c) \/ (c.accrued = 0 /\ c.settled > 0)
          /\ Accrues(c) => \E r \in RowsOf(o) : r.type = "ACCRUAL"
          /\ c.settled > 0 => \E r \in RowsOf(o) : r.type = "SETTLEMENT"
      BY <1>2, <2>3 DEF DecisionFits
    <3> QED
      BY <2>2, <3>1
  <2> QED
    BY <2>3
<1>4. PICK out \in Outcome :
        /\ Decided(out, o, t.seen.due)
        /\ e.rows = LedgerRows(o, out)
        /\ e.revenue = RevenueRows(o, out, sale[o].booked)
        /\ e.order.commission = out
  BY <1>1, <1>3 DEF Applies
<1> DEFINE rows == e.rows
<1>5. /\ rows # <<>>
      /\ \A i \in DOMAIN rows :
           /\ rows[i].order = o
           /\ \/ rows[i].type = "ACCRUAL" /\ Accrues(out) /\ rows[i].amount = out.accrued
              \/ rows[i].type = "SETTLEMENT" /\ out.settled > 0 /\ rows[i].amount = out.settled
           /\ rows[i].type = "SETTLEMENT" => Start(rows, t.seen.due, i) = t.seen.due + out.accrued
      /\ \A i, j \in DOMAIN rows : rows[i].type = rows[j].type => i = j
      /\ Accrues(out) => \E i \in DOMAIN rows : rows[i].type = "ACCRUAL"
      /\ out.settled > 0 => \E i \in DOMAIN rows : rows[i].type = "SETTLEMENT"
  <2> DEFINE ls == LedgerRows(o, out)
  <2>1. /\ DOMAIN ls = 1..Len(ls) /\ Len(ls) \in {1, 2}
        /\ \A i \in DOMAIN ls :
             /\ ls[i].order = o
             /\ \/ ls[i].type = "ACCRUAL" /\ Accrues(out) /\ ls[i].amount = out.accrued
                \/ ls[i].type = "SETTLEMENT" /\ out.settled > 0 /\ ls[i].amount = out.settled
             /\ ls[i].type = "SETTLEMENT" => Start(ls, t.seen.due, i) = t.seen.due + out.accrued
        /\ \A i, j \in DOMAIN ls : ls[i].type = ls[j].type => i = j
        /\ Accrues(out) => \E i \in DOMAIN ls : ls[i].type = "ACCRUAL"
        /\ out.settled > 0 => \E i \in DOMAIN ls : ls[i].type = "SETTLEMENT"
    BY <1>1, <1>4, RowsOfDecision
  <2>2. ls = rows
    BY <1>4
  <2> HIDE DEF ls, rows
  <2>3. rows # <<>>
    BY <2>1, <2>2
  <2> QED
    BY <2>1, <2>2, <2>3
<1>6. t.seen.due = due
  BY <1>5 DEF Commits
<1>7. out.accrued \in Nat /\ out.settled \in Nat
  BY DEF Outcome
<1>8. Own(t, e)
  <2>1. \A r \in e.revenue : r.order = o
    BY <1>4 DEF RevenueRows
  <2> QED
    BY <1>5, <2>1 DEF Own
<1>9. OneRowEach'
  BY <1>5, <1>8, RowsStayApart
<1>10. SettlementIsEarned'
  <2> SUFFICES ASSUME NEW i \in DOMAIN rows, rows[i].type = "SETTLEMENT"
               PROVE  /\ rows[i].amount <= Start(rows, due, i)
                      /\ e.order.commission.model = "V2" =>
                           sale[o].control = "TFTW" /\ Start(rows, due, i) >= Threshold
    BY <1>3, <1>8, SettlementsStand
  <2>1. /\ rows[i].amount = out.settled /\ out.settled > 0
        /\ Start(rows, due, i) = due + out.accrued
    BY <1>5, <1>6
  <2> HIDE DEF rows
  <2> QED
    BY <1>1, <1>4, <1>6, <1>7, <2>1 DEF Decided
<1>11. RowsOf(o)' = {rows[i] : i \in DOMAIN rows}
  <2>1. ledger' = ledger \o rows
    BY DEF Commits
  <2>2. \A i \in DOMAIN rows : rows[i].order = o
    BY <1>5
  <2>3. rows \in Seq(Row) /\ ledger \in Seq(Row)
    BY <1>1
  <2> HIDE DEF rows
  <2>4. RowsOf(o)' = RowsOf(o) \cup {rows[i] : i \in DOMAIN rows}
    BY <2>1, <2>2, <2>3, RowsAppended
  <2> QED
    BY <1>3, <2>4
<1>12. order'[o].commission = out
  BY <1>1, <1>4
<1>13. DecisionFits(o)'
  <2>1. out.merchantAmount + out.settled = sale[o].subtotal
    BY <1>4 DEF Decided
  <2>2. Accrues(out) \/ (out.accrued = 0 /\ out.settled > 0)
    BY <1>4 DEF Decided
  <2>3. \A r \in RowsOf(o)' :
           \/ r.type = "ACCRUAL" /\ Accrues(out) /\ r.amount = out.accrued
           \/ r.type = "SETTLEMENT" /\ out.settled > 0 /\ r.amount = out.settled
    BY <1>5, <1>11
  <2>4. /\ Accrues(out) => \E r \in RowsOf(o)' : r.type = "ACCRUAL"
        /\ out.settled > 0 => \E r \in RowsOf(o)' : r.type = "SETTLEMENT"
    BY <1>5, <1>11
  <2>5. sale'[o] = sale[o]
    BY <1>1
  <2> QED
    BY <1>4, <1>12, <2>1, <2>2, <2>3, <2>4, <2>5 DEF DecisionFits, Accrues
<1>14. ~Reversed(o)'
  BY <1>5, <1>11 DEF Reversed
<1>15. RevenueFits(o)'
  <2> SUFFICES ASSUME NEW type \in {"EARNED", "SETTLED"}, NEW n \in Int
               PROVE  RevenueRow(o, type, n) \in revenue' <=>
                        ~sale[o].booked /\ Figure(out, type) # 0 /\ n = Figure(out, type)
    BY <1>1, <1>12, <1>14 DEF RevenueFits
  <2>1. RevenueRow(o, type, n) \notin revenue
    BY <1>2, <1>3 DEF RevenueFits, NoDecision, Figure
  <2>2. RevenueRow(o, type, n) \in e.revenue <=>
          ~sale[o].booked /\ Figure(out, type) # 0 /\ n = Figure(out, type)
    <3>1. RevenueRow(o, type, n).type = type /\ RevenueRow(o, type, n).amount = n
      BY DEF RevenueRow
    <3>2. RevenueRow(o, type, n) = [order |-> o, type |-> "EARNED", amount |-> out.accrued]
            <=> type = "EARNED" /\ n = out.accrued
      BY DEF RevenueRow
    <3>3. RevenueRow(o, type, n) = [order |-> o, type |-> "SETTLED", amount |-> out.settled]
            <=> type = "SETTLED" /\ n = out.settled
      BY DEF RevenueRow
    <3>4. RevenueRow(o, type, n) \in RevenueRows(o, out, sale[o].booked) <=>
            /\ ~sale[o].booked /\ n > 0
            /\ \/ type = "EARNED" /\ n = out.accrued
               \/ type = "SETTLED" /\ n = out.settled
      BY <3>1, <3>2, <3>3 DEF RevenueRows
    <3> QED
      BY <1>4, <1>7, <3>4 DEF Figure
  <2>3. revenue' = revenue \cup e.revenue
    BY DEF Commits
  <2> QED
    BY <2>1, <2>2, <2>3
<1>16. StatusFits(o)'
  <2>1. Regular(e.order)
    BY <1>1, <1>2 DEF Commits, StatusFits
  <2>2. ~UndoneDoc(e.order)
    BY <1>1, <1>2 DEF Applies, StatusFits, Regular, UndoneDoc
  <2> QED
    BY <1>1, <2>1, <2>2 DEF StatusFits
<1>17. OrdersFit'
  BY <1>8, <1>13, <1>15, <1>16, OthersStand DEF OrdersFit
<1> QED
  BY <1>9, <1>10, <1>17

\* An order's rows sum up to its decision.
LEMMA AmountsFit ==
  ASSUME NEW o \in Order, DecisionFits(o)
  PROVE  /\ AmountOf(RowsOf(o), "ACCRUAL") = order[o].commission.accrued
         /\ AmountOf(RowsOf(o), "SETTLEMENT") = order[o].commission.settled
<1> DEFINE c == order[o].commission
           rows == RowsOf(o)
<1>1. CASE c = NoDecision /\ rows = {}
  BY <1>1 DEF AmountOf, NoDecision
<1>2. CASE ~(c = NoDecision /\ rows = {})
  <2>1. /\ c \in Outcome
        /\ Accrues(c) \/ (c.accrued = 0 /\ c.settled > 0)
        /\ Accrues(c) => \E r \in rows : r.type = "ACCRUAL"
        /\ c.settled > 0 => \E r \in rows : r.type = "SETTLEMENT"
        /\ \A r \in rows :
             \/ r.type = "ACCRUAL" /\ Accrues(c) /\ r.amount = c.accrued
             \/ r.type = "SETTLEMENT" /\ c.settled > 0 /\ r.amount = c.settled
             \/ r.type = "REVERSAL" /\ r.delta = c.settled - c.accrued
    BY <1>2 DEF DecisionFits
  <2>2. c.settled \in Nat /\ c.accrued \in Nat
    BY <2>1 DEF Outcome
  <2> HIDE DEF c, rows
  <2>3. AmountOf(rows, "ACCRUAL") = c.accrued
    <3>1. CASE \E r \in rows : r.type = "ACCRUAL"
      <4> DEFINE x == CHOOSE r \in rows : r.type = "ACCRUAL"
      <4>1. x \in rows /\ x.type = "ACCRUAL"
        BY <3>1
      <4>2. AmountOf(rows, "ACCRUAL") = x.amount
        BY <3>1 DEF AmountOf
      <4> HIDE DEF x
      <4> QED
        BY <2>1, <4>1, <4>2
    <3>2. CASE ~ \E r \in rows : r.type = "ACCRUAL"
      BY <2>1, <3>2 DEF AmountOf
    <3> QED
      BY <3>1, <3>2
  <2>4. AmountOf(rows, "SETTLEMENT") = c.settled
    <3>1. CASE \E r \in rows : r.type = "SETTLEMENT"
      <4> DEFINE x == CHOOSE r \in rows : r.type = "SETTLEMENT"
      <4>1. x \in rows /\ x.type = "SETTLEMENT"
        BY <3>1
      <4>2. AmountOf(rows, "SETTLEMENT") = x.amount
        BY <3>1 DEF AmountOf
      <4> HIDE DEF x
      <4> QED
        BY <2>1, <4>1, <4>2
    <3>2. CASE ~ \E r \in rows : r.type = "SETTLEMENT"
      BY <2>1, <2>2, <3>2 DEF AmountOf
    <3> QED
      BY <3>1, <3>2
  <2> QED
    BY <2>3, <2>4 DEF c, rows
<1> QED
  BY <1>1, <1>2

\* A reversal: the order had a decision, and no reversal yet.
LEMMA ReverseCommits ==
  ASSUME BookInv, NEW t, NEW e, Commits(t, e), Reverses(t, e)
  PROVE  OneRowEach' /\ SettlementIsEarned' /\ OrdersFit'
<1> DEFINE o == t.order
           c == order[o].commission
           row == ReversalRow(o, RowsOf(o), t.seen.due)
           undone == RevenueReversal(revenue, o, {"EARNED", "SETTLED"})
<1>1. /\ o \in Order /\ t.seen.order = order[o] /\ t.seen.rows = RowsOf(o)
      /\ order[o] \in OrderDoc /\ order'[o] = e.order
      /\ e.rows \in Seq(Row) /\ ledger \in Seq(Row)
      /\ sale' = sale /\ revenue \in SUBSET Revenue /\ e.revenue \in SUBSET Revenue
  BY DEF Commits, Sound, Open, Snapshot, BookInv, IInv, TypeOK
<1>2. DecisionFits(o) /\ RevenueFits(o) /\ StatusFits(o)
  BY <1>1 DEF BookInv, OrdersFit
<1>3. DecisionRows(RowsOf(o)) # {} /\ e.rows = <<row>> /\ e.order.commission = c
  BY <1>1 DEF Reverses
<1>4. RowsOf(o) # {}
  BY <1>3 DEF DecisionRows
<1>5. /\ row.order = o /\ row.type = "REVERSAL"
      /\ row.delta = c.settled - c.accrued
  BY <1>1, <1>2, AmountsFit DEF ReversalRow, ReversalDelta
<1> HIDE DEF row
<1>6. DOMAIN e.rows = {1} /\ e.rows[1] = row
  BY <1>3
<1>7. ~Reversed(o)
  <2>1. \A r \in RowsOf(o) : r.type # e.rows[1].type
    BY <1>6 DEF Commits
  <2> QED
    BY <1>5, <1>6, <2>1 DEF Reversed
<1>8. Own(t, e)
  BY <1>5, <1>6 DEF Own, Commits
<1>9. OneRowEach'
  BY <1>6, <1>8, RowsStayApart
<1>10. SettlementIsEarned'
  BY <1>3, <1>5, <1>6, <1>8, SettlementsStand
<1>11. RowsOf(o)' = RowsOf(o) \cup {row}
  <2> DEFINE rows == e.rows
  <2>1. ledger' = ledger \o rows
    BY DEF Commits
  <2>2. \A i \in DOMAIN rows : rows[i].order = o
    BY <1>5, <1>6
  <2>3. rows \in Seq(Row) /\ ledger \in Seq(Row)
    BY <1>1
  <2>4. {rows[i] : i \in DOMAIN rows} = {row}
    BY <1>6
  <2> HIDE DEF rows
  <2>5. RowsOf(o)' = RowsOf(o) \cup {rows[i] : i \in DOMAIN rows}
    BY <2>1, <2>2, <2>3, RowsAppended
  <2> QED
    BY <2>4, <2>5
<1>12. order'[o].commission = c /\ sale'[o] = sale[o]
  BY <1>1, <1>3
<1>13. DecisionFits(o)'
  <2> HIDE DEF o, c
  <2>1. /\ c \in Outcome
        /\ c.merchantAmount + c.settled = sale[o].subtotal
        /\ Accrues(c) \/ (c.accrued = 0 /\ c.settled > 0)
        /\ Accrues(c) => \E r \in RowsOf(o) : r.type = "ACCRUAL"
        /\ c.settled > 0 => \E r \in RowsOf(o) : r.type = "SETTLEMENT"
        /\ \A r \in RowsOf(o) :
             \/ r.type = "ACCRUAL" /\ Accrues(c) /\ r.amount = c.accrued
             \/ r.type = "SETTLEMENT" /\ c.settled > 0 /\ r.amount = c.settled
             \/ r.type = "REVERSAL" /\ r.delta = c.settled - c.accrued
    BY <1>2, <1>4 DEF DecisionFits, c
  <2>2. \A r \in RowsOf(o)' :
             \/ r.type = "ACCRUAL" /\ Accrues(c) /\ r.amount = c.accrued
             \/ r.type = "SETTLEMENT" /\ c.settled > 0 /\ r.amount = c.settled
             \/ r.type = "REVERSAL" /\ r.delta = c.settled - c.accrued
    BY <1>5, <1>11, <2>1
  <2>3. /\ Accrues(c) => \E r \in RowsOf(o)' : r.type = "ACCRUAL"
        /\ c.settled > 0 => \E r \in RowsOf(o)' : r.type = "SETTLEMENT"
    BY <1>11, <2>1
  <2> QED
    BY <1>12, <2>1, <2>2, <2>3 DEF DecisionFits, Accrues, o
<1>14. Reversed(o)'
  BY <1>5, <1>11 DEF Reversed
<1>15. RevenueFits(o)'
  <2> SUFFICES ASSUME NEW type \in {"EARNED", "SETTLED"}, NEW n \in Int
               PROVE  RevenueRow(o, type, n) \in revenue' <=>
                        /\ ~sale[o].booked /\ Figure(c, type) # 0
                        /\ n = Figure(c, type) \/ n = -Figure(c, type)
    BY <1>12, <1>14 DEF RevenueFits
  <2>1. c \in Outcome
    BY <1>2, <1>4 DEF DecisionFits
  <2>2. Figure(c, type) \in Nat
    BY <2>1 DEF Outcome, Figure
  <2>3. /\ RevenueRow(o, type, n) \in revenue <=>
             ~sale[o].booked /\ Figure(c, type) # 0 /\ n = Figure(c, type)
        /\ RevenueRow(o, type, -n) \in revenue <=>
             ~sale[o].booked /\ Figure(c, type) # 0 /\ -n = Figure(c, type)
    BY <1>2, <1>7 DEF RevenueFits
  <2>4. RevenueRow(o, type, n) \in e.revenue <=> RevenueRow(o, type, n) \in undone
    BY <1>1 DEF Reverses, NetOnly, RevenueRow
  <2>5. RevenueRow(o, type, n) \in undone <=> RevenueRow(o, type, -n) \in revenue /\ -n > 0
    <3>1. Negated(RevenueRow(o, type, -n)) = RevenueRow(o, type, n)
      BY DEF Negated, RevenueRow
    <3>2. ASSUME RevenueRow(o, type, n) \in undone
          PROVE  RevenueRow(o, type, -n) \in revenue /\ -n > 0
      <4>1. PICK s \in revenue : s.order = o /\ s.amount > 0 /\ RevenueRow(o, type, n) = Negated(s)
        BY <3>2 DEF RevenueReversal
      <4>2. s \in Revenue
        BY <1>1
      <4>3. Negated(s).type = s.type /\ Negated(s).amount = -s.amount /\ s.amount \in Int
        BY <4>2 DEF Negated, Revenue
      <4>4. s.type = type /\ s.amount = -n
        BY <4>1, <4>3 DEF RevenueRow
      <4>5. s = RevenueRow(o, type, -n)
        BY <4>1, <4>2, <4>4 DEF Revenue, RevenueRow
      <4> QED
        BY <4>1, <4>4, <4>5
    <3>3. ASSUME RevenueRow(o, type, -n) \in revenue, -n > 0
          PROVE  RevenueRow(o, type, n) \in undone
      <4>1. /\ RevenueRow(o, type, -n).order = o /\ RevenueRow(o, type, -n).type = type
            /\ RevenueRow(o, type, -n).amount = -n
        BY DEF RevenueRow
      <4> QED
        BY <3>1, <3>3, <4>1 DEF RevenueReversal
    <3> QED
      BY <3>2, <3>3
  <2>6. revenue' = revenue \cup e.revenue
    BY DEF Commits
  <2> HIDE DEF c, o, undone
  <2> QED
    BY <2>2, <2>3, <2>4, <2>5, <2>6
<1>16. StatusFits(o)'
  <2>1. Regular(e.order)
    BY <1>1, <1>2 DEF Commits, StatusFits
  <2> QED
    BY <1>1, <1>14, <2>1 DEF StatusFits
<1>17. OrdersFit'
  BY <1>8, <1>13, <1>15, <1>16, OthersStand DEF OrdersFit
<1> QED
  BY <1>9, <1>10, <1>17

\* The ledger and what was booked for the decision stand.
LEMMA StandCommits ==
  ASSUME BookInv, NEW t, NEW e, Commits(t, e), Stands(t, e)
  PROVE  OneRowEach' /\ SettlementIsEarned' /\ OrdersFit'
<1> DEFINE o == t.order
           c == order[o].commission
<1>1. /\ o \in Order /\ t.seen.order = order[o] /\ t.seen.rows = RowsOf(o)
      /\ order'[o] = e.order /\ e.rows = <<>> /\ e.order.commission = c
      /\ ledger \in Seq(Row) /\ sale' = sale
      /\ revenue' = revenue \cup e.revenue
      /\ order' = [order EXCEPT ![o] = e.order] /\ order \in [Order -> OrderDoc]
  BY DEF Commits, Sound, Open, Snapshot, Stands, BookInv, IInv, TypeOK
<1>2. DecisionFits(o) /\ RevenueFits(o) /\ StatusFits(o)
  BY <1>1 DEF BookInv, OrdersFit
<1>3. ledger' = ledger
  BY <1>1 DEF Commits
<1>4. \A p : RowsOf(p)' = RowsOf(p)
  BY <1>3 DEF RowsOf
<1>5. OneRowEach'
  BY <1>3 DEF BookInv, OneRowEach
<1>6. \A p \in Order : order'[p].commission = order[p].commission
  BY <1>1
<1>7. SettlementIsEarned'
  <2>1. \A i \in DOMAIN ledger : ledger[i].order \in Order
    <3>1. \A i \in DOMAIN ledger : ledger[i] \in Row
      BY <1>1
    <3> QED
      BY <3>1 DEF Row
  <2> QED
    BY <1>1, <1>3, <1>6, <2>1 DEF BookInv, SettlementIsEarned, Before
<1>8. \A p, n, type : type \in {"EARNED", "SETTLED"} =>
         (RevenueRow(p, type, n) \in revenue' <=> RevenueRow(p, type, n) \in revenue)
  BY <1>1 DEF Stands, NetOnly, RevenueRow
<1>9. ASSUME NEW p \in Order PROVE DecisionFits(p)' /\ RevenueFits(p)'
  <2>1. DecisionFits(p) /\ RevenueFits(p)
    BY DEF BookInv, OrdersFit
  <2>2. DecisionFits(p)'
    BY <1>1, <1>4, <1>6, <2>1 DEF DecisionFits
  <2>3. RevenueFits(p)'
    BY <1>1, <1>4, <1>6, <1>8, <2>1 DEF RevenueFits, Reversed
  <2> QED
    BY <2>2, <2>3
<1>10. StatusFits(o)'
  <2>1. Regular(e.order)
    BY <1>1, <1>2 DEF Commits, StatusFits
  <2>2. DecisionRows(RowsOf(o)) = {} => c = NoDecision
    <3>1. CASE c = NoDecision
      BY <3>1
    <3>2. CASE c # NoDecision
      <4>1. \E r \in RowsOf(o) : r.type \in {"ACCRUAL", "SETTLEMENT"}
        BY <1>2, <3>2 DEF DecisionFits
      <4> QED
        BY <4>1 DEF DecisionRows
    <3> QED
      BY <3>1, <3>2
  <2>3. UndoneDoc(e.order) => UndoneDoc(order[o]) \/ DecisionRows(RowsOf(o)) = {}
    BY <1>1 DEF Stands
  <2> QED
    BY <1>1, <1>2, <1>4, <2>1, <2>2, <2>3 DEF StatusFits, Reversed
<1>11. ASSUME NEW p \in Order, p # o PROVE StatusFits(p)'
  BY <1>1, <1>4, <1>11 DEF BookInv, OrdersFit, StatusFits, Reversed
<1> QED
  BY <1>5, <1>7, <1>9, <1>10, <1>11 DEF OrdersFit

--------------------------------------------------------------------------------
(* Every commit keeps the invariant of the book.                            *)

OwnRevenue(t, e) == \A r \in e.revenue : r.order = t.order

LEMMA ReversalIsOwn ==
  ASSUME revenue \in SUBSET Revenue, NEW o, NEW types
  PROVE  \A r \in RevenueReversal(revenue, o, types) : r.order = o
<1> SUFFICES ASSUME NEW s \in revenue, s.order = o PROVE Negated(s).order = o
  BY DEF RevenueReversal
<1> QED
  BY DEF Negated, Revenue

LEMMA ServiceIsOwn ==
  ASSUME revenue \in SUBSET Revenue, NEW t, NEW doc
  PROVE  /\ OwnRevenue(t, NoMovement(t, doc))
         /\ OwnRevenue(t, ApplyForOrder(t, doc))
         /\ OwnRevenue(t, ReverseForOrder(t, doc))
<1>1. OwnRevenue(t, NoMovement(t, doc))
  BY DEF OwnRevenue, NoMovement
<1>2. OwnRevenue(t, ApplyForOrder(t, doc))
  <2>1. \A out, b : \A r \in RevenueRows(t.order, out, b) : r.order = t.order
    BY DEF RevenueRows
  <2>2. \/ ApplyForOrder(t, doc) = NoMovement(t, doc)
        \/ \E out, b : ApplyForOrder(t, doc).revenue = RevenueRows(t.order, out, b)
    BY DEF ApplyForOrder
  <2> QED
    BY <1>1, <2>1, <2>2 DEF OwnRevenue
<1>3. OwnRevenue(t, ReverseForOrder(t, doc))
  <2>1. \/ ReverseForOrder(t, doc) = NoMovement(t, doc)
        \/ ReverseForOrder(t, doc).revenue
             = RevenueReversal(revenue, t.order, {"EARNED", "SETTLED"})
    BY DEF ReverseForOrder
  <2> QED
    BY <1>1, <2>1, ReversalIsOwn DEF OwnRevenue
<1> QED
  BY <1>1, <1>2, <1>3

LEMMA RequestIsOwn ==
  ASSUME revenue \in SUBSET Revenue, NEW t, NEW e, OwnRevenue(t, e)
  PROVE  OwnRevenue(t, WithRefundRequest(t, e))
<1>1. WithRefundRequest(t, e).revenue = e.revenue \cup RevenueReversal(revenue, t.order, {"NET"})
  BY DEF WithRefundRequest
<1> QED
  BY <1>1, ReversalIsOwn DEF OwnRevenue

LEMMA EffectIsOwn ==
  ASSUME NEW t \in Open, revenue \in SUBSET Revenue
  PROVE  OwnRevenue(t, Effect(t))
<1>1. t.op \in Op
  BY DEF Open
<1>2. t.op = "confirm" => \E doc : Effect(t) = ApplyForOrder(t, doc)
  BY DEF Effect
<1>3. t.op = "deliver" => \E doc : Effect(t) = NoMovement(t, doc)
  BY DEF Effect
<1>4. t.op = "fail" => \E doc : Effect(t) = ReverseForOrder(t, doc) \/ Effect(t) = NoMovement(t, doc)
  BY DEF Effect
<1>5. t.op = "resolve" => \E doc : Effect(t) = ReverseForOrder(t, doc) \/ Effect(t) = NoMovement(t, doc)
  BY DEF Effect
<1>6. t.op = "refund" => \E doc : Effect(t) = WithRefundRequest(t, ReverseForOrder(t, doc))
  BY DEF Effect
<1>7. t.op = "refundOffline" => \E doc : Effect(t) = ReverseForOrder(t, doc)
  BY DEF Effect
<1>8. t.op = "cancel" => \E doc : Effect(t) = WithRefundRequest(t, NoMovement(t, doc))
  BY DEF Effect
<1> QED
  BY <1>1, <1>2, <1>3, <1>4, <1>5, <1>6, <1>7, <1>8, ServiceIsOwn, RequestIsOwn DEF Op

\* The write-conflict check and the unique index make a commit a Commits step:
\* the order is always written, so its read is current; the balance is written
\* with the rows, so with rows its read is current too.
LEMMA CommitIsCurrent ==
  ASSUME BookInv, NEW w \in Worker, IsOpen(w), Claims(txn[w]), Commit(w)
  PROVE  Commits(txn[w], Effect(txn[w]))
<1> DEFINE t == txn[w]
           e == Effect(t)
<1>1. t \in Open
  BY DEF BookInv, IInv, TypeOK, IsOpen, Idle, Called
<1>2. Sound(e, t.seen.due)
  BY <1>1, EffectSound DEF BookInv, IInv, TypeOK
<1>3. StaysRegular(t, e.order)
  BY <1>1, EffectKind DEF BookInv, IInv, TypeOK
<1>4. OwnRevenue(t, e)
  BY <1>1, EffectIsOwn DEF BookInv, IInv, TypeOK
<1>5. /\ ~t.orderStale /\ ~(t.dueStale /\ e.rows # <<>>)
      /\ ~DuplicateKey(t)
      /\ order' = [order EXCEPT ![t.order] = e.order]
      /\ ledger' = ledger \o e.rows
      /\ revenue' = revenue \cup e.revenue
      /\ UNCHANGED sale
  BY DEF Commit, Conflict
<1>6. \A i \in DOMAIN e.rows : \A r \in RowsOf(t.order) : r.type # e.rows[i].type
  BY <1>5 DEF DuplicateKey
<1> HIDE DEF e
<1>7. t.seen.order = order[t.order] /\ t.seen.rows = RowsOf(t.order)
  BY <1>5 DEF BookInv, ReadsCurrent
<1>8. e.rows # <<>> => t.seen.due = due
  BY <1>5 DEF BookInv, IInv, SnapshotsCurrent
<1> HIDE DEF t
<1>9. Commits(t, e)
  BY <1>1, <1>2, <1>3, <1>4, <1>5, <1>6, <1>7, <1>8 DEF Commits, StaysRegular, OwnRevenue
<1> QED
  BY <1>9 DEF t, e

\* The rows an effect appends are of the transaction's order.
LEMMA RowsAreOwn ==
  ASSUME NEW t, NEW e, Commits(t, e),
         Applies(t, e) \/ Reverses(t, e) \/ Stands(t, e)
  PROVE  Own(t, e)
<1>1. ASSUME Applies(t, e) PROVE \A i \in DOMAIN e.rows : e.rows[i].order = t.order
  <2>1. PICK out : e.rows = LedgerRows(t.order, out)
    BY <1>1 DEF Applies
  <2>2. \A i \in DOMAIN LedgerRows(t.order, out) : LedgerRows(t.order, out)[i].order = t.order
    BY DEF LedgerRows
  <2> QED
    BY <2>1, <2>2
<1>2. ASSUME Reverses(t, e) PROVE \A i \in DOMAIN e.rows : e.rows[i].order = t.order
  <2>1. PICK row : e.rows = <<row>> /\ row.order = t.order
    BY <1>2 DEF Reverses, ReversalRow
  <2> QED
    BY <2>1
<1>3. ASSUME Stands(t, e) PROVE \A i \in DOMAIN e.rows : e.rows[i].order = t.order
  BY <1>3 DEF Stands
<1> QED
  BY <1>1, <1>2, <1>3 DEF Own, Commits

LEMMA CommitBook ==
  ASSUME BookInv, NEW w \in Worker, IsOpen(w), Claims(txn[w]), Commit(w)
  PROVE  BookInv'
<1> DEFINE t == txn[w]
           e == Effect(t)
<1>1. t \in Open
  BY DEF BookInv, IInv, TypeOK, IsOpen, Idle, Called
<1>2. Applies(t, e) \/ Reverses(t, e) \/ Stands(t, e)
  BY <1>1, EffectKind DEF BookInv, IInv, TypeOK
<1>3. Commits(t, e)
  BY CommitIsCurrent
<1>4. IInv'
  BY CommitStep DEF BookInv
<1>5. txn' = [v \in Worker |->
                IF v = w THEN Idle
                ELSE IF txn[v].phase = "open" THEN StaleAfter(v, t)
                ELSE txn[v]]
  BY DEF Commit
<1> HIDE DEF e
<1>6. ASSUME NEW v \in Worker, IsOpen(v)
      PROVE  /\ StaleAfter(v, t).seen = txn[v].seen
             /\ StaleAfter(v, t).order = txn[v].order
             /\ ~StaleAfter(v, t).orderStale => ~txn[v].orderStale /\ txn[v].order # t.order
             /\ txn[v].order \in Order
  <2>1. txn[v] \in Open
    BY <1>6 DEF BookInv, IInv, TypeOK, IsOpen, Idle, Called
  <2> QED
    BY <2>1 DEF StaleAfter, Open
<1> HIDE DEF t
<1>7. Own(t, e)
  BY <1>2, <1>3, RowsAreOwn
<1>8. OneRowEach' /\ SettlementIsEarned' /\ OrdersFit'
  BY <1>2, <1>3, ApplyCommits, ReverseCommits, StandCommits
<1>9. ReadsCurrent'
  <2> SUFFICES ASSUME NEW v \in Worker, IsOpen(v)', ~txn'[v].orderStale
               PROVE  /\ txn'[v].seen.order = order'[txn'[v].order]
                      /\ txn'[v].seen.rows = RowsOf(txn[v].order)'
    BY DEF ReadsCurrent
  <2>1. v # w /\ IsOpen(v) /\ txn'[v] = StaleAfter(v, t)
    BY <1>5 DEF IsOpen, Idle
  <2>2. /\ txn'[v].seen = txn[v].seen /\ txn'[v].order = txn[v].order
        /\ ~txn[v].orderStale /\ txn[v].order # t.order /\ txn[v].order \in Order
    BY <1>6, <2>1
  <2>3. PICK o \in Order : o = txn[v].order
    BY <2>2
  <2>4. order'[o] = order[o] /\ RowsOf(o)' = RowsOf(o)
    BY <1>3, <1>7, <2>2, <2>3, OthersStand
  <2>5. txn[v].seen.order = order[o] /\ txn[v].seen.rows = RowsOf(o)
    BY <2>1, <2>2, <2>3 DEF BookInv, ReadsCurrent
  <2>6. txn'[v].order = o
    BY <2>2, <2>3
  <2>7. txn'[v].seen.order = order'[txn'[v].order]
    BY <2>2, <2>4, <2>5, <2>6
  <2>8. txn'[v].seen.rows = RowsOf(txn[v].order)'
    <3>1. RowsOf(txn[v].order)' = RowsOf(o)'
      BY <2>6 DEF RowsOf
    <3> QED
      BY <2>2, <2>4, <2>5, <3>1
  <2> QED
    BY <2>7, <2>8
<1> QED
  BY <1>4, <1>8, <1>9 DEF BookInv

\* Begin and Retry: the snapshot is what the documents hold.
LEMMA OpeningReads ==
  ASSUME BookInv, NEW w \in Worker, txn[w].phase \in {"called", "open"},
         txn' = [txn EXCEPT ![w] = Opened(txn[w])],
         UNCHANGED <<sale, order, due, ledger, revenue, v2>>
  PROVE  BookInv'
<1>1. IInv'
  BY OpeningStep DEF BookInv
<1>2. txn \in [Worker -> {Idle} \cup Called \cup Open]
  BY DEF BookInv, IInv, TypeOK
<1>3. /\ Opened(txn[w]).order = txn[w].order
      /\ Opened(txn[w]).seen.order = order[txn[w].order]
      /\ Opened(txn[w]).seen.rows = RowsOf(txn[w].order)
  BY DEF Opened
<1>4. ASSUME NEW v \in Worker, IsOpen(v)'
      PROVE  \/ IsOpen(v) /\ txn'[v] = txn[v]
             \/ /\ txn'[v].seen.order = order[txn'[v].order]
                /\ txn'[v].seen.rows = RowsOf(txn'[v].order)
  <2>1. CASE v = w
    <3>1. txn'[v] = Opened(txn[w])
      BY <1>2, <2>1
    <3> QED
      BY <1>3, <3>1
  <2>2. CASE v # w
    BY <1>2, <1>4, <2>2 DEF IsOpen
  <2> QED
    BY <2>1, <2>2
<1> QED
  BY <1>1, <1>4, BookStands

\* Call and Refuse.
LEMMA ClosedReads ==
  ASSUME BookInv, NEW w \in Worker, NEW t \in {Idle} \cup Called,
         txn' = [txn EXCEPT ![w] = t],
         UNCHANGED <<sale, order, due, ledger, revenue, v2>>
  PROVE  BookInv'
<1>1. IInv'
  BY ClosedStep DEF BookInv, IInv, TypeOK
<1>2. txn \in [Worker -> {Idle} \cup Called \cup Open]
  BY DEF BookInv, IInv, TypeOK
<1>3. t.phase # "open"
  BY DEF Idle, Called
<1>4. ASSUME NEW v \in Worker, IsOpen(v)' PROVE IsOpen(v) /\ txn'[v] = txn[v]
  BY <1>2, <1>3, <1>4 DEF IsOpen
<1> QED
  BY <1>1, <1>4, BookStands

LEMMA NextBook == BookInv /\ [Next]_vars => BookInv'
<1> SUFFICES ASSUME BookInv, [Next]_vars PROVE BookInv'
  OBVIOUS
<1>1. IInv'
  BY NextIInv DEF BookInv
<1>2. CASE UNCHANGED vars
  BY <1>1, <1>2, BookStands DEF vars, IsOpen
<1>3. ASSUME NEW w \in Worker, Step(w) PROVE BookInv'
  <2>1. CASE Begin(w)
    BY <2>1, OpeningReads DEF Begin
  <2>2. CASE ConfirmPickup(w)
    BY <2>2, CommitBook DEF ConfirmPickup, Serves, IsOpen
  <2>3. CASE Deliver(w)
    BY <2>3, CommitBook DEF Deliver, Serves, IsOpen
  <2>4. CASE FailDelivery(w)
    BY <2>4, CommitBook DEF FailDelivery, Serves, IsOpen
  <2>5. CASE ResolveRecovery(w)
    BY <2>5, CommitBook DEF ResolveRecovery, Serves, IsOpen
  <2>6. CASE IssueRefund(w)
    BY <2>6, CommitBook DEF IssueRefund, Serves, IsOpen
  <2>7. CASE RecordOfflineRefund(w)
    BY <2>7, CommitBook DEF RecordOfflineRefund, Serves, IsOpen
  <2>8. CASE CancelPaid(w)
    BY <2>8, CommitBook DEF CancelPaid, Serves, IsOpen
  <2>9. CASE Retry(w)
    BY <2>9, OpeningReads DEF Retry
  <2>10. CASE Refuse(w)
    BY <2>10, ClosedReads DEF Refuse
  <2> QED
    BY <1>3, <2>1, <2>2, <2>3, <2>4, <2>5, <2>6, <2>7, <2>8, <2>9, <2>10 DEF Step
<1>4. ASSUME NEW w \in Worker, NEW o \in Order, NEW op \in Op, Call(w, o, op) PROVE BookInv'
  <2>1. PICK recovery \in Recoveries(op) :
          txn' = [txn EXCEPT ![w] = [phase |-> "called", op |-> op, order |-> o,
                                     recovery |-> recovery]]
    BY <1>4 DEF Call
  <2>2. [phase |-> "called", op |-> op, order |-> o, recovery |-> recovery] \in Called
    BY DEF Called, Recoveries, Recovery, Op
  <2> QED
    BY <1>4, <2>1, <2>2, ClosedReads DEF Call
<1>5. CASE CutoffReached
  BY <1>1, <1>5, BookStands DEF CutoffReached, IsOpen
<1> QED
  BY <1>2, <1>3, <1>4, <1>5 DEF Next

LEMMA BookInvariance == Spec => []BookInv
BY InitBook, NextBook, PTL DEF Spec

\* An order's frozen decision is the one its ledger rows were written for, and
\* it is there exactly when they are: of two confirmations of the same order,
\* of a confirmation and its own retry, only one writes.
THEOREM DecisionIsLedger == Spec => []DecisionMatchesLedger
<1>1. BookInv => DecisionMatchesLedger
  <2> SUFFICES ASSUME BookInv, NEW o \in Order
               PROVE  /\ (order[o].commission = NoDecision) <=> (DecisionRows(RowsOf(o)) = {})
                      /\ AmountOf(RowsOf(o), "ACCRUAL") = order[o].commission.accrued
                      /\ AmountOf(RowsOf(o), "SETTLEMENT") = order[o].commission.settled
                      /\ \A i, j \in DOMAIN ledger :
                           ledger[i].order = o /\ ledger[j].order = o
                             /\ ledger[i].type = ledger[j].type => i = j
                      /\ order[o].commission # NoDecision =>
                           order[o].commission.merchantAmount + order[o].commission.settled
                             = sale[o].subtotal
    BY DEF DecisionMatchesLedger
  <2>1. DecisionFits(o) /\ OneRowEach
    BY DEF BookInv, OrdersFit
  <2>2. (order[o].commission = NoDecision) <=> (DecisionRows(RowsOf(o)) = {})
    <3>1. CASE order[o].commission = NoDecision /\ RowsOf(o) = {}
      BY <3>1 DEF DecisionRows
    <3>2. CASE ~(order[o].commission = NoDecision /\ RowsOf(o) = {})
      <4>1. order[o].commission \in Outcome
        BY <2>1, <3>2 DEF DecisionFits
      <4>2. order[o].commission # NoDecision
        BY <4>1 DEF Outcome, NoDecision
      <4>3. \E r \in RowsOf(o) : r.type \in {"ACCRUAL", "SETTLEMENT"}
        BY <2>1, <3>2 DEF DecisionFits
      <4> QED
        BY <4>2, <4>3 DEF DecisionRows
    <3> QED
      BY <3>1, <3>2
  <2>3. order[o].commission # NoDecision =>
          order[o].commission.merchantAmount + order[o].commission.settled = sale[o].subtotal
    BY <2>1 DEF DecisionFits
  <2> QED
    BY <2>1, <2>2, <2>3, AmountsFit DEF OneRowEach
<1> QED
  BY <1>1, BookInvariance, PTL

\* A sale gives up part of its price only against a balance that really stood
\* there: never more than was owed and, under the new model, only on a sale
\* TFTW is paid for and from the threshold on.
THEOREM SettlementsAreEarned == Spec => []SettlementIsEarned
<1>1. BookInv => SettlementIsEarned
  BY DEF BookInv
<1> QED
  BY <1>1, BookInvariance, PTL

\* A refunded sale and a returned failed delivery leave no commission and no
\* platform revenue, whatever confirmed or refunded in between.
THEOREM UndoneOwesNothing == Spec => []UndoneSaleOwesNothing
<1>1. BookInv => UndoneSaleOwesNothing
  <2> SUFFICES ASSUME BookInv, NEW o \in Order, Undone(o)
               PROVE  /\ NetDelta(o) = 0
                      /\ \A r \in revenue : r.order = o /\ r.type # "NET" => Negated(r) \in revenue
    BY DEF UndoneSaleOwesNothing
  <2> DEFINE c == order[o].commission
  <2>1. /\ DecisionFits(o) /\ RevenueFits(o) /\ revenue \in SUBSET Revenue
        /\ c = NoDecision \/ Reversed(o)
    BY DEF BookInv, IInv, TypeOK, OrdersFit, StatusFits, Undone, UndoneDoc
  <2>2. c.accrued \in Nat /\ c.settled \in Nat
    BY <2>1 DEF DecisionFits, Outcome, NoDecision
  <2>3. NetDelta(o) = 0
    <3> DEFINE reversals == {r \in RowsOf(o) : r.type = "REVERSAL"}
    <3>1. NetDelta(o) = c.accrued - c.settled
            + (IF reversals = {} THEN 0 ELSE (CHOOSE r \in reversals : TRUE).delta)
      BY <2>1, AmountsFit DEF NetDelta
    <3>2. \A r \in reversals : r.delta = c.settled - c.accrued
      BY <2>1 DEF DecisionFits
    <3>3. CASE reversals = {}
      <4>1. c = NoDecision
        BY <2>1, <3>3 DEF Reversed
      <4> QED
        BY <3>1, <3>3, <4>1 DEF NoDecision
    <3>4. CASE reversals # {}
      <4>1. (CHOOSE r \in reversals : TRUE) \in reversals
        BY <3>4
      <4> HIDE DEF reversals, c
      <4> QED
        BY <2>2, <3>1, <3>2, <3>4, <4>1
    <3> QED
      BY <3>3, <3>4
  <2>4. ASSUME NEW r \in revenue, r.order = o, r.type # "NET" PROVE Negated(r) \in revenue
    <3>1. /\ r \in Revenue /\ r.type \in {"EARNED", "SETTLED"} /\ r.amount \in Int
          /\ r = RevenueRow(o, r.type, r.amount)
          /\ Negated(r) = RevenueRow(o, r.type, -r.amount)
      BY <2>1, <2>4 DEF Revenue, RevenueType, RevenueRow, Negated
    <3>2. PICK type \in {"EARNED", "SETTLED"}, n \in Int : type = r.type /\ n = r.amount
      BY <3>1
    <3>3. Figure(c, type) # 0 /\ (n = Figure(c, type) \/ (Reversed(o) /\ n = -Figure(c, type)))
            /\ ~sale[o].booked
      BY <2>1, <2>4, <3>1, <3>2 DEF RevenueFits
    <3>4. Reversed(o)
      BY <2>1, <3>3 DEF Figure, NoDecision
    <3>5. Figure(c, type) \in Nat
      BY <2>2 DEF Figure
    <3>6. -n \in Int /\ (-n = Figure(c, type) \/ -n = -Figure(c, type))
      BY <3>3, <3>5
    <3>7. RevenueRow(o, type, -n) \in revenue
      BY <2>1, <3>3, <3>4, <3>6 DEF RevenueFits
    <3> QED
      BY <3>1, <3>2, <3>7
  <2> QED
    BY <2>3, <2>4
<1> QED
  BY <1>1, BookInvariance, PTL

\* What the platform booked for an order is what the ledger says of it, with
\* its reversal, unless it was booked when the order was paid.
THEOREM RevenueIsLedger == Spec => []RevenueMatchesLedger
<1>1. BookInv => RevenueMatchesLedger
  <2> DEFINE Booked(o, type) == {r.amount : r \in {s \in revenue : s.order = o /\ s.type = type}}
             Expected(o, n) == IF sale[o].booked \/ n = 0 THEN {}
                               ELSE IF Reversed(o) THEN {n, -n} ELSE {n}
  <2>1. ASSUME BookInv, NEW o \in Order, NEW type \in {"EARNED", "SETTLED"}
        PROVE  Booked(o, type) = Expected(o, Figure(order[o].commission, type))
    <3> DEFINE figure == Figure(order[o].commission, type)
    <3>1. DecisionFits(o) /\ RevenueFits(o) /\ revenue \in SUBSET Revenue
      BY <2>1 DEF BookInv, IInv, TypeOK, OrdersFit
    <3>2. figure \in Nat
      BY <3>1 DEF DecisionFits, Outcome, NoDecision, Figure
    <3>3. \A n : n \in Booked(o, type) <=> n \in Int /\ RevenueRow(o, type, n) \in revenue
      <4>1. ASSUME NEW r \in revenue, r.order = o, r.type = type
            PROVE  r.amount \in Int /\ r = RevenueRow(o, type, r.amount)
        BY <3>1, <4>1 DEF Revenue, RevenueRow
      <4>2. \A n : /\ RevenueRow(o, type, n).order = o /\ RevenueRow(o, type, n).type = type
                   /\ RevenueRow(o, type, n).amount = n
        BY DEF RevenueRow
      <4> QED
        BY <4>1, <4>2
    <3>4. \A n \in Int : RevenueRow(o, type, n) \in revenue <=>
             ~sale[o].booked /\ figure # 0 /\ (n = figure \/ (Reversed(o) /\ n = -figure))
      BY <3>1 DEF RevenueFits
    <3> HIDE DEF figure
    <3>5. \A n : n \in Expected(o, figure) <=>
             /\ n \in Int /\ ~sale[o].booked /\ figure # 0
             /\ n = figure \/ (Reversed(o) /\ n = -figure)
      BY <3>2
    <3> HIDE DEF Booked, Expected
    <3>6. \A n : n \in Booked(o, type) <=> n \in Expected(o, figure)
      BY <3>3, <3>4, <3>5
    <3>7. Booked(o, type) = Expected(o, figure)
      <4>1. (\A x : x \in Booked(o, type) <=> x \in Expected(o, figure))
              => Booked(o, type) = Expected(o, figure)
        BY DEF Booked, Expected
      <4> QED
        BY <3>6, <4>1
    <3> QED
      BY <3>7 DEF figure
  <2>2. ASSUME BookInv, NEW o \in Order
        PROVE  /\ Figure(order[o].commission, "EARNED") = AmountOf(RowsOf(o), "ACCRUAL")
               /\ Figure(order[o].commission, "SETTLED") = AmountOf(RowsOf(o), "SETTLEMENT")
    BY <2>2, AmountsFit DEF BookInv, OrdersFit, Figure
  <2>3. ASSUME BookInv, NEW o \in Order
        PROVE  /\ Booked(o, "EARNED") = Expected(o, AmountOf(RowsOf(o), "ACCRUAL"))
               /\ Booked(o, "SETTLED") = Expected(o, AmountOf(RowsOf(o), "SETTLEMENT"))
    <3>1. /\ Booked(o, "EARNED") = Expected(o, Figure(order[o].commission, "EARNED"))
          /\ Booked(o, "SETTLED") = Expected(o, Figure(order[o].commission, "SETTLED"))
      BY <2>1, <2>3
    <3> HIDE DEF Booked, Expected
    <3> QED
      BY <2>2, <2>3, <3>1
  <2> QED
    BY <2>3 DEF RevenueMatchesLedger, Reversed
<1> QED
  BY <1>1, BookInvariance, PTL
================================================================================
