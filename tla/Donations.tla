----------------------------- MODULE Donations -----------------------------
(***************************************************************************)
(* The charity pool of donations.service.ts and the listener that feeds    *)
(* it: a completed order pledges a share of TFTW's commission to the pool  *)
(* being funded, a funded pool hands over to the next goal, a refund takes *)
(* the pledge back.                                                        *)
(*                                                                         *)
(* order.completed and order.refunded travel by RabbitMQ, which delivers   *)
(* again whatever was not acknowledged, or by the EventEmitter, which      *)
(* loses what fails: an event is handled any number of times, or never.    *)
(* An amount is a small number.  Category snapshots, meal and contributor  *)
(* counts, badges and the number of the season are left out.               *)
(***************************************************************************)
EXTENDS Naturals, Sequences, FiniteSets, FiniteSetsExt

CONSTANTS
    Order, Worker,
    Amount,         \* [Order -> Nat]: 5% of 19% of the subtotal
    Online,         \* orders paid through Konnect: their refund is booked
    Legacy,         \* orders whose pledge was booked at payment time
    LastGoal,       \* goals are 0 .. LastGoal, in the order of GOAL_SEQUENCE
    Target,         \* DEFAULT_CATEGORY_PRICES: what a goal costs
    Targets,        \* what an administrator may set it to
    MaxInterventions,       \* bound on edits, resets and gifts of points
    None

ASSUME AmountAssumption ==
    /\ Amount \in [Order -> Nat] /\ LastGoal \in Nat
    /\ Target \in Nat /\ Targets \subseteq Nat
    /\ MaxInterventions \in Nat
    /\ None \notin [pool : Nat, outcome : {"live", "reduced", "absorbed"}]
ASSUME FiniteAssumption == IsFiniteSet(Order) /\ IsFiniteSet(Worker)

VARIABLES
    order,      \* order -> its status, as far as a pledge is concerned
    rows,       \* order -> its DONATION rows: what was added, what taken out
    donation,   \* order -> None or the UserDonation: its pool, its outcome
    pools,      \* the pools in the order of their creation
    worker,     \* worker -> where its delivery of order.completed stands
    resetting,  \* resetPool is between its two writes
    interventions,  \* how often a target was edited, the pool reset, points given
    gifted,     \* ghost: what loyalty points have added to the pools
    handled,    \* ghost: orders whose order.refunded was handled
    raced,      \* ghost: orders refunded behind the back of a worker
    dropped,    \* ghost: overflow that never became the next pool
    staleClaim  \* ghost: a rotation used a target edited since it was read

adminVars == <<resetting, interventions>>
ghostVars == <<gifted, handled, raced, dropped, staleClaim>>
vars == <<order, rows, donation, pools, worker, adminVars, ghostVars>>

Idle == [at |-> "idle", order |-> None, pool |-> 0, target |-> 0, overflow |-> 0]

NewPool(goal, amount, from) ==
    [status |-> "active", archived |-> FALSE, goal |-> goal, amount |-> amount,
     target |-> Target, from |-> from]

(* The unique partial index: at most one pool is active and not archived. *)
Open == {p \in DOMAIN pools : pools[p].status = "active" /\ ~pools[p].archived}

Net(o) == rows[o].plus - rows[o].minus

TypeOK ==
    /\ order \in [Order -> {"open", "cancelled", "completed", "refunded"}]
    /\ \A o \in Order : rows[o].plus \in Nat /\ rows[o].minus \in 0 .. rows[o].plus
    /\ donation \in [Order -> {None} \cup
          [pool : DOMAIN pools, outcome : {"live", "reduced", "absorbed"}]]
    /\ \A p \in DOMAIN pools :
          pools[p] \in [status : {"active", "funded", "complete", "archived"},
                        archived : BOOLEAN, goal : 0 .. LastGoal, amount : Nat,
                        target : Targets \cup {Target}, from : 0 .. p - 1]
    /\ resetting \in BOOLEAN /\ interventions \in 0 .. MaxInterventions
    /\ worker \in [Worker -> [at : {"idle", "checked", "pooled", "rotate", "next"},
          order : Order \cup {None}, pool : {0} \cup DOMAIN pools,
          target : {0, Target} \cup Targets, overflow : Nat]]
    /\ Cardinality(Open) <= 1

Init ==
    /\ order = [o \in Order |-> "open"]
    /\ rows = [o \in Order |-> [plus |-> IF o \in Legacy THEN Amount[o] ELSE 0, minus |-> 0]]
    /\ donation = [o \in Order |-> None]
    /\ pools = <<NewPool(0, 0, 0)>>
    /\ worker = [w \in Worker |-> Idle]
    /\ resetting = FALSE /\ interventions = 0 /\ gifted = 0
    /\ handled = {} /\ raced = {} /\ dropped = {} /\ staleClaim = FALSE

-----------------------------------------------------------------------------
(* The life of an order. *)

(* Pickup or delivery; order.completed is emitted after the commit. *)
Complete(o) ==
    /\ order[o] = "open"
    /\ order' = [order EXCEPT ![o] = "completed"]
    /\ UNCHANGED <<rows, donation, pools, worker, adminVars, ghostVars>>

(* reverseLegacyPaymentBookings: every positive row is written again with
   the opposite sign. *)
BookingsReversed(o) == [rows EXCEPT ![o].minus = @ + rows[o].plus]

(* An order paid online is cancelled before its completion. *)
CancelPaid(o) ==
    /\ order[o] = "open" /\ o \in Online
    /\ order' = [order EXCEPT ![o] = "cancelled"]
    /\ rows' = BookingsReversed(o)
    /\ UNCHANGED <<donation, pools, worker, adminVars, ghostVars>>

(* adminIssueRefund and recordOfflineRefund commit REFUNDED and then emit
   order.refunded; its loss is only logged.  A refund of Konnect also
   reverses the bookings it finds. *)
Refund(o) ==
    /\ order[o] = "completed"
    /\ order' = [order EXCEPT ![o] = "refunded"]
    /\ rows' = IF o \in Online THEN BookingsReversed(o) ELSE rows
    /\ raced' = IF \E w \in Worker : worker[w].order = o
                                     /\ worker[w].at \in {"checked", "pooled"}
                  THEN raced \cup {o} ELSE raced
    /\ UNCHANGED <<donation, pools, worker, adminVars, gifted, handled, dropped, staleClaim>>

-----------------------------------------------------------------------------
(* A delivery of order.completed: processOrderDonation, createDonation. *)

Delivered(o) == order[o] \in {"completed", "refunded"}

Finish(w) == worker' = [worker EXCEPT ![w] = Idle]

(* A handler that does not look at the order. *)
TakeUnchecked(w, o) ==
    /\ worker[w] = Idle
    /\ Delivered(o)
    /\ worker' = [worker EXCEPT ![w] = [Idle EXCEPT !.at = "checked", !.order = o]]
    /\ UNCHANGED <<order, rows, donation, pools, adminVars, ghostVars>>

(* The order is read: a refunded one is skipped. *)
Take(w, o) ==
    /\ worker[w] = Idle
    /\ Delivered(o)
    /\ order[o] # "refunded"
    /\ worker' = [worker EXCEPT ![w] = [Idle EXCEPT !.at = "checked", !.order = o]]
    /\ UNCHANGED <<order, rows, donation, pools, adminVars, ghostVars>>

(* A process that opens a pool of its own. *)
OpenDefaultEach ==
    /\ Len(pools) < 4
    /\ pools' = Append(pools, NewPool(0, 0, 0))
    /\ UNCHANGED <<order, rows, donation, worker, adminVars, ghostVars>>

(* getActivePool finds no open pool, whoever asks (a donation, a reader of
   the statistics, a process that starts), and opens the default one, of the
   first goal.  The index refuses a second insert, which is no error. *)
OpenDefault ==
    /\ Open = {}
    /\ pools' = Append(pools, NewPool(0, 0, 0))
    /\ UNCHANGED <<order, rows, donation, worker, adminVars, ghostVars>>

(* createDonation, its read of the open pool. *)
FindPool(w) ==
    /\ worker[w].at = "checked"
    /\ \E p \in Open : worker' = [worker EXCEPT ![w].at = "pooled", ![w].pool = p]
    /\ UNCHANGED <<order, rows, donation, pools, adminVars, ghostVars>>

(* bookPledge: an order pledged at payment time is not booked twice. *)
PledgeBooked(o) ==
    IF Net(o) > 0 THEN rows ELSE [rows EXCEPT ![o].plus = @ + Amount[o]]

(* The transaction of createDonation.  The orderId of a UserDonation is
   unique, reversed or not; the pool is increased by its id, whatever has
   become of it since it was read. *)
Pledge(w) ==
    LET o == worker[w].order
        p == worker[w].pool
        full == pools[p].amount + Amount[o] >= pools[p].target
    IN  /\ worker[w].at = "pooled"
        /\ IF donation[o] # None
             THEN Finish(w) /\ UNCHANGED <<rows, donation, pools>>
             ELSE /\ donation' = [donation EXCEPT ![o] = [pool |-> p, outcome |-> "live"]]
                  /\ pools' = [pools EXCEPT ![p].amount = @ + Amount[o]]
                  /\ rows' = PledgeBooked(o)
                  /\ IF full
                       THEN worker' = [worker EXCEPT ![w].at = "rotate",
                                                     ![w].target = pools[p].target]
                       ELSE Finish(w)
        /\ UNCHANGED <<order, adminVars, ghostVars>>

(* The claim of a rotation that trusts its caller's view. *)
FundableAsSeen(p) == pools[p].amount >= pools[p].target

(* The filter of the claim of rotateIfFunded. *)
Fundable(p) == pools[p].status = "active" /\ pools[p].amount >= pools[p].target

(* The overflow taken from the pool as the claim leaves it (new: true). *)
OverflowAfter(p, seen) == IF seen > pools[p].target THEN seen - pools[p].target ELSE 0

(* The overflow is derived from the pre-image of the claim. *)
Overflow(p, seen) == pools[p].amount - pools[p].target

(* rotateIfFunded: the claim closes the pool at the target its caller has
   in memory. *)
Rotate(w) ==
    LET p == worker[w].pool
        seen == worker[w].target
        last == pools[p].goal = LastGoal
    IN  /\ worker[w].at = "rotate"
        /\ IF Fundable(p)
             THEN /\ pools' = [pools EXCEPT ![p].amount = seen,
                                 ![p].status = IF last THEN "complete" ELSE "funded"]
                  /\ staleClaim' = (staleClaim \/ seen # pools[p].target)
                  /\ dropped' = IF last THEN dropped \cup {[pool |-> p, amount |-> Overflow(p, seen)]}
                                ELSE dropped
                  /\ IF last THEN Finish(w)
                     ELSE worker' = [worker EXCEPT ![w].at = "next",
                                                   ![w].overflow = Overflow(p, seen)]
             ELSE Finish(w) /\ UNCHANGED <<pools, staleClaim, dropped>>
        /\ UNCHANGED <<order, rows, donation, adminVars, gifted, handled, raced>>

Lose(w) == dropped' = dropped \cup {[pool |-> worker[w].pool, amount |-> worker[w].overflow]}

(* createNextPool.  If another pool was opened since the claim the index
   refuses this one, and createDonation, which takes the error for a second
   delivery of its order, reports success.  An overflow that funds the next
   goal outright rotates it in turn. *)
CreateNext(w) ==
    LET p == worker[w].pool
        extra == worker[w].overflow
    IN  /\ worker[w].at = "next"
        /\ IF Open # {}
             THEN Lose(w) /\ Finish(w) /\ UNCHANGED pools
             ELSE /\ pools' = Append(pools, NewPool(pools[p].goal + 1, extra, p))
                  /\ UNCHANGED dropped
                  /\ IF extra >= Target
                       THEN worker' = [worker EXCEPT ![w] =
                                  [@ EXCEPT !.at = "rotate", !.pool = Len(pools) + 1,
                                            !.target = Target, !.overflow = 0]]
                       ELSE Finish(w)
        /\ UNCHANGED <<order, rows, donation, adminVars,
                       gifted, handled, raced, staleClaim>>

(* A step of the handler throws, or its process dies. *)
Fail(w) ==
    /\ worker[w] # Idle
    /\ Finish(w)
    /\ IF worker[w].at = "next" THEN Lose(w) ELSE UNCHANGED dropped
    /\ UNCHANGED <<order, rows, donation, pools, adminVars,
                   gifted, handled, raced, staleClaim>>

-----------------------------------------------------------------------------
(* Refunds, the administrator and the monthly job. *)

Reversible(o) ==
    /\ pools[donation[o].pool].status = "active"
    /\ pools[donation[o].pool].amount >= Amount[o]

(* What reverseForOrder adds to the rows when the charity keeps `kept`,
   without asking what they sum to. *)
AdjustedBlindly(o, kept) == [rows EXCEPT ![o].minus = @ + (Amount[o] - kept)]

(* The rows are brought to what the charity keeps. *)
Adjusted(o, kept) ==
    IF kept >= Net(o) THEN [rows EXCEPT ![o].plus = @ + (kept - Net(o))]
    ELSE [rows EXCEPT ![o].minus = @ + (Net(o) - kept)]

(* reverseForOrder, one transaction; `reversedAt: null` lets one delivery
   through.  A funded pool is never unfunded: TFTW pays. *)
ReverseForOrder(o) ==
    /\ order[o] = "refunded"
    /\ handled' = handled \cup {o}
    /\ IF donation[o] = None \/ donation[o].outcome # "live"
         THEN UNCHANGED <<donation, pools, rows>>
         ELSE IF Reversible(o)
                THEN /\ pools' = [pools EXCEPT ![donation[o].pool].amount = @ - Amount[o]]
                     /\ donation' = [donation EXCEPT ![o].outcome = "reduced"]
                     /\ rows' = Adjusted(o, 0)
                ELSE /\ donation' = [donation EXCEPT ![o].outcome = "absorbed"]
                     /\ rows' = Adjusted(o, Amount[o])
                     /\ UNCHANGED pools
    /\ UNCHANGED <<order, worker, adminVars, gifted, raced, dropped, staleClaim>>

(* updateActivePool reads the open pool and writes by its id: the pool may
   have been closed in between. *)
EditTarget(p) ==
    /\ interventions < MaxInterventions
    /\ interventions' = interventions + 1
    /\ \E t \in Targets \ {pools[p].target} : pools' = [pools EXCEPT ![p].target = t]
    /\ UNCHANGED <<order, rows, donation, worker, resetting, ghostVars>>

(* donatePoints of loyalty.service.ts reads the open pool and adds to it by
   its id, without a row in the ledger, and never rotates it. *)
DonatePoints(p) ==
    /\ interventions < MaxInterventions
    /\ interventions' = interventions + 1
    /\ gifted' = gifted + 1
    /\ pools' = [pools EXCEPT ![p].amount = @ + 1]
    /\ UNCHANGED <<order, rows, donation, worker, resetting,
                   handled, raced, dropped, staleClaim>>

(* resetPool, its first write: every pool is archived, an active one keeps
   its status. *)
ResetArchives ==
    /\ ~resetting /\ interventions < MaxInterventions
    /\ resetting' = TRUE
    /\ interventions' = interventions + 1
    /\ pools' = [p \in DOMAIN pools |-> [pools[p] EXCEPT !.archived = TRUE]]
    /\ UNCHANGED <<order, rows, donation, worker, ghostVars>>

(* Its second write: the first pool of the new season, refused if another
   pool was opened in between. *)
ResetInserts ==
    /\ resetting
    /\ resetting' = FALSE
    /\ pools' = IF Open = {} THEN Append(pools, NewPool(0, 0, 0)) ELSE pools
    /\ UNCHANGED <<order, rows, donation, worker, interventions, ghostVars>>

(* The process dies between the two writes. *)
ResetDies ==
    /\ resetting
    /\ resetting' = FALSE
    /\ UNCHANGED <<order, rows, donation, pools, worker, interventions, ghostVars>>

(* runCompletedPoolArchival. *)
ArchiveFunded ==
    LET done == {p \in DOMAIN pools : pools[p].status = "funded" /\ ~pools[p].archived}
    IN  /\ done # {}
        /\ pools' = [p \in DOMAIN pools |->
                        IF p \in done THEN [pools[p] EXCEPT !.status = "archived", !.archived = TRUE]
                        ELSE pools[p]]
        /\ UNCHANGED <<order, rows, donation, worker, adminVars, ghostVars>>

Next ==
    \/ \E o \in Order :
          Complete(o) \/ CancelPaid(o) \/ Refund(o) \/ ReverseForOrder(o)
    \/ \E w \in Worker :
          \/ FindPool(w) \/ Pledge(w) \/ Rotate(w) \/ CreateNext(w) \/ Fail(w)
          \/ \E o \in Order : Take(w, o)
    \/ \E p \in DOMAIN pools : EditTarget(p) \/ DonatePoints(p)
    \/ OpenDefault \/ ResetArchives \/ ResetInserts \/ ResetDies \/ ArchiveFunded

Spec == Init /\ [][Next]_vars

-----------------------------------------------------------------------------
(* PROPERTIES *)

Kept(o) == IF donation[o] = None \/ donation[o].outcome = "reduced" THEN 0 ELSE Amount[o]

(* TFTW's ledger ends at what the charity keeps, through redeliveries,
   refunds that reverse the same rows from another module and pools that
   close in between.  It is off only before the pledge of an order booked
   at payment is recorded, and after a refund whose event is still to be
   handled or was lost. *)
LedgerMatchesCharity ==
    \A o \in Order :
        \/ Net(o) = Kept(o)
        \/ o \in Legacy /\ donation[o] = None
        \/ order[o] = "refunded" /\ o \notin handled

(* Whatever donations, reversals and rotations overlap, the pools hold what
   was pledged and kept and what points were turned into, but for the
   overflow of rotations that died, lost the index to another pool or ended
   the season - unless a rotation used a target that was edited after its
   donation had read it. *)
PoolsHoldPledges ==
    staleClaim \/
    SumFunction([p \in DOMAIN pools |-> pools[p].amount])
      + SumFunction([d \in dropped |-> d.amount])
      + SumFunction([w \in Worker |-> IF worker[w].at = "next" THEN worker[w].overflow ELSE 0])
    = SumFunction([o \in Order |-> Kept(o)]) + gifted

(* Every funded goal hands over to the next goal once: its successor exists,
   or one worker is about to create it, or it was dropped - never two of
   these, however many donations see the goal funded. *)
FundedIsSucceededOnce ==
    \A p \in DOMAIN pools :
        LET next == {q \in DOMAIN pools : pools[q].from = p}
            hands == {w \in Worker : worker[w].at = "next" /\ worker[w].pool = p}
            drops == {d \in dropped : d.pool = p}
        IN  Cardinality(next) + Cardinality(hands) + Cardinality(drops)
              = IF pools[p].status = "active" THEN 0 ELSE 1

(* "Booking it now would pledge for a sale that was refunded, and nothing
   would ever reverse it": a refunded order keeps a live contribution only
   while its reversal is outstanding, or lost, or if it was refunded between
   the listener's read of the order and the donation's commit. *)
RefundedPledgeOnlyInRace ==
    \A o \in Order :
        order[o] = "refunded" /\ donation[o] # None /\ donation[o].outcome = "live"
            => o \notin handled \/ o \in raced

=============================================================================
