------------------------------- MODULE Voting -------------------------------
(***************************************************************************)
(* One season of the community vote: voting.service.ts with its jobs, the  *)
(* listener that counts bags, and the claim of the grand prize.            *)
(*                                                                         *)
(* A cycle is drafted, activated, open for votes once the community has    *)
(* saved enough bags, tallied and completed; the vote chooses the prize,   *)
(* the leaderboard chooses who gets it.  Each transition is a compare and  *)
(* set on the status; everything around it (edits, seeding, snapshots,     *)
(* votes, tallies, claims) reads first and writes by id later.             *)
(*                                                                         *)
(* Users and prizes are numbers, ordered like their ids.  An order is one  *)
(* bag.  Time is left out: a ballot may close and a season expire at any   *)
(* moment, and the season started before it was activated.  Points come    *)
(* from orders only.  Audit rows, notifications, the deletion of a draft   *)
(* and the handling of a claim after it was made are left out; the unique  *)
(* index on isLive makes the one cycle the only live one.                  *)
(***************************************************************************)
EXTENDS Naturals, FiniteSets, FiniteSetsExt

CONSTANTS
    User, Prize,        \* sets of numbers
    Editions,           \* the prizes of the cycle, first and after an edit
    Order, Owner, Points,   \* who placed an order, the points it earns
    Removable,          \* users an administrator may delete and restore
    Past,               \* orders handled before the cycle was drafted
    Job,                \* who may run a snapshot at a time
    Request,            \* requests to vote in flight at a time
    Teller,             \* who may run a tally at a time
    Goal,               \* seasonBagTarget
    MinimumBags, Recipients,    \* bags to be eligible; choices of recipientCount
    MaxFailures,        \* bound on the processes that die, the errors swallowed
    None

ASSUME SeasonAssumption ==
    /\ IsFiniteSet(User) /\ IsFiniteSet(Order)
    /\ User \subseteq Nat /\ Prize \subseteq Nat /\ Removable \subseteq User
    /\ Editions \in [1 .. 2 -> SUBSET Prize]
    /\ Points \in [Order -> Nat]
    /\ Recipients \subseteq Nat /\ MaxFailures \in Nat
    /\ None \notin Nat
    /\ None \notin [prize : Prize, weight : Nat]
    /\ None \notin [user : User, prize : Prize, weight : Nat]

VARIABLES
    cycle,      \* the document of the cycle
    seeding,    \* activateCycle is between its two writes
    admin,      \* an edit: of what, and the status it read
    event,      \* order -> how far its order.completed has got
    history,    \* order -> its row in pointsHistory: none, season or later
    counted,    \* order -> how often it is in seasonBagProgress
    job,        \* snapshot run -> its step and what it read
    weight,     \* user -> pointsSnapshot of the eligibility row, or None
    request,    \* request -> None or the vote it is about to insert
    vote,       \* user -> None or the vote
    teller,     \* tally -> its step and the winner it found
    claims,     \* users that have claimed the grand prize
    active,     \* users whose loyalty account isActive
    failures,   \* how many processes have died, errors were swallowed
    again,      \* ghost: orders whose event was delivered again
    swallowed,  \* ghost: orders whose event ended in a logged error
    overlap,    \* ghost: orders in the middle of their event at activation
    unseeded,   \* ghost: activateCycle died before it seeded
    staleEdit,  \* ghost: an edit landed in a later status than it had read
    inFlight,   \* ghost: users with a request in flight when the ballot closed
    changed     \* ghost: users whose account earned points, was deactivated or
                \* reactivated after the cycle was completed

seasonVars == <<seeding, admin>>
eventVars == <<event, history, counted, again, swallowed, overlap>>
ballotVars == <<weight, request, vote>>
jobVars == <<job, teller>>
ghostVars == <<unseeded, staleEdit, inFlight>>
accountVars == <<active, changed>>
otherVars == <<claims, failures, ghostVars, accountVars>>
vars == <<cycle, seasonVars, eventVars, ballotVars, jobVars, otherVars>>

NoJob == [at |-> "idle", seen |-> [u \in User |-> None]]
NoTally == [at |-> "idle", winner |-> None]
NoAdmin == [at |-> "idle", read |-> None]

Status == {"draft", "active", "open", "tallying", "completed",
           "expired", "archived"}
Weight == Nat \cup {None}

TypeOK ==
    /\ cycle \in [status : Status, ready : BOOLEAN, edition : DOMAIN Editions,
                  recipients : Recipients, winner : Prize \cup {None}]
    /\ cycle.winner # None => cycle.status \in {"completed", "archived"}
    /\ seeding \in BOOLEAN
    /\ admin \in [at : {"idle", "prizes", "recipients", "done"},
                  read : {None, "draft", "active"}]
    /\ event \in [Order -> {"due", "awarded", "done"}]
    /\ history \in [Order -> {"none", "season", "later"}]
    /\ counted \in [Order -> 0 .. MaxFailures + 2]
    /\ job \in [Job -> [at : {"idle", "due", "read", "written"}, seen : [User -> Weight]]]
    /\ weight \in [User -> Weight]
    /\ \A r \in Request : request[r] # None =>
          request[r] \in [user : User, prize : Prize, weight : Nat]
    /\ \A u \in User : vote[u] # None => vote[u] \in [prize : Prize, weight : Nat]
    /\ teller \in [Teller -> [at : {"idle", "count", "counted"}, winner : Prize \cup {None}]]
    /\ claims \subseteq User /\ active \subseteq User /\ failures \in 0 .. MaxFailures

Init ==
    /\ cycle \in [status : {"draft"}, ready : {FALSE}, edition : {1},
                  recipients : Recipients, winner : {None}]
    /\ seeding = FALSE /\ admin = NoAdmin
    /\ event = [o \in Order |-> IF o \in Past THEN "done" ELSE "due"]
    /\ history = [o \in Order |-> IF o \in Past THEN "season" ELSE "none"]
    /\ counted = [o \in Order |-> 0]
    /\ job = [j \in Job |-> NoJob] /\ teller = [t \in Teller |-> NoTally]
    /\ weight = [u \in User |-> None] /\ vote = [u \in User |-> None]
    /\ request = [r \in Request |-> None]
    /\ claims = {} /\ again = {} /\ swallowed = {} /\ overlap = {} /\ inFlight = {}
    /\ failures = 0 /\ unseeded = FALSE /\ staleEdit = FALSE
    /\ active = User /\ changed = {}

(* A season whose ballot has just opened, nothing behind it but the orders
   of the past: where the larger instances of the ballot start. *)
BallotInit ==
    /\ \E j \in Job : job = [i \in Job |-> IF i = j THEN [NoJob EXCEPT !.at = "due"] ELSE NoJob]
    /\ cycle \in [status : {"open"}, ready : {FALSE}, edition : {1},
                  recipients : Recipients, winner : {None}]
    /\ seeding = FALSE /\ admin = NoAdmin
    /\ event = [o \in Order |-> IF o \in Past THEN "done" ELSE "due"]
    /\ history = [o \in Order |-> IF o \in Past THEN "season" ELSE "none"]
    /\ counted = [o \in Order |-> IF o \in Past THEN 1 ELSE 0]
    /\ teller = [t \in Teller |-> NoTally]
    /\ weight = [u \in User |-> None] /\ vote = [u \in User |-> None]
    /\ request = [r \in Request |-> None]
    /\ claims = {} /\ again = {} /\ swallowed = {} /\ overlap = {} /\ inFlight = {}
    /\ failures = 0 /\ unseeded = FALSE /\ staleEdit = FALSE
    /\ active = User /\ changed = {}

-----------------------------------------------------------------------------
(* The season and its administrator. *)

(* activateCycle, the compare and set. *)
Activate ==
    /\ cycle.status = "draft"
    /\ cycle' = [cycle EXCEPT !.status = "active"]
    /\ seeding' = TRUE
    /\ overlap' = overlap \cup {o \in Order : event[o] = "awarded"}
    /\ UNCHANGED <<admin, event, history, counted, again, swallowed,
                   ballotVars, jobVars, otherVars>>

(* activateCycle, afterwards: the bags in pointsHistory are counted and
   added to the progress, by id. *)
Seed ==
    /\ seeding
    /\ seeding' = FALSE
    /\ counted' = [o \in Order |-> IF history[o] = "none" THEN counted[o] ELSE counted[o] + 1]
    /\ UNCHANGED <<cycle, admin, event, history, again, swallowed, overlap,
                   ballotVars, jobVars, otherVars>>

(* The process dies in between: no later activation can seed. *)
SeedDies ==
    /\ failures < MaxFailures /\ failures' = failures + 1
    /\ seeding
    /\ seeding' = FALSE
    /\ unseeded' = TRUE
    /\ UNCHANGED <<cycle, admin, eventVars, ballotVars, jobVars, claims,
                   staleEdit, inFlight, accountVars>>

(* A check that lets every field be edited until the ballot closes. *)
EditableLate(what) == {"draft", "active", "open"}

(* The statuses in which updateCycle does not refuse a field:
   lockedAfterDraft, lockedAfterBallot. *)
Editable(what) == IF what = "recipients" THEN {"draft", "active"} ELSE {"draft"}

(* updateCycle reads the cycle and checks its status; one edit, here. *)
AdminReads(what) ==
    /\ admin = NoAdmin
    /\ cycle.status \in Editable(what)
    /\ admin' = [at |-> what, read |-> cycle.status]
    /\ UNCHANGED <<cycle, seeding, eventVars, ballotVars, jobVars, otherVars>>

(* It writes by id, whatever the status has become.  New prizes have new
   ids. *)
AdminWrites ==
    /\ admin.at \in {"prizes", "recipients"}
    /\ admin' = [at |-> "done", read |-> None]
    /\ staleEdit' = (cycle.status # admin.read)
    /\ \/ /\ admin.at = "prizes"
          /\ cycle' = [cycle EXCEPT !.edition = @ + 1]
       \/ /\ admin.at = "recipients"
          /\ \E n \in Recipients : cycle' = [cycle EXCEPT !.recipients = n]
    /\ UNCHANGED <<seeding, eventVars, ballotVars, jobVars, claims,
                   failures, unseeded, inFlight, accountVars>>

(* archiveCycle. *)
Archive ==
    /\ cycle.status \in {"completed", "expired"}
    /\ cycle' = [cycle EXCEPT !.status = "archived"]
    /\ UNCHANGED <<seasonVars, eventVars, ballotVars, jobVars, otherVars>>

-----------------------------------------------------------------------------
(* processOrderLoyalty: the delivery of order.completed. *)

AlsoChanged(u) == IF cycle.status = "completed" THEN changed \cup {u} ELSE changed

(* addPoints: the filter on orderId awards an order once.  createdAt is
   stamped before the write, which may land after the ballot has opened. *)
AddPoints(o) ==
    /\ event[o] = "due"
    /\ event' = [event EXCEPT ![o] = "awarded"]
    /\ IF history[o] # "none" THEN UNCHANGED <<history, changed>>
       ELSE /\ \E h \in {"season", "later"} :
                  /\ cycle.status \in {"draft", "active"} => h = "season"
                  /\ history' = [history EXCEPT ![o] = h]
            /\ changed' = AlsoChanged(Owner[o])
    /\ overlap' = IF seeding THEN overlap \cup {o} ELSE overlap
    /\ UNCHANGED <<cycle, seasonVars, counted, again, swallowed, ballotVars, jobVars, claims,
                   failures, ghostVars, active>>

(* An increment that does not ask for an active cycle. *)
IncrementAlways(o) ==
    /\ event[o] = "awarded"
    /\ event' = [event EXCEPT ![o] = "done"]
    /\ counted' = [counted EXCEPT ![o] = @ + 1]
    /\ UNCHANGED <<cycle, seasonVars, history, again, swallowed, overlap,
                   ballotVars, jobVars, otherVars>>

(* incrementSeasonBagProgress: only an active cycle is incremented. *)
IncrementSeasonBagProgress(o) ==
    /\ event[o] = "awarded"
    /\ event' = [event EXCEPT ![o] = "done"]
    /\ counted' = IF cycle.status = "active" THEN [counted EXCEPT ![o] = @ + 1] ELSE counted
    /\ UNCHANGED <<cycle, seasonVars, history, again, swallowed, overlap,
                   ballotVars, jobVars, otherVars>>

(* The consumer dies before the message is acknowledged, and RabbitMQ
   delivers it again. *)
Redeliver(o) ==
    /\ failures < MaxFailures /\ failures' = failures + 1
    /\ event[o] \in {"awarded", "done"} /\ o \notin Past
    /\ event' = [event EXCEPT ![o] = "due"]
    /\ again' = again \cup {o}
    /\ UNCHANGED <<cycle, seasonVars, history, counted, swallowed, overlap,
                   ballotVars, jobVars, claims, ghostVars, accountVars>>

(* addPoints, or a step between it and the increment, throws: the error is
   logged and the message acknowledged. *)
Swallow(o) ==
    /\ failures < MaxFailures /\ failures' = failures + 1
    /\ event[o] \in {"due", "awarded"}
    /\ event' = [event EXCEPT ![o] = "done"]
    /\ swallowed' = swallowed \cup {o}
    /\ UNCHANGED <<cycle, seasonVars, history, counted, again, overlap,
                   ballotVars, jobVars, claims, ghostVars, accountVars>>

-----------------------------------------------------------------------------
(* The listener of admin.user.deleted and admin.user.restored.  Only the
   leaderboard looks at isActive. *)

DeactivateUserLoyalty(u) ==
    /\ u \in active
    /\ active' = active \ {u} /\ changed' = AlsoChanged(u)
    /\ UNCHANGED <<cycle, seasonVars, eventVars, ballotVars, jobVars, claims, failures, ghostVars>>

ReactivateUserLoyalty(u) ==
    /\ u \notin active
    /\ active' = active \cup {u} /\ changed' = AlsoChanged(u)
    /\ UNCHANGED <<cycle, seasonVars, eventVars, ballotVars, jobVars, claims, failures, ghostVars>>

-----------------------------------------------------------------------------
(* checkCommunityGoal and the snapshots of eligibility. *)

BagsSaved == SumFunction(counted)

Bags(u) == Cardinality({o \in Order : Owner[o] = u /\ history[o] = "season"})

Score(u) == SumFunctionOnSet(Points, {o \in Order : Owner[o] = u /\ history[o] # "none"})

(* expireCycle: the end date has come, whatever the progress. *)
Expire ==
    /\ cycle.status = "active"
    /\ cycle' = [cycle EXCEPT !.status = "expired"]
    /\ UNCHANGED <<seasonVars, eventVars, ballotVars, jobVars, otherVars>>

(* openBallot; the job goes on to createEligibilitySnapshots. *)
OpenBallot(j) ==
    /\ job[j] = NoJob
    /\ cycle.status = "active" /\ BagsSaved >= Goal
    /\ cycle' = [cycle EXCEPT !.status = "open", !.ready = FALSE]
    /\ job' = [job EXCEPT ![j].at = "due"]
    /\ UNCHANGED <<seasonVars, eventVars, ballotVars, teller, otherVars>>

(* retryFailedSnapshots and retrySnapshot: under another lock, or none. *)
Retry(j) ==
    /\ job[j] = NoJob
    /\ cycle.status = "open" /\ ~cycle.ready
    /\ job' = [job EXCEPT ![j].at = "due"]
    /\ UNCHANGED <<cycle, seasonVars, eventVars, ballotVars, teller, otherVars>>

(* createEligibilitySnapshots: the eligible users and their points now. *)
ReadPoints(j) ==
    /\ job[j].at = "due"
    /\ job' = [job EXCEPT ![j] = [at |-> "read",
                  seen |-> [u \in User |-> IF Bags(u) >= MinimumBags THEN Score(u) ELSE None]]]
    /\ UNCHANGED <<cycle, seasonVars, eventVars, ballotVars, teller, otherVars>>

(* The upsert with $set in the place of $setOnInsert. *)
Overwritten(seen) == [u \in User |-> IF seen[u] # None THEN seen[u] ELSE weight[u]]

(* The upsert of every eligible user: $setOnInsert keeps a row that exists. *)
Upserted(seen) == [u \in User |-> IF weight[u] # None THEN weight[u] ELSE seen[u]]

WriteSnapshots(j) ==
    /\ job[j].at = "read"
    /\ weight' = Upserted(job[j].seen)
    /\ job' = [job EXCEPT ![j] = [NoJob EXCEPT !.at = "written"]]
    /\ UNCHANGED <<cycle, seasonVars, eventVars, request, vote, teller, otherVars>>

(* snapshotReady, written by id. *)
SnapshotReady(j) ==
    /\ job[j].at = "written"
    /\ job' = [job EXCEPT ![j] = NoJob]
    /\ cycle' = [cycle EXCEPT !.ready = TRUE]
    /\ UNCHANGED <<seasonVars, eventVars, ballotVars, teller, otherVars>>

(* A snapshot run throws or its process dies. *)
SnapshotDies(j) ==
    /\ failures < MaxFailures /\ failures' = failures + 1
    /\ job[j] # NoJob
    /\ job' = [job EXCEPT ![j] = NoJob]
    /\ UNCHANGED <<cycle, seasonVars, eventVars, ballotVars, teller, claims, ghostVars,
                   accountVars>>

-----------------------------------------------------------------------------
(* Votes. *)

(* A vote that is let in whenever there is an eligibility row. *)
AcceptsAnytime == cycle.ready

(* castVote looks for the live cycle whose ballot is open and its snapshot
   ready. *)
Accepts == cycle.status = "open" /\ cycle.ready

(* The checks of castVote. *)
CastVote(r, u, p) ==
    /\ request[r] = None
    /\ Accepts
    /\ p \in Editions[cycle.edition]
    /\ weight[u] # None /\ vote[u] = None
    /\ request' = [request EXCEPT ![r] = [user |-> u, prize |-> p, weight |-> weight[u]]]
    /\ UNCHANGED <<cycle, seasonVars, eventVars, weight, vote, jobVars, otherVars>>

(* Its insert; the unique index on cycle and user refuses a second vote. *)
InsertVote(r) ==
    /\ request[r] # None
    /\ LET q == request[r]
       IN  vote' = IF vote[q.user] # None THEN vote
                   ELSE [vote EXCEPT ![q.user] = [prize |-> q.prize, weight |-> q.weight]]
    /\ request' = [request EXCEPT ![r] = None]
    /\ UNCHANGED <<cycle, seasonVars, eventVars, weight, jobVars, otherVars>>

-----------------------------------------------------------------------------
(* The tally. *)

Voters == {u \in User : vote[u] # None}

For(p, voters) == {u \in voters : vote[u].prize = p}

Total(p, voters) == SumFunctionOnSet([u \in voters |-> vote[u].weight], For(p, voters))

(* The $sort of runTally: weight, then voters, then the lower id. *)
Beats(p, q, voters) ==
    \/ Total(p, voters) > Total(q, voters)
    \/ /\ Total(p, voters) = Total(q, voters)
       /\ \/ Cardinality(For(p, voters)) > Cardinality(For(q, voters))
          \/ Cardinality(For(p, voters)) = Cardinality(For(q, voters)) /\ p < q

Winner(voters) ==
    IF voters = {} THEN None
    ELSE LET chosen == {vote[u].prize : u \in voters}
         IN  CHOOSE p \in chosen : \A q \in chosen \ {p} : Beats(p, q, voters)

(* closeBallotAndTally, its compare and set. *)
CloseBallot(t) ==
    /\ teller[t] = NoTally
    /\ cycle.status = "open"
    /\ cycle' = [cycle EXCEPT !.status = "tallying"]
    /\ teller' = [teller EXCEPT ![t].at = "count"]
    /\ inFlight' = {request[r].user : r \in {x \in Request : request[x] # None}}
    /\ UNCHANGED <<seasonVars, eventVars, ballotVars, job, claims, failures, unseeded, staleEdit,
                   accountVars>>

(* manualTally, which takes over a tally that died - or one that has not. *)
ManualTally(t) ==
    /\ teller[t] = NoTally
    /\ cycle.status = "tallying"
    /\ teller' = [teller EXCEPT ![t].at = "count"]
    /\ UNCHANGED <<cycle, seasonVars, eventVars, ballotVars, job, otherVars>>

(* runTally: the aggregation. *)
CountVotes(t) ==
    /\ teller[t].at = "count"
    /\ teller' = [teller EXCEPT ![t] = [at |-> "counted", winner |-> Winner(Voters)]]
    /\ UNCHANGED <<cycle, seasonVars, eventVars, ballotVars, job, otherVars>>

(* The winner written before the status, in a write of its own. *)
CompleteInTwo(t) ==
    /\ teller[t].at = "counted"
    /\ cycle' = IF cycle.status # "tallying" THEN cycle
                ELSE [cycle EXCEPT !.winner = teller[t].winner]
    /\ teller' = [teller EXCEPT ![t] = NoTally]
    /\ UNCHANGED <<seasonVars, eventVars, ballotVars, job, otherVars>>

(* runTally: the compare and set that completes the cycle, once. *)
Complete(t) ==
    /\ teller[t].at = "counted"
    /\ cycle' = IF cycle.status # "tallying" THEN cycle
                ELSE [cycle EXCEPT !.status = "completed", !.winner = teller[t].winner]
    /\ teller' = [teller EXCEPT ![t] = NoTally]
    /\ UNCHANGED <<seasonVars, eventVars, ballotVars, job, otherVars>>

TallyDies(t) ==
    /\ failures < MaxFailures /\ failures' = failures + 1
    /\ teller[t] # NoTally
    /\ teller' = [teller EXCEPT ![t] = NoTally]
    /\ UNCHANGED <<cycle, seasonVars, eventVars, ballotVars, job, claims, ghostVars, accountVars>>

-----------------------------------------------------------------------------
(* The grand prize. *)

Outranks(u, v) == Score(u) > Score(v) \/ (Score(u) = Score(v) /\ u < v)

(* getPrizeWinners: the top of the leaderboard as it stands now, of the
   active accounts. *)
Winners(n) == {u \in active : Cardinality({v \in active : Outranks(v, u)}) < n}

(* claimPrize; the index on user and cycle refuses a second claim. *)
ClaimPrize(u) ==
    /\ cycle.status = "completed" /\ cycle.winner # None
    /\ u \in Winners(cycle.recipients) \ claims
    /\ claims' = claims \cup {u}
    /\ UNCHANGED <<cycle, seasonVars, eventVars, ballotVars, jobVars, failures, ghostVars,
                   accountVars>>

Next ==
    \/ Activate \/ Seed \/ SeedDies \/ AdminWrites \/ Archive \/ Expire
    \/ \E what \in {"prizes", "recipients"} : AdminReads(what)
    \/ \E o \in Order : AddPoints(o) \/ IncrementSeasonBagProgress(o)
                         \/ Redeliver(o) \/ Swallow(o)
    \/ \E j \in Job : \/ OpenBallot(j) \/ Retry(j) \/ ReadPoints(j) \/ WriteSnapshots(j)
                      \/ SnapshotReady(j) \/ SnapshotDies(j)
    \/ \E r \in Request : InsertVote(r) \/ \E u \in User, p \in Prize : CastVote(r, u, p)
    \/ \E t \in Teller : \/ CloseBallot(t) \/ ManualTally(t) \/ CountVotes(t)
                         \/ Complete(t) \/ TallyDies(t)
    \/ \E u \in User : ClaimPrize(u)
    \/ \E u \in Removable : DeactivateUserLoyalty(u) \/ ReactivateUserLoyalty(u)

Spec == Init /\ [][Next]_vars

BallotSpec == BallotInit /\ [][Next]_vars

-----------------------------------------------------------------------------
(* PROPERTIES *)

(* Whoever runs the tally, and however often, the winner of a completed
   cycle is what its votes give - all of them but some whose request was
   already past its checks when the ballot closed. *)
WinnerIsVotes ==
    cycle.status = "completed" =>
        \E late \in SUBSET inFlight : cycle.winner = Winner(Voters \ late)

(* A vote weighs what its voter's eligibility row says, although two runs
   of the snapshot under different locks read the points at different times
   and the second may write after votes were cast. *)
VoteCarriesSnapshot == \A u \in Voters : vote[u].weight = weight[u]

(* While a season is active and seeded, an order whose event was handled
   without an error is in its progress, whether it came before or after the
   activation, and it is in there once - unless its event was delivered
   again (addPoints is idempotent, the increment is not) or was half handled
   at activation. *)
BagsCountOnce ==
    \A o \in Order :
        /\ counted[o] <= 1 \/ o \in again \cup overlap
        /\ cycle.status = "active" /\ ~seeding /\ ~unseeded
           /\ event[o] = "done" /\ o \notin swallowed
              => counted[o] >= 1

(* "This can no longer be changed: the vote has started": unless an edit
   that had found an earlier status landed late, every vote is for a prize of
   its cycle, and "the top `recipientCount` of the leaderboard" is no more
   than that many claims of the grand prize.  The users are ranked when they
   claim, so this leaves out the claims of the users whose own account has
   earned points, was deactivated or was reactivated since the cycle was
   completed: a winner who claimed and was then deleted leaves room for the
   next. *)
OutcomeAsAnnounced ==
    staleEdit \/
        /\ \A u \in Voters : vote[u].prize \in Editions[cycle.edition]
        /\ Cardinality(claims \ changed) <= cycle.recipients
=============================================================================
