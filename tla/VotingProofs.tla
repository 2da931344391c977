---------------------------- MODULE VotingProofs ----------------------------
(***************************************************************************)
(* The community vote for any users, orders, prizes, snapshot runs, votes  *)
(* in flight and tallies: the types, the bags counted once, the weight a   *)
(* vote carries, the winner the votes give and the outcome as announced.   *)
(***************************************************************************)
EXTENDS Voting, Sums

(* What a process has in hand. *)
JobDoc == [at : {"idle", "due", "read", "written"}, seen : [User -> Weight]]
RequestDoc == [user : User, prize : Prize, weight : Nat]
VoteDoc == [prize : Prize, weight : Nat]
TellerDoc == [at : {"idle", "count", "counted"}, winner : Prize \cup {None}]
CycleDoc == [status : Status, ready : BOOLEAN, edition : 1 .. 2,
             recipients : Recipients, winner : Prize \cup {None}]

SeasonTypes ==
  /\ cycle \in CycleDoc
  /\ seeding \in BOOLEAN
  /\ admin \in [at : {"idle", "prizes", "recipients", "done"}, read : {None, "draft", "active"}]
  /\ failures \in 0 .. MaxFailures

EventTypes ==
  /\ event \in [Order -> {"due", "awarded", "done"}]
  /\ history \in [Order -> {"none", "season", "later"}]
  /\ counted \in [Order -> Nat]

BallotTypes ==
  /\ weight \in [User -> Weight]
  /\ request \in [Request -> {None} \cup RequestDoc]
  /\ vote \in [User -> {None} \cup VoteDoc]

WorkTypes ==
  /\ job \in [Job -> JobDoc]
  /\ teller \in [Teller -> TellerDoc]
  /\ claims \subseteq User /\ active \subseteq User

Types == SeasonTypes /\ EventTypes /\ BallotTypes /\ WorkTypes

-----------------------------------------------------------------------------
(* The inductive invariant, part by part. *)

Early == cycle.status \in {"draft", "active"}
Polled == cycle.status \in {"draft", "active", "open"}

(* An edit has read a status in which the ballot is still closed; the
   prizes are replaced by the one edit there is. *)
EditFits ==
  /\ admin.at \in {"prizes", "recipients"} => admin.read \in {"draft", "active"}
  /\ admin.at # "done" => cycle.edition = 1

(* What happens to a cycle only after its ballot, its tally, its end. *)
SeasonFits ==
  /\ Early => (\A r \in Request : request[r] = None) /\ (\A u \in User : vote[u] = None)
  /\ seeding => cycle.status # "draft"
  /\ claims # {} => cycle.status \in {"completed", "archived"}
  /\ cycle.winner # None => cycle.status \in {"completed", "archived"}
  /\ \A t \in Teller : teller[t].at # "idle" =>
        cycle.status \in {"tallying", "completed", "archived"}

(* An order is counted by the seeding, and once per delivery. *)
Pending(o) == IF event[o] = "done" THEN 0 ELSE 1
Seedable == IF cycle.status = "draft" \/ seeding THEN 1 ELSE 0
CountsFit ==
  \A o \in Order : counted[o] + Pending(o) + Seedable <= failures + 2

(* An order whose event is delivered once, and not across the seeding. *)
OnceFits(o) ==
  /\ counted[o] <= 1
  /\ event[o] # "done" => counted[o] = 0
  /\ event[o] = "due" => history[o] = "none"
  /\ cycle.status = "draft" \/ seeding => counted[o] = 0
  /\ seeding => event[o] # "awarded"

BagsFit ==
  \A o \in Order :
    /\ o \notin again \cup overlap => OnceFits(o)
    /\ event[o] # "due" /\ o \notin swallowed => history[o] # "none"
    /\ cycle.status = "active" /\ ~seeding /\ ~unseeded /\ event[o] = "done" /\ o \notin swallowed
         => counted[o] >= 1

(* A vote, before its insert and after, weighs what the snapshot says and is
   for a prize of the cycle. *)
VotesFit ==
  /\ \A r \in Request : request[r] # None =>
        /\ weight[request[r].user] = request[r].weight
        /\ staleEdit \/ request[r].prize \in Editions[cycle.edition]
  /\ \A u \in User : vote[u] # None =>
        /\ weight[u] = vote[u].weight
        /\ staleEdit \/ vote[u].prize \in Editions[cycle.edition]

(* The first n of some users. *)
Top(users, n) == {u \in users : Cardinality({v \in users : Outranks(v, u)}) < n}

(* Whoever has claimed, on an account that is as it was when the cycle was
   completed, is among the first of all such accounts for good: their points
   are what they were, and they do not become more. *)
Settled == active \ changed
ClaimsFit ==
  \/ staleEdit
  \/ /\ Cardinality(claims \ changed) <= cycle.recipients
     /\ cycle.status = "completed" => claims \ changed \subseteq Top(Settled, cycle.recipients)

(* A vote inserted after the ballot was in flight when it closed. *)
LateFits ==
  ~Polled => \A r \in Request : request[r] # None => request[r].user \in inFlight

(* What a tally found is what the votes give, but for late ones. *)
Found(winner) == \E late \in SUBSET inFlight : winner = Winner(Voters \ late)
TallyFits ==
  /\ \A t \in Teller : teller[t].at = "counted" => Found(teller[t].winner)
  /\ cycle.status = "completed" => Found(cycle.winner)

IInv ==
  /\ Types /\ EditFits /\ SeasonFits /\ CountsFit /\ BagsFit /\ VotesFit
  /\ ClaimsFit /\ LateFits /\ TallyFits

-----------------------------------------------------------------------------
(* Which steps touch what. *)

LEMMA WhoOrders ==
  ASSUME [Next]_vars
  PROVE  \/ UNCHANGED <<event, history, counted, again, swallowed, overlap, seeding, unseeded>>
         \/ Activate \/ Seed \/ SeedDies
         \/ \E o \in Order : \/ AddPoints(o) \/ IncrementSeasonBagProgress(o)
                             \/ Redeliver(o) \/ Swallow(o)
BY ZenonT(40) DEF Next, AdminReads, AdminWrites, Archive, Expire, OpenBallot, Retry, ReadPoints,
       WriteSnapshots, SnapshotReady, SnapshotDies, InsertVote, CastVote, CloseBallot,
       ManualTally, CountVotes, Complete, TallyDies, ClaimPrize,
       DeactivateUserLoyalty, ReactivateUserLoyalty,
       vars, seasonVars, eventVars, ballotVars, jobVars, ghostVars, accountVars, otherVars

LEMMA WhoVotes ==
  ASSUME [Next]_vars
  PROVE  \/ UNCHANGED <<request, vote>>
         \/ \E r \in Request : InsertVote(r) \/ \E u \in User, p \in Prize : CastVote(r, u, p)
BY ZenonT(40) DEF Next, Activate, Seed, SeedDies, AdminReads, AdminWrites, Archive, Expire, AddPoints,
       IncrementSeasonBagProgress, Redeliver, Swallow, OpenBallot, Retry, ReadPoints,
       WriteSnapshots, SnapshotReady, SnapshotDies, CloseBallot, ManualTally, CountVotes,
       Complete, TallyDies, ClaimPrize,
       DeactivateUserLoyalty, ReactivateUserLoyalty,
       vars, seasonVars, eventVars, ballotVars, jobVars, ghostVars, accountVars, otherVars

LEMMA WhoWeighs ==
  ASSUME [Next]_vars
  PROVE  UNCHANGED weight \/ \E j \in Job : WriteSnapshots(j)
BY ZenonT(40) DEF Next, Activate, Seed, SeedDies, AdminReads, AdminWrites, Archive, Expire, AddPoints,
       IncrementSeasonBagProgress, Redeliver, Swallow, OpenBallot, Retry, ReadPoints,
       SnapshotReady, SnapshotDies, InsertVote, CastVote, CloseBallot, ManualTally,
       CountVotes, Complete, TallyDies, ClaimPrize,
       DeactivateUserLoyalty, ReactivateUserLoyalty,
       vars, seasonVars, eventVars, ballotVars, jobVars, ghostVars, accountVars, otherVars

LEMMA WhoSnapshots ==
  ASSUME [Next]_vars
  PROVE  \/ UNCHANGED job
         \/ \E j \in Job : \/ OpenBallot(j) \/ Retry(j) \/ ReadPoints(j) \/ WriteSnapshots(j)
                           \/ SnapshotReady(j) \/ SnapshotDies(j)
BY ZenonT(40) DEF Next, Activate, Seed, SeedDies, AdminReads, AdminWrites, Archive, Expire, AddPoints,
       IncrementSeasonBagProgress, Redeliver, Swallow, InsertVote, CastVote, CloseBallot,
       ManualTally, CountVotes, Complete, TallyDies, ClaimPrize,
       DeactivateUserLoyalty, ReactivateUserLoyalty,
       vars, seasonVars, eventVars, ballotVars, jobVars, ghostVars, accountVars, otherVars

LEMMA WhoTallies ==
  ASSUME [Next]_vars
  PROVE  \/ UNCHANGED <<teller, inFlight>>
         \/ \E t \in Teller : \/ CloseBallot(t) \/ ManualTally(t) \/ CountVotes(t)
                              \/ Complete(t) \/ TallyDies(t)
BY ZenonT(40) DEF Next, Activate, Seed, SeedDies, AdminReads, AdminWrites, Archive, Expire, AddPoints,
       IncrementSeasonBagProgress, Redeliver, Swallow, OpenBallot, Retry, ReadPoints,
       WriteSnapshots, SnapshotReady, SnapshotDies, InsertVote, CastVote, ClaimPrize,
       DeactivateUserLoyalty, ReactivateUserLoyalty,
       vars, seasonVars, eventVars, ballotVars, jobVars, ghostVars, accountVars, otherVars

LEMMA WhoClaims ==
  ASSUME [Next]_vars
  PROVE  UNCHANGED claims \/ \E u \in User : ClaimPrize(u)
BY ZenonT(40) DEF Next, Activate, Seed, SeedDies, AdminReads, AdminWrites, Archive, Expire, AddPoints,
       IncrementSeasonBagProgress, Redeliver, Swallow, OpenBallot, Retry, ReadPoints,
       WriteSnapshots, SnapshotReady, SnapshotDies, InsertVote, CastVote, CloseBallot,
       ManualTally, CountVotes, Complete, TallyDies,
       DeactivateUserLoyalty, ReactivateUserLoyalty,
       vars, seasonVars, eventVars, ballotVars, jobVars, ghostVars, accountVars, otherVars

LEMMA WhoChanges ==
  ASSUME [Next]_vars
  PROVE  \/ UNCHANGED <<active, changed, history>>
         \/ \E o \in Order : AddPoints(o)
         \/ \E u \in Removable : DeactivateUserLoyalty(u) \/ ReactivateUserLoyalty(u)
BY ZenonT(40) DEF Next, Activate, Seed, SeedDies, AdminReads, AdminWrites, Archive, Expire,
       IncrementSeasonBagProgress, Redeliver, Swallow, OpenBallot, Retry, ReadPoints,
       WriteSnapshots, SnapshotReady, SnapshotDies, InsertVote, CastVote, CloseBallot,
       ManualTally, CountVotes, Complete, TallyDies, ClaimPrize,
       vars, seasonVars, eventVars, ballotVars, jobVars, ghostVars, accountVars, otherVars

LEMMA WhoEdits ==
  ASSUME [Next]_vars
  PROVE  \/ UNCHANGED <<admin, staleEdit>>
         \/ AdminWrites \/ \E what \in {"prizes", "recipients"} : AdminReads(what)
BY ZenonT(40) DEF Next, Activate, Seed, SeedDies, Archive, Expire, AddPoints,
       IncrementSeasonBagProgress, Redeliver, Swallow, OpenBallot, Retry, ReadPoints,
       WriteSnapshots, SnapshotReady, SnapshotDies, InsertVote, CastVote, CloseBallot,
       ManualTally, CountVotes, Complete, TallyDies, ClaimPrize,
       DeactivateUserLoyalty, ReactivateUserLoyalty,
       vars, seasonVars, eventVars, ballotVars, jobVars, ghostVars, accountVars, otherVars

LEMMA WhoFails ==
  ASSUME [Next]_vars
  PROVE  \/ UNCHANGED failures
         \/ failures < MaxFailures /\ failures' = failures + 1
<1>1. \/ UNCHANGED failures
      \/ SeedDies \/ \E o \in Order : Redeliver(o) \/ Swallow(o)
      \/ (\E j \in Job : SnapshotDies(j)) \/ \E t \in Teller : TallyDies(t)
  BY ZenonT(40) DEF Next, Activate, Seed, AdminReads, AdminWrites, Archive, Expire, AddPoints,
         IncrementSeasonBagProgress, OpenBallot, Retry, ReadPoints, WriteSnapshots,
         SnapshotReady, InsertVote, CastVote, CloseBallot, ManualTally, CountVotes,
         Complete, ClaimPrize,
         DeactivateUserLoyalty, ReactivateUserLoyalty,
       vars, seasonVars, eventVars, ballotVars, jobVars, ghostVars, accountVars, otherVars
<1>2. SeedDies => failures < MaxFailures /\ failures' = failures + 1
  BY DEF SeedDies
<1>3. \A o \in Order : Redeliver(o) \/ Swallow(o) => failures < MaxFailures /\ failures' = failures + 1
  BY DEF Redeliver, Swallow
<1>4. \A j \in Job : SnapshotDies(j) => failures < MaxFailures /\ failures' = failures + 1
  BY DEF SnapshotDies
<1>5. \A t \in Teller : TallyDies(t) => failures < MaxFailures /\ failures' = failures + 1
  BY DEF TallyDies
<1> QED
  BY <1>1, <1>2, <1>3, <1>4, <1>5

LEMMA WhoMoves ==
  ASSUME [Next]_vars
  PROVE  \/ UNCHANGED cycle
         \/ Activate \/ AdminWrites \/ Archive \/ Expire
         \/ \E j \in Job : OpenBallot(j) \/ SnapshotReady(j)
         \/ \E t \in Teller : CloseBallot(t) \/ Complete(t)
BY ZenonT(40) DEF Next, Seed, SeedDies, AdminReads, AddPoints, IncrementSeasonBagProgress, Redeliver,
       Swallow, Retry, ReadPoints, WriteSnapshots, SnapshotDies, InsertVote, CastVote,
       ManualTally, CountVotes, TallyDies, ClaimPrize,
       DeactivateUserLoyalty, ReactivateUserLoyalty,
       vars, seasonVars, eventVars, ballotVars, jobVars, ghostVars, accountVars, otherVars

-----------------------------------------------------------------------------
(* The document of the cycle. *)

CycleAt(s, b, e, n, x) ==
  [status |-> s, ready |-> b, edition |-> e, recipients |-> n, winner |-> x]

LEMMA CycleWritten ==
  ASSUME cycle \in CycleDoc, NEW s, NEW b, NEW e, NEW n, NEW x
  PROVE  LET c == cycle IN
         /\ [c EXCEPT !.status = s] = CycleAt(s, c.ready, c.edition, c.recipients, c.winner)
         /\ [c EXCEPT !.ready = b] = CycleAt(c.status, b, c.edition, c.recipients, c.winner)
         /\ [c EXCEPT !.edition = e] = CycleAt(c.status, c.ready, e, c.recipients, c.winner)
         /\ [c EXCEPT !.recipients = n] = CycleAt(c.status, c.ready, c.edition, n, c.winner)
         /\ [c EXCEPT !.status = s, !.ready = b]
              = CycleAt(s, b, c.edition, c.recipients, c.winner)
         /\ [c EXCEPT !.status = s, !.winner = x]
              = CycleAt(s, c.ready, c.edition, c.recipients, x)
<1> DEFINE c == cycle
           one == [c EXCEPT !.status = s]
<1>1. one = CycleAt(s, c.ready, c.edition, c.recipients, c.winner)
  BY DEF CycleDoc, CycleAt
<1>2. [c EXCEPT !.ready = b] = CycleAt(c.status, b, c.edition, c.recipients, c.winner)
  BY DEF CycleDoc, CycleAt
<1>3. [c EXCEPT !.edition = e] = CycleAt(c.status, c.ready, e, c.recipients, c.winner)
  BY DEF CycleDoc, CycleAt
<1>4. [c EXCEPT !.recipients = n] = CycleAt(c.status, c.ready, c.edition, n, c.winner)
  BY DEF CycleDoc, CycleAt
<1>5. [one EXCEPT !.ready = b] = CycleAt(s, b, c.edition, c.recipients, c.winner)
  <2> HIDE DEF one
  <2> QED
    BY <1>1 DEF CycleAt
<1>6. [one EXCEPT !.winner = x] = CycleAt(s, c.ready, c.edition, c.recipients, x)
  <2> HIDE DEF one
  <2> QED
    BY <1>1 DEF CycleAt
<1> QED
  BY <1>1, <1>2, <1>3, <1>4, <1>5, <1>6

LEMMA CycleFields ==
  ASSUME NEW s, NEW b, NEW e, NEW n, NEW x
  PROVE  /\ CycleAt(s, b, e, n, x).status = s /\ CycleAt(s, b, e, n, x).ready = b
         /\ CycleAt(s, b, e, n, x).edition = e /\ CycleAt(s, b, e, n, x).recipients = n
         /\ CycleAt(s, b, e, n, x).winner = x
         /\ (s \in Status /\ b \in BOOLEAN /\ e \in 1 .. 2 /\ n \in Recipients
               /\ x \in Prize \cup {None} => CycleAt(s, b, e, n, x) \in CycleDoc)
BY DEF CycleAt, CycleDoc

(* What a step may do to the cycle. *)
Stays == cycle'.edition = cycle.edition /\ cycle'.recipients = cycle.recipients
         /\ cycle'.winner = cycle.winner
Goes(a, b) == cycle.status = a /\ cycle'.status = b

LEMMA CycleSteps ==
  ASSUME Types, EditFits, [Next]_vars
  PROVE  /\ cycle' \in CycleDoc
         /\ \/ UNCHANGED cycle
            \/ Stays /\ cycle'.status = cycle.status
            \/ AdminWrites /\ cycle'.status = cycle.status /\ cycle'.winner = cycle.winner
            \/ Activate /\ Stays /\ Goes("draft", "active")
            \/ Stays /\ (Goes("active", "expired") \/ Goes("active", "open"))
            \/ Stays /\ Goes("open", "tallying") /\ \E t \in Teller : CloseBallot(t)
            \/ /\ Goes("tallying", "completed")
               /\ cycle'.edition = cycle.edition /\ cycle'.recipients = cycle.recipients
               /\ \E t \in Teller : Complete(t) /\ cycle'.winner = teller[t].winner
            \/ Stays /\ (Goes("completed", "archived") \/ Goes("expired", "archived"))
<1>1. /\ cycle \in CycleDoc /\ cycle.status \in Status /\ cycle.ready \in BOOLEAN
      /\ cycle.edition \in 1 .. 2 /\ cycle.recipients \in Recipients
      /\ cycle.winner \in Prize \cup {None}
  BY DEF Types, SeasonTypes, CycleDoc
<1>2. ASSUME NEW s \in Status, cycle' = [cycle EXCEPT !.status = s]
      PROVE  cycle' \in CycleDoc /\ Stays /\ cycle'.status = s
  <2>1. cycle' = CycleAt(s, cycle.ready, cycle.edition, cycle.recipients, cycle.winner)
    BY <1>1, <1>2, CycleWritten
  <2> QED
    BY <1>1, <2>1, CycleFields DEF Stays
<1>3. CASE UNCHANGED cycle
  BY <1>1, <1>3
<1>4. CASE Activate
  BY <1>2, <1>4 DEF Activate, Goes, Status
<1>5. CASE Archive
  BY <1>2, <1>5 DEF Archive, Goes, Status
<1>6. CASE Expire
  BY <1>2, <1>6 DEF Expire, Goes, Status
<1>7. CASE AdminWrites
  <2>1. CASE cycle' = [cycle EXCEPT !.edition = @ + 1] /\ admin.at = "prizes"
    <3>1. cycle.edition = 1
      BY <2>1 DEF EditFits
    <3>2. PICK e \in 1 .. 2 : e = cycle.edition + 1
      BY <3>1
    <3>3. cycle' = [cycle EXCEPT !.edition = e]
      BY <2>1, <3>2
    <3>4. cycle' = CycleAt(cycle.status, cycle.ready, e, cycle.recipients, cycle.winner)
      BY <1>1, <3>3, CycleWritten
    <3> QED
      BY <1>1, <1>7, <3>4, CycleFields
  <2>2. ASSUME NEW n \in Recipients, cycle' = [cycle EXCEPT !.recipients = n]
        PROVE  cycle' \in CycleDoc /\ cycle'.status = cycle.status /\ cycle'.winner = cycle.winner
    <3>1. cycle' = CycleAt(cycle.status, cycle.ready, cycle.edition, n, cycle.winner)
      BY <1>1, <2>2, CycleWritten
    <3> QED
      BY <1>1, <3>1, CycleFields
  <2> QED
    BY <1>7, <2>1, <2>2 DEF AdminWrites
<1>8. ASSUME NEW j \in Job, OpenBallot(j)
      PROVE  cycle' \in CycleDoc /\ Stays /\ Goes("active", "open")
  <2>1. PICK s, b : s = "open" /\ b = FALSE
    OBVIOUS
  <2>2. cycle.status = "active" /\ cycle' = [cycle EXCEPT !.status = s, !.ready = b]
    BY <1>8, <2>1 DEF OpenBallot
  <2>3. cycle' = CycleAt(s, b, cycle.edition, cycle.recipients, cycle.winner)
    BY <1>1, <2>2, CycleWritten
  <2>4. s \in Status /\ b \in BOOLEAN
    BY <2>1 DEF Status
  <2> QED
    BY <1>1, <2>1, <2>2, <2>3, <2>4, CycleFields DEF Stays, Goes
<1>9. ASSUME NEW j \in Job, SnapshotReady(j)
      PROVE  cycle' \in CycleDoc /\ Stays /\ cycle'.status = cycle.status
  <2>1. PICK b : b = TRUE
    OBVIOUS
  <2>2. cycle' = [cycle EXCEPT !.ready = b]
    BY <1>9, <2>1 DEF SnapshotReady
  <2>3. cycle' = CycleAt(cycle.status, b, cycle.edition, cycle.recipients, cycle.winner)
    BY <1>1, <2>2, CycleWritten
  <2>4. b \in BOOLEAN
    BY <2>1
  <2> QED
    BY <1>1, <2>3, <2>4, CycleFields DEF Stays
<1>10. ASSUME NEW t \in Teller, CloseBallot(t)
       PROVE  cycle' \in CycleDoc /\ Stays /\ Goes("open", "tallying")
  BY <1>2, <1>10 DEF CloseBallot, Goes, Status
<1>11. ASSUME NEW t \in Teller, Complete(t), cycle' # cycle
       PROVE  /\ cycle' \in CycleDoc /\ Goes("tallying", "completed")
              /\ cycle'.edition = cycle.edition /\ cycle'.recipients = cycle.recipients
              /\ cycle'.winner = teller[t].winner
  <2>1. PICK s, x : s = "completed" /\ x = teller[t].winner
    OBVIOUS
  <2>2. cycle.status = "tallying" /\ cycle' = [cycle EXCEPT !.status = s, !.winner = x]
    BY <1>11, <2>1 DEF Complete
  <2>3. cycle' = CycleAt(s, cycle.ready, cycle.edition, cycle.recipients, x)
    BY <1>1, <2>2, CycleWritten
  <2>4. s \in Status
    BY <2>1 DEF Status
  <2>5. x \in Prize \cup {None}
    BY <2>1 DEF Types, WorkTypes, TellerDoc
  <2> QED
    BY <1>1, <2>1, <2>2, <2>3, <2>4, <2>5, CycleFields DEF Goes
<1> QED
  BY <1>3, <1>4, <1>5, <1>6, <1>7, <1>8, <1>9, <1>10, <1>11, WhoMoves

-----------------------------------------------------------------------------
(* The types. *)

LEMMA ScoreIsNat ==
  ASSUME NEW u
  PROVE  Score(u) \in Nat
<1>1. PICK S : S = {o \in Order : Owner[o] = u /\ history[o] # "none"}
  OBVIOUS
<1>2. IsFiniteSet(S) /\ \A o \in S : Points[o] \in Nat
  BY <1>1, SeasonAssumption, FS_Subset
<1> QED
  BY <1>1, <1>2, SumIsNat DEF Score

LEMMA NoneIsNoDoc == None \notin Nat /\ None \notin VoteDoc /\ None \notin RequestDoc
BY SeasonAssumption DEF VoteDoc, RequestDoc

LEMMA NoJobType == NoJob \in JobDoc /\ NoJob.at = "idle" /\ [NoJob EXCEPT !.at = "written"] \in JobDoc
BY DEF NoJob, JobDoc, Weight

LEMMA NoTallyType == NoTally \in TellerDoc /\ NoTally.at = "idle"
BY DEF NoTally, TellerDoc

LEMMA OrderTypes ==
  ASSUME EventTypes, [Next]_vars
  PROVE  EventTypes'
<1>1. CASE UNCHANGED <<event, history, counted>>
  BY <1>1 DEF EventTypes
<1>2. CASE Activate \/ SeedDies
  BY <1>2 DEF EventTypes, Activate, SeedDies, eventVars
<1>3. CASE Seed
  <2>1. counted' \in [Order -> Nat]
    BY <1>3 DEF EventTypes, Seed
  <2> QED
    BY <1>3, <2>1 DEF EventTypes, Seed
<1>4. ASSUME NEW o \in Order, AddPoints(o) PROVE EventTypes'
  BY <1>4 DEF EventTypes, AddPoints
<1>5. ASSUME NEW o \in Order, IncrementSeasonBagProgress(o) PROVE EventTypes'
  <2>1. PICK n \in Nat : n = counted[o] + 1
    BY DEF EventTypes
  <2>2. counted' \in [Order -> Nat]
    BY <1>5, <2>1 DEF EventTypes, IncrementSeasonBagProgress
  <2> QED
    BY <1>5, <2>2 DEF EventTypes, IncrementSeasonBagProgress
<1>6. ASSUME NEW o \in Order, Redeliver(o) \/ Swallow(o) PROVE EventTypes'
  BY <1>6 DEF EventTypes, Redeliver, Swallow
<1> QED
  BY <1>1, <1>2, <1>3, <1>4, <1>5, <1>6, WhoOrders

LEMMA SeasonType ==
  ASSUME Types, EditFits, [Next]_vars
  PROVE  SeasonTypes'
<1>1. cycle' \in CycleDoc
  BY CycleSteps
<1>2. seeding' \in BOOLEAN
  <2>1. \A o \in Order :
           AddPoints(o) \/ IncrementSeasonBagProgress(o) \/ Redeliver(o) \/ Swallow(o)
              => seeding' = seeding
    BY DEF AddPoints, IncrementSeasonBagProgress, Redeliver, Swallow, seasonVars
  <2>2. Activate \/ Seed \/ SeedDies => seeding' \in BOOLEAN
    BY DEF Activate, Seed, SeedDies
  <2>3. seeding \in BOOLEAN
    BY DEF Types, SeasonTypes
  <2> QED
    BY <2>1, <2>2, <2>3, WhoOrders
<1>3. admin' \in [at : {"idle", "prizes", "recipients", "done"}, read : {None, "draft", "active"}]
  <2>1. AdminWrites => admin' = [at |-> "done", read |-> None]
    BY DEF AdminWrites
  <2>2. ASSUME NEW what \in {"prizes", "recipients"}, AdminReads(what)
        PROVE  admin' = [at |-> what, read |-> cycle.status] /\ cycle.status \in {"draft", "active"}
    BY <2>2 DEF AdminReads, Editable
  <2>3. admin \in [at : {"idle", "prizes", "recipients", "done"}, read : {None, "draft", "active"}]
    BY DEF Types, SeasonTypes
  <2> QED
    BY <2>1, <2>2, <2>3, WhoEdits
<1>4. failures' \in 0 .. MaxFailures
  <2>1. failures \in 0 .. MaxFailures /\ MaxFailures \in Nat
    BY SeasonAssumption DEF Types, SeasonTypes
  <2> QED
    BY <2>1, WhoFails
<1> QED
  BY <1>1, <1>2, <1>3, <1>4 DEF SeasonTypes

LEMMA WeightType ==
  ASSUME Types, [Next]_vars
  PROVE  weight' \in [User -> Weight]
<1>1. weight \in [User -> Weight]
  BY DEF Types, BallotTypes
<1>2. ASSUME NEW j \in Job, WriteSnapshots(j) PROVE weight' \in [User -> Weight]
  <2>1. job[j].seen \in [User -> Weight]
    BY DEF Types, WorkTypes, JobDoc
  <2> QED
    BY <1>1, <1>2, <2>1 DEF WriteSnapshots, Upserted
<1> QED
  BY <1>1, <1>2, WhoWeighs

LEMMA BallotType ==
  ASSUME Types, [Next]_vars
  PROVE  BallotTypes'
<1>1. /\ request \in [Request -> {None} \cup RequestDoc] /\ vote \in [User -> {None} \cup VoteDoc]
      /\ weight \in [User -> Weight]
  BY DEF Types, BallotTypes
<1>2. ASSUME NEW r \in Request, InsertVote(r)
      PROVE  /\ request' \in [Request -> {None} \cup RequestDoc]
             /\ vote' \in [User -> {None} \cup VoteDoc]
  <2>1. PICK q \in RequestDoc : q = request[r]
    BY <1>1, <1>2 DEF InsertVote
  <2>2. PICK v \in VoteDoc : v = [prize |-> q.prize, weight |-> q.weight]
    BY <2>1 DEF RequestDoc, VoteDoc
  <2>3. vote' = vote \/ vote' = [vote EXCEPT ![q.user] = v]
    BY <1>2, <2>1, <2>2 DEF InsertVote
  <2> QED
    BY <1>1, <1>2, <2>3 DEF InsertVote
<1>3. ASSUME NEW r \in Request, NEW u \in User, NEW p \in Prize, CastVote(r, u, p)
      PROVE  /\ request' \in [Request -> {None} \cup RequestDoc]
             /\ vote' \in [User -> {None} \cup VoteDoc]
  <2>1. weight[u] \in Nat
    BY <1>1, <1>3 DEF CastVote, Weight
  <2>2. [user |-> u, prize |-> p, weight |-> weight[u]] \in RequestDoc
    BY <2>1 DEF RequestDoc
  <2> QED
    BY <1>1, <1>3, <2>2 DEF CastVote
<1>4. /\ request' \in [Request -> {None} \cup RequestDoc]
      /\ vote' \in [User -> {None} \cup VoteDoc]
  BY <1>1, <1>2, <1>3, WhoVotes
<1> QED
  BY <1>4, WeightType DEF BallotTypes

LEMMA JobType ==
  ASSUME Types, [Next]_vars
  PROVE  job' \in [Job -> JobDoc]
<1>1. job \in [Job -> JobDoc]
  BY DEF Types, WorkTypes
<1>2. ASSUME NEW j \in Job, OpenBallot(j) \/ Retry(j) PROVE job' \in [Job -> JobDoc]
  <2>1. job' = [job EXCEPT ![j].at = "due"]
    BY <1>2 DEF OpenBallot, Retry
  <2> QED
    BY <1>1, <2>1 DEF JobDoc
<1>3. ASSUME NEW j \in Job, ReadPoints(j) PROVE job' \in [Job -> JobDoc]
  <2>1. PICK doc : doc = [at |-> "read",
                  seen |-> [u \in User |-> IF Bags(u) >= MinimumBags THEN Score(u) ELSE None]]
    OBVIOUS
  <2>2. doc \in JobDoc
    BY <2>1, ScoreIsNat DEF JobDoc, Weight
  <2>3. job' = [job EXCEPT ![j] = doc]
    BY <1>3, <2>1 DEF ReadPoints
  <2> QED
    BY <1>1, <2>2, <2>3
<1>4. ASSUME NEW j \in Job, WriteSnapshots(j) \/ SnapshotReady(j) \/ SnapshotDies(j)
      PROVE  job' \in [Job -> JobDoc]
  <2>1. PICK doc \in JobDoc : job' = [job EXCEPT ![j] = doc]
    BY <1>4, NoJobType DEF WriteSnapshots, SnapshotReady, SnapshotDies
  <2> QED
    BY <1>1, <2>1
<1> QED
  BY <1>1, <1>2, <1>3, <1>4, WhoSnapshots

-----------------------------------------------------------------------------
(* The winner of a vote, as a function of the votes. *)

VotesFor(f, p, V) == {u \in V : f[u].prize = p}
TotalOf(f, p, V) == SumFunctionOnSet([u \in V |-> f[u].weight], VotesFor(f, p, V))
BeatsIn(f, p, q, V) ==
  \/ TotalOf(f, p, V) > TotalOf(f, q, V)
  \/ /\ TotalOf(f, p, V) = TotalOf(f, q, V)
     /\ \/ Cardinality(VotesFor(f, p, V)) > Cardinality(VotesFor(f, q, V))
        \/ Cardinality(VotesFor(f, p, V)) = Cardinality(VotesFor(f, q, V)) /\ p < q
Chosen(f, V) == {f[u].prize : u \in V}
WinnerOf(f, V) ==
  IF V = {} THEN None
  ELSE CHOOSE p \in Chosen(f, V) : \A q \in Chosen(f, V) \ {p} : BeatsIn(f, p, q, V)

LEMMA WinnerIsOf ==
  ASSUME NEW V
  PROVE  Winner(V) = WinnerOf(vote, V) /\ Winner(V)' = WinnerOf(vote', V)
BY DEF Winner, WinnerOf, Chosen, Beats, BeatsIn, Total, TotalOf, For, VotesFor

(* A strict total order has a first element in every finite set. *)
LEMMA FirstExists ==
  ASSUME NEW S, IsFiniteSet(S), S # {}, NEW R,
         \A x, y \in S : x = y \/ <<x, y>> \in R \/ <<y, x>> \in R,
         \A x, y, z \in S : <<x, y>> \in R /\ <<y, z>> \in R => <<x, z>> \in R
  PROVE  \E x \in S : \A y \in S \ {x} : <<x, y>> \in R
<1> DEFINE First(s) == \E x \in s : \A y \in s \ {x} : <<x, y>> \in R
           B == {s \in SUBSET S : s # {} /\ ~First(s)}
<1> SUFFICES ASSUME B # {} PROVE FALSE
  OBVIOUS
<1>1. B \subseteq SUBSET S
  OBVIOUS
<1> HIDE DEF B
<1>2. PICK s \in B : \A t \in B : t \subseteq s => t = s
  BY <1>1, MinimalSubset
<1> USE DEF B
<1>3. s \subseteq S /\ s # {} /\ ~First(s)
  OBVIOUS
<1>4. PICK x \in s : TRUE
  BY <1>3
<1>5. CASE s \ {x} = {}
  BY <1>3, <1>4, <1>5
<1>6. CASE s \ {x} # {}
  <2>1. First(s \ {x})
    <3>1. s \ {x} \in SUBSET S /\ s \ {x} # s /\ s \ {x} \subseteq s
      BY <1>3, <1>4
    <3>2. s \ {x} \notin B
      BY <1>2, <3>1
    <3> QED
      BY <1>6, <3>1, <3>2
  <2>2. PICK b \in s \ {x} : \A y \in (s \ {x}) \ {b} : <<b, y>> \in R
    BY <2>1
  <2>3. CASE <<b, x>> \in R
    <3>1. \A y \in s \ {b} : <<b, y>> \in R
      BY <2>2, <2>3
    <3> QED
      BY <1>3, <2>2, <3>1
  <2>4. CASE <<x, b>> \in R
    <3>1. \A y \in s \ {x} : <<x, y>> \in R
      BY <1>3, <2>2, <2>4
    <3> QED
      BY <1>3, <1>4, <3>1
  <2> QED
    BY <1>3, <2>2, <2>3, <2>4
<1> QED
  BY <1>5, <1>6

LEMMA VotesAreNat ==
  ASSUME NEW V, IsFiniteSet(V), NEW f, \A u \in V : f[u] \in VoteDoc, NEW p
  PROVE  TotalOf(f, p, V) \in Nat /\ Cardinality(VotesFor(f, p, V)) \in Nat
<1>1. PICK S, g : S = VotesFor(f, p, V) /\ g = [u \in V |-> f[u].weight]
  OBVIOUS
<1>2. S \subseteq V
  BY <1>1 DEF VotesFor
<1>3. IsFiniteSet(S)
  BY <1>2, FS_Subset
<1>4. \A u \in S : g[u] \in Nat
  BY <1>1, <1>2 DEF VoteDoc
<1>5. SumFunctionOnSet(g, S) \in Nat
  BY <1>3, <1>4, SumIsNat
<1> QED
  BY <1>1, <1>3, <1>5, FS_CardinalityType DEF TotalOf

(* The sort of the tally is a strict total order. *)
LEMMA BeatsOrders ==
  ASSUME NEW V, IsFiniteSet(V), NEW f, \A u \in V : f[u] \in VoteDoc,
         NEW p \in Prize, NEW q \in Prize, NEW r \in Prize
  PROVE  /\ p = q \/ BeatsIn(f, p, q, V) \/ BeatsIn(f, q, p, V)
         /\ ~(BeatsIn(f, p, q, V) /\ BeatsIn(f, q, p, V))
         /\ BeatsIn(f, p, q, V) /\ BeatsIn(f, q, r, V) => BeatsIn(f, p, r, V)
<1>1. PICK a, b, c, i, j, k :
         /\ a = TotalOf(f, p, V) /\ b = TotalOf(f, q, V) /\ c = TotalOf(f, r, V)
         /\ i = Cardinality(VotesFor(f, p, V)) /\ j = Cardinality(VotesFor(f, q, V))
         /\ k = Cardinality(VotesFor(f, r, V))
  OBVIOUS
<1>2. a \in Nat /\ b \in Nat /\ c \in Nat /\ i \in Nat /\ j \in Nat /\ k \in Nat
  BY <1>1, VotesAreNat
<1>3. p \in Nat /\ q \in Nat /\ r \in Nat
  BY SeasonAssumption
<1>4. /\ BeatsIn(f, p, q, V) <=> a > b \/ (a = b /\ (i > j \/ (i = j /\ p < q)))
      /\ BeatsIn(f, q, p, V) <=> b > a \/ (b = a /\ (j > i \/ (j = i /\ q < p)))
      /\ BeatsIn(f, q, r, V) <=> b > c \/ (b = c /\ (j > k \/ (j = k /\ q < r)))
      /\ BeatsIn(f, p, r, V) <=> a > c \/ (a = c /\ (i > k \/ (i = k /\ p < r)))
  BY <1>1 DEF BeatsIn
<1> QED
  BY <1>2, <1>3, <1>4

(* The tally of some votes finds the one prize that beats the others. *)
LEMMA WinnerIsBest ==
  ASSUME NEW V, V \subseteq User, V # {}, NEW f, \A u \in V : f[u] \in VoteDoc
  PROVE  LET w == WinnerOf(f, V) IN
         /\ w \in Chosen(f, V) /\ w \in Prize
         /\ \A q \in Chosen(f, V) \ {w} : BeatsIn(f, w, q, V)
<1> DEFINE C == Chosen(f, V)
           R == {x \in Prize \X Prize : BeatsIn(f, x[1], x[2], V)}
<1>1. IsFiniteSet(V)
  BY SeasonAssumption, FS_Subset
<1>2. IsFiniteSet(C) /\ C # {} /\ C \subseteq Prize
  <2>1. PICK g : g = [u \in V |-> f[u].prize]
    OBVIOUS
  <2>2. g \in Surjection(V, C)
    BY <2>1 DEF Surjection, Chosen
  <2>3. IsFiniteSet(C)
    BY <1>1, <2>2, FS_Surjection
  <2> QED
    BY <2>3 DEF Chosen, VoteDoc
<1>3. \A p, q \in Prize : <<p, q>> \in R <=> BeatsIn(f, p, q, V)
  OBVIOUS
<1> HIDE DEF C, R
<1>4. \A x, y \in C : x = y \/ <<x, y>> \in R \/ <<y, x>> \in R
  BY <1>1, <1>2, <1>3, BeatsOrders
<1>5. \A x, y, z \in C : <<x, y>> \in R /\ <<y, z>> \in R => <<x, z>> \in R
  BY <1>1, <1>2, <1>3, BeatsOrders
<1>6. \E p \in C : \A q \in C \ {p} : <<p, q>> \in R
  BY <1>2, <1>4, <1>5, FirstExists
<1>7. \E p \in C : \A q \in C \ {p} : BeatsIn(f, p, q, V)
  BY <1>2, <1>3, <1>6
<1>8. WinnerOf(f, V) = CHOOSE p \in C : \A q \in C \ {p} : BeatsIn(f, p, q, V)
  BY DEF WinnerOf, C
<1>9. /\ WinnerOf(f, V) \in C
      /\ \A q \in C \ {WinnerOf(f, V)} : BeatsIn(f, WinnerOf(f, V), q, V)
  BY <1>7, <1>8, Zenon
<1> QED
  BY <1>2, <1>9 DEF C

(* The winner depends on the votes counted only. *)
LEMMA WinnerStays ==
  ASSUME NEW V, V \subseteq User, NEW f, NEW g,
         \A u \in V : f[u] \in VoteDoc /\ g[u] = f[u]
  PROVE  WinnerOf(g, V) = WinnerOf(f, V)
<1>1. CASE V = {}
  BY <1>1 DEF WinnerOf
<1>2. CASE V # {}
  <2>1. Chosen(g, V) = Chosen(f, V)
    BY DEF Chosen
  <2>2. [u \in V |-> g[u].weight] = [u \in V |-> f[u].weight]
    OBVIOUS
  <2>3. ASSUME NEW p PROVE VotesFor(g, p, V) = VotesFor(f, p, V)
    BY DEF VotesFor
  <2>4. ASSUME NEW p PROVE TotalOf(g, p, V) = TotalOf(f, p, V)
    BY <2>2, <2>3 DEF TotalOf
  <2>5. ASSUME NEW p, NEW q, BeatsIn(g, p, q, V) PROVE BeatsIn(f, p, q, V)
    <3>1. VotesFor(g, p, V) = VotesFor(f, p, V) /\ VotesFor(g, q, V) = VotesFor(f, q, V)
      BY <2>3
    <3>2. TotalOf(g, p, V) = TotalOf(f, p, V) /\ TotalOf(g, q, V) = TotalOf(f, q, V)
      BY <2>4
    <3> QED
      BY <2>5, <3>1, <3>2 DEF BeatsIn
  <2>6. PICK x, y : x = WinnerOf(f, V) /\ y = WinnerOf(g, V)
    OBVIOUS
  <2>7. /\ x \in Chosen(f, V) /\ x \in Prize
        /\ \A q \in Chosen(f, V) \ {x} : BeatsIn(f, x, q, V)
    BY <1>2, <2>6, WinnerIsBest
  <2>8. /\ y \in Chosen(g, V) /\ y \in Prize
        /\ \A q \in Chosen(g, V) \ {y} : BeatsIn(g, y, q, V)
    BY <1>2, <2>6, WinnerIsBest
  <2>9. IsFiniteSet(V)
    BY SeasonAssumption, FS_Subset
  <2>10. x = y
    <3> SUFFICES ASSUME x # y PROVE FALSE
      OBVIOUS
    <3>1. BeatsIn(f, x, y, V)
      BY <2>1, <2>7, <2>8
    <3>2. BeatsIn(f, y, x, V)
      BY <2>1, <2>5, <2>7, <2>8
    <3> QED
      BY <2>7, <2>8, <2>9, <3>1, <3>2, BeatsOrders
  <2> QED
    BY <2>6, <2>10
<1> QED
  BY <1>1, <1>2

LEMMA WinnerType ==
  ASSUME Types
  PROVE  Winner(Voters) \in Prize \cup {None}
<1>1. PICK V, f : V = Voters /\ f = vote
  OBVIOUS
<1>2. V \subseteq User /\ \A u \in V : f[u] \in VoteDoc
  BY <1>1 DEF Voters, Types, BallotTypes
<1>3. WinnerOf(f, V) \in Prize \cup {None}
  BY <1>2, WinnerIsBest DEF WinnerOf
<1> QED
  BY <1>1, <1>3, WinnerIsOf

(* A tally starts, finds a winner, or ends. *)
LEMMA TellerSteps ==
  ASSUME Types, NEW t \in Teller
  PROVE  /\ CloseBallot(t) \/ ManualTally(t) => \E doc \in TellerDoc :
              doc.at = "count" /\ teller' = [teller EXCEPT ![t] = doc]
         /\ CountVotes(t) => \E doc \in TellerDoc :
              /\ doc.at = "counted" /\ doc.winner = Winner(Voters)
              /\ teller' = [teller EXCEPT ![t] = doc]
         /\ Complete(t) \/ TallyDies(t) => \E doc \in TellerDoc :
              doc.at = "idle" /\ teller' = [teller EXCEPT ![t] = doc]
<1>1. teller \in [Teller -> TellerDoc]
  BY DEF Types, WorkTypes
<1>2. ASSUME CloseBallot(t) \/ ManualTally(t)
      PROVE  \E doc \in TellerDoc : doc.at = "count" /\ teller' = [teller EXCEPT ![t] = doc]
  <2>1. PICK doc : doc = [teller[t] EXCEPT !.at = "count"]
    OBVIOUS
  <2>2. doc \in TellerDoc /\ doc.at = "count"
    BY <1>1, <2>1 DEF TellerDoc
  <2>3. teller' = [teller EXCEPT ![t] = doc]
    BY <1>2, <2>1 DEF CloseBallot, ManualTally
  <2> QED
    BY <2>2, <2>3
<1>3. ASSUME CountVotes(t)
      PROVE  \E doc \in TellerDoc : /\ doc.at = "counted" /\ doc.winner = Winner(Voters)
                                    /\ teller' = [teller EXCEPT ![t] = doc]
  <2>1. PICK doc : doc = [at |-> "counted", winner |-> Winner(Voters)]
    OBVIOUS
  <2>2. doc \in TellerDoc /\ doc.at = "counted" /\ doc.winner = Winner(Voters)
    BY <2>1, WinnerType DEF TellerDoc
  <2>3. teller' = [teller EXCEPT ![t] = doc]
    BY <1>3, <2>1 DEF CountVotes
  <2> QED
    BY <2>2, <2>3
<1>4. ASSUME Complete(t) \/ TallyDies(t)
      PROVE  \E doc \in TellerDoc : doc.at = "idle" /\ teller' = [teller EXCEPT ![t] = doc]
  BY <1>4, NoTallyType DEF Complete, TallyDies
<1> QED
  BY <1>2, <1>3, <1>4

LEMMA WorkType ==
  ASSUME Types, [Next]_vars
  PROVE  WorkTypes'
<1>1. teller \in [Teller -> TellerDoc] /\ claims \subseteq User /\ active \subseteq User
  BY DEF Types, WorkTypes
<1>2. ASSUME NEW t \in Teller,
             CloseBallot(t) \/ ManualTally(t) \/ CountVotes(t) \/ Complete(t) \/ TallyDies(t)
      PROVE  teller' \in [Teller -> TellerDoc]
  <2>1. PICK doc \in TellerDoc : teller' = [teller EXCEPT ![t] = doc]
    BY <1>2, TellerSteps
  <2> QED
    BY <1>1, <2>1
<1>3. teller' \in [Teller -> TellerDoc]
  BY <1>1, <1>2, WhoTallies
<1>4. claims' \subseteq User
  BY <1>1, WhoClaims DEF ClaimPrize
<1>5. active' \subseteq User
  BY <1>1, WhoChanges, SeasonAssumption
     DEF AddPoints, DeactivateUserLoyalty, ReactivateUserLoyalty
<1> QED
  BY <1>3, <1>4, <1>5, JobType DEF WorkTypes

LEMMA NextTypes == Types /\ EditFits /\ [Next]_vars => Types'
BY OrderTypes, SeasonType, BallotType, WorkType DEF Types

LEMMA NextEdit ==
  ASSUME Types, EditFits, [Next]_vars
  PROVE  EditFits'
<1>1. CASE AdminWrites
  <2>1. admin' = [at |-> "done", read |-> None]
    BY <1>1 DEF AdminWrites
  <2> QED
    BY <2>1 DEF EditFits
<1>2. CASE ~AdminWrites
  <2>1. cycle'.edition = cycle.edition
    BY <1>2, CycleSteps DEF Stays
  <2>2. CASE admin' = admin
    BY <2>1, <2>2 DEF EditFits
  <2>3. ASSUME NEW what \in {"prizes", "recipients"}, AdminReads(what) PROVE EditFits'
    <3>1. /\ admin' = [at |-> what, read |-> cycle.status]
          /\ cycle.status \in {"draft", "active"} /\ admin.at = "idle"
      BY <2>3 DEF AdminReads, Editable, NoAdmin
    <3> QED
      BY <2>1, <3>1 DEF EditFits
  <2> QED
    BY <1>2, <2>2, <2>3, WhoEdits
<1> QED
  BY <1>1, <1>2

-----------------------------------------------------------------------------
(* What comes after the ballot only. *)

LEMMA NextSeason ==
  ASSUME Types, EditFits, SeasonFits, [Next]_vars
  PROVE  SeasonFits'
<1>1. (Early' => Early) /\ (cycle.status \in {"completed", "archived"}
                               => cycle'.status \in {"completed", "archived"})
  BY CycleSteps DEF Early, Stays, Goes
<1>2. ASSUME Early' PROVE (\A r \in Request : request'[r] = None) /\ (\A u \in User : vote'[u] = None)
  <2>1. Early /\ (\A r \in Request : request[r] = None) /\ (\A u \in User : vote[u] = None)
    BY <1>1, <1>2 DEF SeasonFits
  <2>2. \A r \in Request : ~InsertVote(r) /\ \A u \in User, p \in Prize : ~CastVote(r, u, p)
    BY <2>1 DEF InsertVote, CastVote, Accepts, Early
  <2> QED
    BY <2>1, <2>2, WhoVotes
<1>3. claims' # {} => cycle'.status \in {"completed", "archived"}
  <2>1. CASE claims' = claims
    BY <1>1, <2>1 DEF SeasonFits
  <2>2. ASSUME NEW u \in User, ClaimPrize(u) PROVE cycle'.status = "completed"
    BY <2>2 DEF ClaimPrize
  <2> QED
    BY <2>1, <2>2, WhoClaims
<1>4. cycle'.winner # None => cycle'.status \in {"completed", "archived"}
  <2>1. \/ cycle'.winner = cycle.winner
        \/ cycle'.status = "completed"
    BY CycleSteps DEF Stays, Goes
  <2> QED
    BY <1>1, <2>1 DEF SeasonFits
<1>5. ASSUME NEW t \in Teller, teller'[t].at # "idle"
      PROVE  cycle'.status \in {"tallying", "completed", "archived"}
  <2>1. cycle.status \in {"tallying", "completed", "archived"}
           => cycle'.status \in {"tallying", "completed", "archived"}
    BY CycleSteps DEF Stays, Goes
  <2>2. CASE teller'[t] = teller[t]
    BY <1>5, <2>1, <2>2 DEF SeasonFits
  <2>3. CASE teller'[t] # teller[t]
    <3>1. teller \in [Teller -> TellerDoc]
      BY DEF Types, WorkTypes
    <3>2. PICK s \in Teller :
             CloseBallot(s) \/ ManualTally(s) \/ CountVotes(s) \/ Complete(s) \/ TallyDies(s)
      BY <2>3, WhoTallies
    <3>3. s = t
      <4>1. PICK doc \in TellerDoc : teller' = [teller EXCEPT ![s] = doc]
        BY <3>2, TellerSteps
      <4> QED
        BY <2>3, <3>1, <4>1
    <3>4. CASE CloseBallot(s)
      <4>1. PICK a : a = "tallying" /\ cycle' = [cycle EXCEPT !.status = a]
        BY <3>4 DEF CloseBallot
      <4>2. cycle'.status = a
        BY <4>1 DEF Types, SeasonTypes, CycleDoc
      <4> QED
        BY <4>1, <4>2
    <3>5. CASE ManualTally(s)
      BY <3>5 DEF ManualTally
    <3>6. CASE CountVotes(s)
      <4>1. teller[t].at # "idle"
        BY <3>3, <3>6 DEF CountVotes
      <4> QED
        BY <2>1, <4>1 DEF SeasonFits
    <3>7. CASE Complete(s) \/ TallyDies(s)
      BY <1>5, <3>1, <3>3, <3>7, TellerSteps
    <3> QED
      BY <3>2, <3>4, <3>5, <3>6, <3>7
  <2> QED
    BY <2>2, <2>3
<1>6. ASSUME seeding' PROVE cycle'.status # "draft"
  <2>1. cycle'.status = "draft" => cycle.status = "draft" /\ ~Activate
    <3>1. Activate => cycle'.status = "active"
      BY DEF Activate, Types, SeasonTypes, CycleDoc
    <3> QED
      BY <3>1, CycleSteps DEF Stays, Goes
  <2>2. seeding => cycle.status # "draft"
    BY DEF SeasonFits
  <2>3. \A o \in Order :
           AddPoints(o) \/ IncrementSeasonBagProgress(o) \/ Redeliver(o) \/ Swallow(o)
              => seeding' = seeding
    BY DEF AddPoints, IncrementSeasonBagProgress, Redeliver, Swallow, seasonVars
  <2>4. ~Seed /\ ~SeedDies
    BY <1>6 DEF Seed, SeedDies
  <2> QED
    BY <1>6, <2>1, <2>2, <2>3, <2>4, WhoOrders
<1> QED
  BY <1>2, <1>3, <1>4, <1>5, <1>6 DEF SeasonFits

-----------------------------------------------------------------------------
(* The bags of the season. *)

(* What a step does to one order. *)
LEMMA OrderRead ==
  ASSUME Types, NEW o \in Order
  PROVE  /\ event[o] \in {"due", "awarded", "done"}
         /\ history[o] \in {"none", "season", "later"} /\ counted[o] \in Nat
         /\ failures \in Nat /\ seeding \in BOOLEAN
BY SeasonAssumption DEF Types, EventTypes, SeasonTypes

LEMMA CountsStay ==
  ASSUME Types, EditFits, [Next]_vars, NEW o \in Order, CountsFit,
         event'[o] = event[o], counted'[o] = counted[o], Seedable' <= Seedable
  PROVE  counted'[o] + Pending(o)' + Seedable' <= failures' + 2
<1>1. counted[o] + Pending(o) + Seedable <= failures + 2
  BY DEF CountsFit
<1>2. Pending(o)' = Pending(o) /\ Pending(o) \in {0, 1}
  BY DEF Pending
<1>3. Seedable \in {0, 1} /\ Seedable' \in {0, 1}
  BY DEF Seedable
<1>4. failures' = failures \/ failures' = failures + 1
  BY WhoFails
<1> QED
  BY <1>1, <1>2, <1>3, <1>4, OrderRead

(* No step makes the seeding possible again. *)
LEMMA SeedsOnce ==
  ASSUME Types, EditFits, [Next]_vars
  PROVE  Seedable' <= Seedable /\ (Seed => seeding /\ ~seeding' /\ cycle' = cycle)
<1>1. cycle'.status = "draft" => cycle.status = "draft"
  BY CycleSteps DEF Stays, Goes
<1>2. Seed => seeding /\ ~seeding' /\ cycle' = cycle
  BY DEF Seed
<1>3. seeding' => seeding \/ cycle.status = "draft"
  <2>1. \A o \in Order :
           AddPoints(o) \/ IncrementSeasonBagProgress(o) \/ Redeliver(o) \/ Swallow(o)
              => seeding' = seeding
    BY DEF AddPoints, IncrementSeasonBagProgress, Redeliver, Swallow, seasonVars
  <2>2. Activate => cycle.status = "draft"
    BY DEF Activate
  <2>3. Seed \/ SeedDies => ~seeding'
    BY DEF Seed, SeedDies
  <2> QED
    BY <2>1, <2>2, <2>3, WhoOrders
<1> QED
  BY <1>1, <1>2, <1>3 DEF Seedable

LEMMA NextCounts ==
  ASSUME Types, EditFits, SeasonFits, CountsFit, [Next]_vars
  PROVE  CountsFit'
<1> SUFFICES ASSUME NEW o \in Order
             PROVE  counted'[o] + Pending(o)' + Seedable' <= failures' + 2
  BY DEF CountsFit
<1>1. counted[o] + Pending(o) + Seedable <= failures + 2
  BY DEF CountsFit
<1>2. Seedable \in {0, 1} /\ Seedable' \in {0, 1} /\ Seedable' <= Seedable
  BY SeedsOnce DEF Seedable
<1>3. Pending(o) \in {0, 1} /\ Pending(o)' \in {0, 1}
  BY DEF Pending
<1>4. /\ event[o] \in {"due", "awarded", "done"} /\ counted[o] \in Nat /\ failures \in Nat
      /\ event \in [Order -> {"due", "awarded", "done"}] /\ counted \in [Order -> Nat]
  BY OrderRead DEF Types, EventTypes
<1>5. CASE event'[o] = event[o] /\ counted'[o] = counted[o]
  BY <1>2, <1>5, CountsStay
<1>6. CASE Seed
  <2>1. cycle'.status = cycle.status /\ seeding /\ ~seeding' /\ failures' = failures
    BY <1>6 DEF Seed, otherVars
  <2>2. counted'[o] = counted[o] \/ counted'[o] = counted[o] + 1
    BY <1>4, <1>6 DEF Seed
  <2>3. Pending(o)' = Pending(o)
    BY <1>6 DEF Seed, Pending
  <2>4. Seedable = 1 /\ Seedable' = 0
    BY <2>1 DEF Seedable, SeasonFits
  <2> QED
    BY <1>1, <1>2, <1>3, <1>4, <2>1, <2>2, <2>3, <2>4
<1>7. ASSUME NEW x \in Order, AddPoints(x) PROVE counted'[o] + Pending(o)' + Seedable' <= failures' + 2
  <2>1. counted' = counted /\ failures' = failures /\ Pending(o)' = Pending(o)
    BY <1>4, <1>7 DEF AddPoints, Pending
  <2> QED
    BY <1>1, <1>2, <1>3, <1>4, <2>1
<1>8. ASSUME NEW x \in Order, IncrementSeasonBagProgress(x)
      PROVE counted'[o] + Pending(o)' + Seedable' <= failures' + 2
  <2>1. CASE x # o
    <3>1. event'[o] = event[o] /\ counted'[o] = counted[o]
      BY <1>4, <1>8, <2>1 DEF IncrementSeasonBagProgress
    <3> QED
      BY <1>5, <3>1
  <2>2. CASE x = o
    <3>1. Pending(o) = 1 /\ Pending(o)' = 0 /\ failures' = failures
      BY <1>4, <1>8, <2>2 DEF IncrementSeasonBagProgress, Pending, otherVars
    <3>2. counted'[o] = counted[o] \/ counted'[o] = counted[o] + 1
      BY <1>4, <1>8, <2>2 DEF IncrementSeasonBagProgress
    <3> QED
      BY <1>1, <1>2, <1>4, <3>1, <3>2
  <2> QED
    BY <2>1, <2>2
<1>9. ASSUME NEW x \in Order, Redeliver(x) \/ Swallow(x)
      PROVE counted'[o] + Pending(o)' + Seedable' <= failures' + 2
  <2>1. counted' = counted /\ failures' = failures + 1
    BY <1>9 DEF Redeliver, Swallow
  <2> QED
    BY <1>1, <1>2, <1>3, <1>4, <2>1
<1>10. CASE Activate \/ SeedDies
  BY <1>5, <1>10 DEF Activate, SeedDies, eventVars
<1> QED
  BY <1>5, <1>6, <1>7, <1>8, <1>9, <1>10, WhoOrders

LEMMA NextBags ==
  ASSUME Types, EditFits, SeasonFits, BagsFit, [Next]_vars
  PROVE  BagsFit'
<1>1. CASE Activate
  <2>1. /\ cycle.status = "draft" /\ seeding' = TRUE /\ overlap' = overlap \cup {o \in Order : event[o] = "awarded"}
        /\ UNCHANGED <<event, history, counted, again, swallowed>>
    BY <1>1 DEF Activate
  <2>2. ASSUME NEW o \in Order, o \notin again' \cup overlap' PROVE OnceFits(o)'
    <3>1. OnceFits(o) /\ event[o] # "awarded"
      BY <2>1, <2>2 DEF BagsFit
    <3> QED
      BY <2>1, <3>1 DEF OnceFits
  <2> QED
    BY <2>1, <2>2 DEF BagsFit
<1>2. CASE Seed
  <2>1. /\ seeding /\ seeding' = FALSE /\ cycle' = cycle
        /\ counted' = [o \in Order |-> IF history[o] = "none" THEN counted[o] ELSE counted[o] + 1]
        /\ UNCHANGED <<event, history, again, swallowed, overlap>>
    BY <1>2 DEF Seed
  <2>2. ASSUME NEW o \in Order, o \notin again' \cup overlap' PROVE OnceFits(o)'
    <3>1. OnceFits(o)
      BY <2>1, <2>2 DEF BagsFit
    <3>2. counted[o] = 0 /\ event[o] # "awarded" /\ (event[o] = "due" => history[o] = "none")
      BY <2>1, <3>1 DEF OnceFits
    <3>3. event[o] \in {"due", "awarded", "done"} /\ cycle.status # "draft"
      BY <2>1, OrderRead DEF SeasonFits
    <3> QED
      BY <2>1, <3>2, <3>3 DEF OnceFits
  <2>3. ASSUME NEW o \in Order
        PROVE  /\ event'[o] # "due" /\ o \notin swallowed' => history'[o] # "none"
               /\ event'[o] = "done" /\ o \notin swallowed' => counted'[o] >= 1
    <3>1. counted[o] \in Nat
      BY OrderRead
    <3>2. event[o] # "due" /\ o \notin swallowed => history[o] # "none"
      BY DEF BagsFit
    <3> QED
      BY <2>1, <3>1, <3>2
  <2> QED
    BY <2>2, <2>3 DEF BagsFit
<1>3. ASSUME UNCHANGED <<event, history, counted, again, swallowed, overlap>>,
             seeding' => seeding, seeding' = seeding \/ unseeded', unseeded => unseeded'
      PROVE  BagsFit'
  <2>1. /\ cycle'.status = "draft" => cycle.status = "draft"
        /\ cycle'.status = "active" => cycle.status = "active" \/ Activate
    BY CycleSteps DEF Stays, Goes
  <2>2. ASSUME NEW o \in Order, OnceFits(o) PROVE OnceFits(o)'
    BY <1>3, <2>1, <2>2 DEF OnceFits
  <2>3. Activate => seeding' = TRUE
    BY DEF Activate
  <2> QED
    BY <1>3, <2>1, <2>2, <2>3 DEF BagsFit
<1>4. CASE SeedDies
  BY <1>3, <1>4 DEF SeedDies, eventVars
<1>5. ASSUME NEW x \in Order,
             AddPoints(x) \/ IncrementSeasonBagProgress(x) \/ Redeliver(x) \/ Swallow(x),
             NEW o \in Order, o # x
      PROVE  /\ o \notin again' \cup overlap' => OnceFits(o)'
             /\ event'[o] # "due" /\ o \notin swallowed' => history'[o] # "none"
             /\ cycle'.status = "active" /\ ~seeding' /\ ~unseeded' /\ event'[o] = "done" /\ o \notin swallowed'
                  => counted'[o] >= 1
  <2>1. /\ event'[o] = event[o] /\ history'[o] = history[o] /\ counted'[o] = counted[o]
    BY <1>5 DEF AddPoints, IncrementSeasonBagProgress, Redeliver, Swallow, Types, EventTypes
  <2>2. /\ cycle' = cycle /\ seeding' = seeding /\ unseeded' = unseeded
    BY <1>5 DEF AddPoints, IncrementSeasonBagProgress, Redeliver, Swallow,
                seasonVars, otherVars, ghostVars
  <2>3. /\ (o \in again' <=> o \in again) /\ (o \in overlap' <=> o \in overlap)
        /\ (o \in swallowed' <=> o \in swallowed)
    BY <1>5 DEF AddPoints, IncrementSeasonBagProgress, Redeliver, Swallow
  <2> QED
    BY <2>1, <2>2, <2>3 DEF BagsFit, OnceFits
<1>6. ASSUME NEW x \in Order, AddPoints(x) PROVE BagsFit'
  <2>1. /\ event[x] = "due" /\ event'[x] = "awarded" /\ history'[x] # "none"
        /\ counted' = counted /\ cycle' = cycle /\ seeding' = seeding
        /\ again' = again
        /\ overlap' = IF seeding THEN overlap \cup {x} ELSE overlap
    BY <1>6, Zenon DEF AddPoints, Types, EventTypes, seasonVars
  <2>2. x \notin again' \cup overlap' => OnceFits(x)'
    BY <2>1 DEF BagsFit, OnceFits
  <2> QED
    BY <1>5, <1>6, <2>1, <2>2 DEF BagsFit
<1>7. ASSUME NEW x \in Order, IncrementSeasonBagProgress(x) PROVE BagsFit'
  <2>1. /\ event[x] = "awarded" /\ event'[x] = "done" /\ history' = history
        /\ cycle' = cycle /\ seeding' = seeding /\ unseeded' = unseeded
        /\ UNCHANGED <<again, swallowed, overlap>>
    BY <1>7 DEF IncrementSeasonBagProgress, Types, EventTypes, seasonVars, otherVars, ghostVars
  <2>2. counted'[x] = IF cycle.status = "active" THEN counted[x] + 1 ELSE counted[x]
    BY <1>7 DEF IncrementSeasonBagProgress, Types, EventTypes
  <2>3. counted[x] \in Nat
    BY OrderRead
  <2>4. ASSUME x \notin again' \cup overlap' PROVE OnceFits(x)'
    <3>1. OnceFits(x)
      BY <2>1, <2>4 DEF BagsFit
    <3>2. counted[x] = 0 /\ ~seeding
      BY <2>1, <3>1 DEF OnceFits
    <3> QED
      BY <2>1, <2>2, <3>2 DEF OnceFits
  <2>5. x \notin swallowed' => history'[x] # "none"
    BY <2>1 DEF BagsFit
  <2> QED
    BY <1>5, <1>7, <2>1, <2>2, <2>3, <2>4, <2>5 DEF BagsFit
<1>8. ASSUME NEW x \in Order, Redeliver(x) PROVE BagsFit'
  <2>1. event'[x] = "due" /\ x \in again'
    BY <1>8 DEF Redeliver, Types, EventTypes
  <2> QED
    BY <1>5, <1>8, <2>1 DEF BagsFit
<1>9. ASSUME NEW x \in Order, Swallow(x) PROVE BagsFit'
  <2>1. /\ event[x] # "done" /\ event'[x] = "done" /\ x \in swallowed'
        /\ UNCHANGED <<history, counted, again, overlap>> /\ cycle' = cycle /\ seeding' = seeding
    BY <1>9 DEF Swallow, Types, EventTypes, seasonVars
  <2>2. x \notin again' \cup overlap' => OnceFits(x)'
    BY <2>1 DEF BagsFit, OnceFits
  <2> QED
    BY <1>5, <1>9, <2>1, <2>2 DEF BagsFit
<1> QED
  BY <1>1, <1>2, <1>3, <1>4, <1>6, <1>7, <1>8, <1>9, WhoOrders

-----------------------------------------------------------------------------
(* The votes. *)

(* Once a voter's row is there it stays as it is. *)
LEMMA WeightsStay ==
  ASSUME Types, [Next]_vars, NEW u \in User, weight[u] # None
  PROVE  weight'[u] = weight[u]
BY WhoWeighs DEF WriteSnapshots, Upserted

LEMMA NextVotes ==
  ASSUME Types, EditFits, SeasonFits, VotesFit, [Next]_vars
  PROVE  VotesFit'
<1>1. /\ request \in [Request -> {None} \cup RequestDoc] /\ vote \in [User -> {None} \cup VoteDoc]
      /\ weight \in [User -> Weight]
  BY DEF Types, BallotTypes
(* Either the prizes stay, or nobody has voted, or the edit landed late. *)
<1>2. \/ Early /\ UNCHANGED <<request, vote>>
      \/ staleEdit'
      \/ cycle'.edition = cycle.edition /\ staleEdit' = staleEdit
  <2>1. CASE AdminWrites
    <3>1. \/ staleEdit'
          \/ cycle.status = admin.read /\ admin.at \in {"prizes", "recipients"}
      BY <2>1 DEF AdminWrites
    <3>2. cycle.status = admin.read /\ admin.at \in {"prizes", "recipients"} => Early
      BY DEF EditFits, Early
    <3> QED
      BY <2>1, <3>1, <3>2 DEF AdminWrites, ballotVars
  <2>2. CASE ~AdminWrites
    <3>1. cycle'.edition = cycle.edition
      BY <2>2, CycleSteps DEF Stays
    <3>2. staleEdit' = staleEdit
      BY <2>2, WhoEdits DEF AdminReads, otherVars, ghostVars
    <3> QED
      BY <3>1, <3>2
  <2> QED
    BY <2>1, <2>2
<1>3. CASE Early /\ UNCHANGED <<request, vote>>
  BY <1>3 DEF SeasonFits, VotesFit
<1>4. CASE ~(Early /\ UNCHANGED <<request, vote>>)
  <2>1. staleEdit' \/ (cycle'.edition = cycle.edition /\ (staleEdit => staleEdit'))
    BY <1>2, <1>4
  <2>2. ASSUME NEW r \in Request, request'[r] # None
        PROVE  /\ weight'[request'[r].user] = request'[r].weight
               /\ staleEdit' \/ request'[r].prize \in Editions[cycle'.edition]
    <3>1. CASE request'[r] = request[r]
      <4>1. /\ weight[request[r].user] = request[r].weight
            /\ staleEdit \/ request[r].prize \in Editions[cycle.edition]
        BY <2>2, <3>1 DEF VotesFit
      <4>2. request[r] \in RequestDoc
        BY <1>1, <2>2, <3>1
      <4>3. weight[request[r].user] # None
        BY <4>1, <4>2, NoneIsNoDoc DEF RequestDoc
      <4>4. request[r].user \in User
        BY <4>2 DEF RequestDoc
      <4>5. weight'[request[r].user] = weight[request[r].user]
        BY <4>3, <4>4, WeightsStay
      <4> QED
        BY <2>1, <3>1, <4>1, <4>5
    <3>2. CASE request'[r] # request[r]
      <4>1. PICK u \in User, p \in Prize : CastVote(r, u, p)
        BY <1>1, <2>2, <3>2, WhoVotes DEF InsertVote, CastVote
      <4>2. /\ request'[r] = [user |-> u, prize |-> p, weight |-> weight[u]]
            /\ p \in Editions[cycle.edition] /\ weight' = weight
        BY <1>1, <4>1 DEF CastVote
      <4> QED
        BY <2>1, <4>2
    <3> QED
      BY <3>1, <3>2
  <2>3. ASSUME NEW u \in User, vote'[u] # None
        PROVE  /\ weight'[u] = vote'[u].weight
               /\ staleEdit' \/ vote'[u].prize \in Editions[cycle'.edition]
    <3>1. CASE vote'[u] = vote[u]
      <4>1. /\ weight[u] = vote[u].weight
            /\ staleEdit \/ vote[u].prize \in Editions[cycle.edition]
        BY <2>3, <3>1 DEF VotesFit
      <4>2. vote[u] \in VoteDoc
        BY <1>1, <2>3, <3>1
      <4>3. weight[u] # None
        BY <4>1, <4>2, NoneIsNoDoc DEF VoteDoc
      <4>4. weight'[u] = weight[u]
        BY <4>3, WeightsStay
      <4> QED
        BY <2>1, <3>1, <4>1, <4>4
    <3>2. CASE vote'[u] # vote[u]
      <4>1. PICK r \in Request : InsertVote(r)
        BY <2>3, <3>2, WhoVotes DEF CastVote
      <4>2. PICK q \in RequestDoc : q = request[r]
        BY <1>1, <4>1 DEF InsertVote
      <4>3. request[r] # None /\ u = q.user /\ weight' = weight
            /\ vote'[u] = [prize |-> q.prize, weight |-> q.weight]
        BY <1>1, <3>2, <4>1, <4>2 DEF InsertVote, RequestDoc
      <4>4. /\ weight[q.user] = q.weight
            /\ staleEdit \/ q.prize \in Editions[cycle.edition]
        BY <4>2, <4>3 DEF VotesFit
      <4> QED
        BY <2>1, <4>3, <4>4
    <3> QED
      BY <3>1, <3>2
  <2> QED
    BY <2>2, <2>3 DEF VotesFit
<1> QED
  BY <1>3, <1>4

(* Nobody is let in after the ballot has closed. *)
LEMMA NextLate ==
  ASSUME Types, EditFits, SeasonFits, LateFits, [Next]_vars
  PROVE  LateFits'
<1>1. request \in [Request -> {None} \cup RequestDoc]
  BY DEF Types, BallotTypes
<1>2. ASSUME NEW t \in Teller, CloseBallot(t) PROVE LateFits'
  <2>1. /\ inFlight' = {request[r].user : r \in {x \in Request : request[x] # None}}
        /\ request' = request
    BY <1>2 DEF CloseBallot, ballotVars
  <2> QED
    BY <2>1 DEF LateFits
<1>3. ASSUME \A t \in Teller : ~CloseBallot(t), ~Polled', NEW r \in Request, request'[r] # None
      PROVE  request'[r].user \in inFlight'
  <2>1. inFlight' = inFlight
    BY <1>3, WhoTallies DEF ManualTally, CountVotes, Complete, TallyDies, otherVars, ghostVars
  <2>2. Polled => cycle' # cycle
    BY <1>3 DEF Polled
  <2>3. Polled => Early
    BY <1>3, CycleSteps DEF Polled, Early, Stays, Goes
  <2>4. cycle' # cycle => request' = request
    BY WhoVotes DEF InsertVote, CastVote
  <2>5. ~Polled
    BY <1>3, <2>2, <2>3, <2>4 DEF SeasonFits
  <2>6. request'[r] = request[r]
    BY <1>1, <1>3, <2>5, WhoVotes DEF InsertVote, CastVote, Accepts, Polled
  <2> QED
    BY <1>3, <2>1, <2>5, <2>6 DEF LateFits
<1> QED
  BY <1>2, <1>3 DEF LateFits

-----------------------------------------------------------------------------
(* The tally. *)

(* What was found stays found when late votes come in. *)
LEMMA FoundStays ==
  ASSUME Types, EditFits, SeasonFits, LateFits, [Next]_vars, ~Polled, NEW w, Found(w)
  PROVE  Found(w)'
<1>1. PICK late \in SUBSET inFlight : w = Winner(Voters \ late)
  BY DEF Found
<1>2. PICK V, f, g, W : V = Voters \ late /\ f = vote /\ g = vote' /\ W = Voters'
  OBVIOUS
<1>3. V \subseteq User /\ \A u \in V : f[u] \in VoteDoc
  BY <1>2 DEF Voters, Types, BallotTypes
<1>4. w = WinnerOf(f, V)
  <2>1. w = Winner(V)
    BY <1>1, <1>2
  <2> QED
    BY <1>2, <2>1, WinnerIsOf
<1>5. inFlight' = inFlight
  <2>1. \A t \in Teller : ~CloseBallot(t)
    BY DEF CloseBallot, Polled
  <2> QED
    BY <2>1, WhoTallies DEF ManualTally, CountVotes, Complete, TallyDies, otherVars, ghostVars
<1>6. ASSUME NEW L \in SUBSET inFlight, V = W \ L, \A u \in V : g[u] = f[u] PROVE Found(w)'
  <2>1. WinnerOf(g, V) = WinnerOf(f, V)
    BY <1>3, <1>6, WinnerStays
  <2>2. Winner(V)' = WinnerOf(g, V)
    BY <1>2, WinnerIsOf
  <2>3. w = Winner(V)'
    BY <1>4, <2>1, <2>2
  <2>4. w = Winner(Voters \ L)'
    BY <1>2, <1>6, <2>3 DEF Winner, Beats, Total, For
  <2> QED
    BY <1>5, <2>4 DEF Found
<1>7. CASE vote' = vote
  <2>1. W = Voters
    BY <1>2, <1>7 DEF Voters
  <2> QED
    BY <1>2, <1>6, <1>7, <2>1
<1>8. CASE vote' # vote
  <2>1. PICK r \in Request : InsertVote(r)
    BY <1>8, WhoVotes DEF CastVote
  <2>2. request[r] # None /\ vote[request[r].user] = None
    BY <1>8, <2>1 DEF InsertVote
  <2>3. request[r] \in RequestDoc
    BY <2>2 DEF Types, BallotTypes
  <2>4. PICK u \in User, x \in VoteDoc :
           /\ u = request[r].user /\ x = [prize |-> request[r].prize, weight |-> request[r].weight]
    BY <2>3 DEF RequestDoc, VoteDoc
  <2>5. vote' = [vote EXCEPT ![u] = x] /\ vote[u] = None
    BY <2>1, <2>2, <2>4 DEF InsertVote
  <2>6. u \in inFlight
    BY <2>2, <2>4 DEF LateFits
  <2>7. \A z \in User : vote'[z] = IF z = u THEN x ELSE vote[z]
    BY <2>5 DEF Types, BallotTypes
  <2>8. W = Voters \cup {u} /\ u \notin Voters
    BY <1>2, <2>4, <2>5, <2>7, NoneIsNoDoc DEF Voters
  <2>9. PICK L : L = late \cup {u}
    OBVIOUS
  <2>10. L \in SUBSET inFlight /\ V = W \ L
    BY <1>2, <2>6, <2>8, <2>9
  <2>11. \A z \in V : g[z] = f[z]
    BY <1>2, <1>3, <2>7, <2>8
  <2> QED
    BY <1>6, <2>10, <2>11
<1> QED
  BY <1>7, <1>8

LEMMA NextTally ==
  ASSUME Types, EditFits, SeasonFits, LateFits, TallyFits, [Next]_vars
  PROVE  TallyFits'
<1>1. teller \in [Teller -> TellerDoc]
  BY DEF Types, WorkTypes
<1>2. ASSUME NEW t \in Teller, teller'[t].at = "counted", NEW w, w = teller'[t].winner
      PROVE  Found(w)'
  <2>1. CASE teller'[t] = teller[t]
    <3>1. Found(w) /\ ~Polled
      BY <1>2, <2>1 DEF TallyFits, SeasonFits, Polled
    <3> QED
      BY <3>1, FoundStays
  <2>2. CASE teller'[t] # teller[t]
    <3>1. PICK s \in Teller :
             CloseBallot(s) \/ ManualTally(s) \/ CountVotes(s) \/ Complete(s) \/ TallyDies(s)
      BY <2>2, WhoTallies
    <3>2. \A doc \in TellerDoc : teller' = [teller EXCEPT ![s] = doc] => s = t /\ doc = teller'[t]
      BY <1>1, <2>2
    <3>3. CountVotes(s)
      BY <1>2, <3>1, <3>2, TellerSteps
    <3>4. w = Winner(Voters)
      BY <1>2, <3>2, <3>3, TellerSteps
    <3>5. w = Winner(Voters \ {}) /\ {} \in SUBSET inFlight
      <4>1. Voters \ {} = Voters
        OBVIOUS
      <4> QED
        BY <3>4, <4>1
    <3>6. Found(w)
      BY <3>5 DEF Found
    <3>7. ~Polled
      BY <3>3 DEF CountVotes, SeasonFits, Polled
    <3> QED
      BY <3>6, <3>7, FoundStays
  <2> QED
    BY <2>1, <2>2
<1>3. ASSUME cycle'.status = "completed", NEW w, w = cycle'.winner PROVE Found(w)'
  <2>1. CASE cycle.status = "completed"
    <3>1. cycle'.winner = cycle.winner
      BY <1>3, <2>1, CycleSteps DEF Goes, Stays
    <3>2. Found(w) /\ ~Polled
      BY <1>3, <2>1, <3>1 DEF TallyFits, Polled
    <3> QED
      BY <3>2, FoundStays
  <2>2. CASE cycle.status # "completed"
    <3>1. PICK t \in Teller : Complete(t) /\ cycle'.winner = teller[t].winner
      BY <1>3, <2>2, CycleSteps DEF Goes, Stays
    <3>2. cycle.status = "tallying"
      BY <1>3, <2>2, CycleSteps DEF Goes, Stays
    <3>3. Found(w) /\ ~Polled
      BY <1>3, <3>1, <3>2 DEF TallyFits, Complete, Polled
    <3> QED
      BY <3>3, FoundStays
  <2> QED
    BY <2>1, <2>2
<1>4. \A t \in Teller : teller'[t].at = "counted" =>
         \E late \in SUBSET inFlight' : teller'[t].winner = Winner(Voters \ late)'
  BY <1>2 DEF Found
<1>5. cycle'.status = "completed" =>
         \E late \in SUBSET inFlight' : cycle'.winner = Winner(Voters \ late)'
  BY <1>3 DEF Found
<1> QED
  BY <1>4, <1>5 DEF TallyFits, Found

-----------------------------------------------------------------------------
(* The grand prize. *)

(* The leaderboard is a strict total order. *)
LEMMA RanksOrder ==
  ASSUME NEW x \in User, NEW y \in User, NEW z \in User
  PROVE  /\ x = y \/ Outranks(x, y) \/ Outranks(y, x)
         /\ Outranks(y, x) /\ Outranks(z, y) => Outranks(z, x)
<1>1. PICK a, b, c : a = Score(x) /\ b = Score(y) /\ c = Score(z)
  OBVIOUS
<1>2. a \in Nat /\ b \in Nat /\ c \in Nat
  BY <1>1, ScoreIsNat
<1>3. x \in Nat /\ y \in Nat /\ z \in Nat
  BY SeasonAssumption
<1>4. /\ Outranks(x, y) <=> a > b \/ (a = b /\ x < y)
      /\ Outranks(y, x) <=> b > a \/ (b = a /\ y < x)
      /\ Outranks(z, y) <=> c > b \/ (c = b /\ z < y)
      /\ Outranks(z, x) <=> c > a \/ (c = a /\ z < x)
  BY <1>1 DEF Outranks
<1> QED
  BY <1>2, <1>3, <1>4

(* The first n of the leaderboard are no more than n. *)
LEMMA WinnersAreFew ==
  ASSUME NEW n \in Nat, NEW B \in SUBSET User, NEW S, S \subseteq Top(B, n)
  PROVE  IsFiniteSet(S) /\ Cardinality(S) <= n
<1>1. S \subseteq B /\ S \subseteq User /\ IsFiniteSet(User) /\ IsFiniteSet(S)
  BY SeasonAssumption, FS_Subset DEF Top
<1>2. CASE S = {}
  BY <1>1, <1>2, FS_EmptySet
<1>3. CASE S # {}
  <2>1. PICK R : R = {x \in User \X User : Outranks(x[2], x[1])}
    OBVIOUS
  <2>2. \A x, y \in User : <<x, y>> \in R <=> Outranks(y, x)
    BY <2>1
  <2>3. \A x, y \in S : x = y \/ <<x, y>> \in R \/ <<y, x>> \in R
    BY <1>1, <2>2, RanksOrder
  <2>4. \A x, y, z \in S : <<x, y>> \in R /\ <<y, z>> \in R => <<x, z>> \in R
    BY <1>1, <2>2, RanksOrder
  <2>5. PICK m \in S : \A y \in S \ {m} : <<m, y>> \in R
    BY <1>1, <1>3, <2>3, <2>4, FirstExists, SMTT(40)
  <2>6. PICK A : A = {v \in B : Outranks(v, m)}
    OBVIOUS
  <2>7. Cardinality(A) < n
    BY <2>6 DEF Top
  <2>8. S \ {m} \subseteq A /\ A \subseteq User
    BY <1>1, <2>2, <2>5, <2>6
  <2>9. IsFiniteSet(A)
    BY <1>1, <2>8, FS_Subset
  <2>10. Cardinality(S \ {m}) <= Cardinality(A) /\ Cardinality(A) \in Nat
    BY <2>8, <2>9, FS_Subset, FS_CardinalityType
  <2>11. Cardinality(S \ {m}) = Cardinality(S) - 1 /\ Cardinality(S) \in Nat
    BY <1>1, FS_RemoveElement, FS_CardinalityType
  <2> QED
    BY <1>1, <2>7, <2>10, <2>11
<1> QED
  BY <1>2, <1>3

(* Who is among the first of many is among the first of the few that are
   left. *)
LEMMA TopOfFewer ==
  ASSUME NEW n \in Nat, NEW A \in SUBSET User, NEW B \in SUBSET A, NEW u \in B, u \in Top(A, n)
  PROVE  u \in Top(B, n)
<1>1. PICK P, Q : P = {v \in A : Outranks(v, u)} /\ Q = {v \in B : Outranks(v, u)}
  OBVIOUS
<1>2. IsFiniteSet(P) /\ Q \subseteq P
  BY <1>1, SeasonAssumption, FS_Subset
<1>3. Cardinality(Q) <= Cardinality(P) /\ Cardinality(P) \in Nat /\ Cardinality(Q) \in Nat
  BY <1>2, FS_Subset, FS_CardinalityType
<1>4. Cardinality(P) < n
  BY <1>1 DEF Top
<1> QED
  BY <1>1, <1>3, <1>4 DEF Top

(* Accounts are recorded as changed only once the cycle is completed, and
   those that are not stay as they are, with their points. *)
LEMMA AccountSteps ==
  ASSUME Types, [Next]_vars
  PROVE  /\ cycle.status # "completed" => changed' = changed
         /\ cycle.status = "completed" =>
              /\ changed \subseteq changed' /\ Settled' = Settled \ changed'
              /\ \A u \in User \ changed' : Score(u)' = Score(u)
<1>1. CASE UNCHANGED <<active, changed, history>>
  BY <1>1 DEF Settled, Score
<1>2. ASSUME NEW u \in Removable, DeactivateUserLoyalty(u) \/ ReactivateUserLoyalty(u)
      PROVE  /\ cycle.status # "completed" => changed' = changed
             /\ cycle.status = "completed" => changed' = changed \cup {u}
             /\ active' \ {u} = active \ {u} /\ history' = history
  BY <1>2 DEF DeactivateUserLoyalty, ReactivateUserLoyalty, AlsoChanged, eventVars
<1>3. CASE \E u \in Removable : DeactivateUserLoyalty(u) \/ ReactivateUserLoyalty(u)
  BY <1>2, <1>3 DEF Settled, Score
<1>4. ASSUME NEW o \in Order, AddPoints(o)
      PROVE  /\ cycle.status # "completed" => changed' = changed
             /\ cycle.status = "completed" =>
                  /\ changed \subseteq changed' /\ Settled' = Settled \ changed'
                  /\ \A u \in User \ changed' : Score(u)' = Score(u)
  <2>1. CASE UNCHANGED <<history, changed>>
    BY <1>4, <2>1 DEF AddPoints, Settled, Score
  <2>2. CASE ~UNCHANGED <<history, changed>>
    <3>1. /\ changed' = AlsoChanged(Owner[o]) /\ active' = active
          /\ \A x \in Order \ {o} : history'[x] = history[x]
      BY <1>4, <2>2 DEF AddPoints, Types, EventTypes
    <3>2. cycle.status # "completed" => changed' = changed
      BY <3>1 DEF AlsoChanged
    <3>3. cycle.status = "completed" =>
            changed \subseteq changed' /\ Settled' = Settled \ changed' /\ Owner[o] \in changed'
      BY <3>1 DEF AlsoChanged, Settled
    <3>4. ASSUME NEW u, Owner[o] # u PROVE Score(u)' = Score(u)
      <4>1. {x \in Order : Owner[x] = u /\ history'[x] # "none"}
              = {x \in Order : Owner[x] = u /\ history[x] # "none"}
        BY <3>1, <3>4
      <4> QED
        BY <4>1 DEF Score
    <3> QED
      BY <3>2, <3>3, <3>4
  <2> QED
    BY <2>1, <2>2
<1> QED
  BY <1>1, <1>3, <1>4, WhoChanges

LEMMA NextClaims ==
  ASSUME Types, EditFits, SeasonFits, ClaimsFit, [Next]_vars
  PROVE  ClaimsFit'
<1> SUFFICES ASSUME ~staleEdit'
             PROVE  /\ Cardinality(claims' \ changed') <= cycle'.recipients
                    /\ \A n : n = cycle'.recipients /\ cycle'.status = "completed"
                          => claims' \ changed' \subseteq Top(Settled, n)'
  <2>1. PICK n : n = cycle'.recipients
    OBVIOUS
  <2> QED
    BY <2>1 DEF ClaimsFit, Top, Outranks
<1>1. cycle \in CycleDoc /\ cycle' \in CycleDoc /\ Recipients \subseteq Nat
  BY CycleSteps, SeasonAssumption DEF Types, SeasonTypes
<1>2. cycle.recipients \in Nat /\ cycle'.recipients \in Nat
  BY <1>1 DEF CycleDoc
<1>3. CASE AdminWrites
  <2>1. cycle.status = admin.read /\ admin.at \in {"prizes", "recipients"}
    BY <1>3 DEF AdminWrites
  <2>2. cycle.status \in {"draft", "active"} /\ claims' = claims
    BY <1>3, <2>1 DEF EditFits, AdminWrites
  <2>3. cycle'.status # "completed"
    BY <2>2, CycleSteps DEF Goes
  <2>4. claims' \ changed' = {}
    BY <2>2 DEF SeasonFits
  <2> QED
    BY <1>2, <2>3, <2>4, FS_EmptySet
<1>4. CASE ~AdminWrites
  <2>1. cycle'.recipients = cycle.recipients
    BY <1>4, CycleSteps DEF Stays
  <2>2. staleEdit' = staleEdit
    BY <1>4, WhoEdits DEF AdminReads, otherVars, ghostVars
  <2>3. PICK n \in Nat : n = cycle.recipients
    BY <1>2
  <2>4. /\ Cardinality(claims \ changed) <= n
        /\ cycle.status = "completed" => claims \ changed \subseteq Top(Settled, n)
    BY <2>2, <2>3 DEF ClaimsFit
  <2>5. CASE cycle.status # "completed"
    <3>1. changed' = changed /\ claims' = claims
      BY <2>5, AccountSteps, WhoClaims DEF ClaimPrize
    <3>2. cycle'.status = "completed" => cycle.status = "tallying"
      BY <2>5, CycleSteps DEF Goes, Stays
    <3>3. cycle'.status = "completed" => claims = {}
      BY <3>2 DEF SeasonFits
    <3> QED
      BY <2>1, <2>3, <2>4, <3>1, <3>3
  <2>6. CASE cycle.status = "completed"
    <3>1. PICK A, B, C : A = Settled /\ B = Settled' /\ C = changed'
      OBVIOUS
    <3>2. /\ changed \subseteq C /\ B = A \ C /\ A \subseteq active /\ active \subseteq User
          /\ A = active \ changed
      BY <2>6, <3>1, AccountSteps DEF Settled, Types, WorkTypes
    <3>3. \A u \in B : Score(u)' = Score(u)
      BY <2>6, <3>1, <3>2, AccountSteps
    <3>4. ASSUME NEW u \in claims' \ C PROVE u \in Top(B, n)
      <4>1. CASE u \in claims
        <5>1. u \in Top(A, n) /\ u \in A
          BY <2>4, <2>6, <3>1, <3>2, <3>4, <4>1 DEF Top
        <5> QED
          BY <3>2, <3>4, <5>1, TopOfFewer
      <4>2. CASE u \notin claims
        <5>1. u \in Winners(n)
          BY <2>3, <3>4, <4>2, WhoClaims DEF ClaimPrize
        <5>2. u \in Top(active, n) /\ u \in active
          BY <5>1 DEF Winners, Top
        <5>3. u \in B /\ B \subseteq active
          BY <3>2, <3>4, <5>2
        <5> QED
          BY <3>2, <5>2, <5>3, TopOfFewer
      <4> QED
        BY <4>1, <4>2
    <3>5. Cardinality(claims' \ C) <= n
      <4>1. PICK S : S = claims' \ C
        OBVIOUS
      <4>2. S \subseteq Top(B, n) /\ B \in SUBSET User
        BY <3>2, <3>4, <4>1
      <4> QED
        BY <4>1, <4>2, WinnersAreFew
    <3>6. Top(Settled, n)' = Top(B, n)
      BY <3>1, <3>3 DEF Top, Outranks
    <3> QED
      BY <2>1, <2>3, <3>1, <3>4, <3>5, <3>6
  <2> QED
    BY <2>5, <2>6
<1> QED
  BY <1>3, <1>4

-----------------------------------------------------------------------------
(* The invariant, from either start. *)

Start ==
  /\ cycle \in CycleDoc /\ cycle.status \in {"draft", "open"}
  /\ cycle.edition = 1 /\ cycle.winner = None
  /\ seeding = FALSE /\ admin = NoAdmin
  /\ event = [o \in Order |-> IF o \in Past THEN "done" ELSE "due"]
  /\ history = [o \in Order |-> IF o \in Past THEN "season" ELSE "none"]
  /\ counted = [o \in Order |-> IF o \in Past /\ cycle.status = "open" THEN 1 ELSE 0]
  /\ job \in [Job -> JobDoc] /\ teller = [t \in Teller |-> NoTally]
  /\ weight = [u \in User |-> None] /\ vote = [u \in User |-> None]
  /\ request = [r \in Request |-> None]
  /\ claims = {} /\ again = {} /\ swallowed = {} /\ overlap = {} /\ inFlight = {}
  /\ failures = 0 /\ unseeded = FALSE /\ staleEdit = FALSE
  /\ active = User /\ changed = {}

LEMMA Starts == Init \/ BallotInit => Start
<1>1. ASSUME NEW s \in {"draft", "open"},
             cycle \in [status : {s}, ready : {FALSE}, edition : {1},
                        recipients : Recipients, winner : {None}]
      PROVE  cycle \in CycleDoc /\ cycle.status = s /\ cycle.edition = 1 /\ cycle.winner = None
  <2>1. PICK n \in Recipients : cycle = CycleAt(s, FALSE, 1, n, None)
    BY <1>1 DEF CycleAt
  <2>2. s \in Status
    BY DEF Status
  <2>3. PICK b \in BOOLEAN : b = FALSE
    OBVIOUS
  <2>4. PICK e \in 1 .. 2, x \in Prize \cup {None} : e = 1 /\ x = None
    OBVIOUS
  <2>5. cycle = CycleAt(s, b, e, n, x)
    BY <2>1, <2>3, <2>4
  <2>6. /\ cycle \in CycleDoc /\ cycle.status = s /\ cycle.edition = e
        /\ cycle.winner = x
    BY <2>2, <2>5, CycleFields
  <2> QED
    BY <2>4, <2>6
<1>2. CASE Init
  <2>1. cycle \in CycleDoc /\ cycle.status = "draft" /\ cycle.edition = 1 /\ cycle.winner = None
    BY <1>1, <1>2 DEF Init
  <2>2. job \in [Job -> JobDoc]
    BY <1>2, NoJobType DEF Init
  <2> QED
    BY <1>2, <2>1, <2>2 DEF Init, Start
<1>3. CASE BallotInit
  <2>1. cycle \in CycleDoc /\ cycle.status = "open" /\ cycle.edition = 1 /\ cycle.winner = None
    BY <1>1, <1>3 DEF BallotInit
  <2>2. [NoJob EXCEPT !.at = "due"] \in JobDoc
    BY DEF NoJob, JobDoc, Weight
  <2>3. job \in [Job -> JobDoc]
    BY <1>3, <2>2, NoJobType DEF BallotInit
  <2> QED
    BY <1>3, <2>1, <2>3 DEF BallotInit, Start
<1> QED
  BY <1>2, <1>3

LEMMA StartInv == Start => IInv
<1> SUFFICES ASSUME Start PROVE IInv
  OBVIOUS
<1>1. Types
  <2>1. SeasonTypes
    <3>1. admin = [at |-> "idle", read |-> None] /\ seeding \in BOOLEAN /\ cycle \in CycleDoc
      BY DEF Start, NoAdmin
    <3>2. failures \in 0 .. MaxFailures
      BY SeasonAssumption DEF Start
    <3> QED
      BY <3>1, <3>2 DEF SeasonTypes
  <2>2. EventTypes
    BY DEF Start, EventTypes
  <2>3. BallotTypes
    BY DEF Start, BallotTypes, Weight
  <2>4. WorkTypes
    BY NoTallyType DEF Start, WorkTypes
  <2> QED
    BY <2>1, <2>2, <2>3, <2>4 DEF Types
<1>2. EditFits
  BY DEF Start, EditFits, NoAdmin
<1>3. \A t \in Teller : teller[t].at = "idle"
  BY NoTallyType DEF Start
<1>4. SeasonFits
  BY <1>3 DEF Start, SeasonFits
<1>5. CountsFit
  BY DEF Start, CountsFit, Pending, Seedable
<1>6. BagsFit
  BY DEF Start, BagsFit, OnceFits
<1>7. VotesFit
  BY DEF Start, VotesFit
<1>8. ClaimsFit
  <2>1. cycle.recipients \in Nat
    BY SeasonAssumption DEF Start, CycleDoc
  <2>2. claims \ changed = {} /\ cycle.status # "completed"
    BY DEF Start
  <2> QED
    BY <2>1, <2>2, FS_EmptySet DEF ClaimsFit
<1>9. LateFits
  BY DEF Start, LateFits
<1>10. TallyFits
  BY <1>3 DEF Start, TallyFits
<1> QED
  BY <1>1, <1>2, <1>4, <1>5, <1>6, <1>7, <1>8, <1>9, <1>10 DEF IInv

LEMMA NextKeeps == IInv /\ [Next]_vars => IInv'
<1> SUFFICES ASSUME IInv, [Next]_vars PROVE IInv'
  OBVIOUS
<1>1. Types /\ EditFits /\ SeasonFits /\ CountsFit /\ BagsFit /\ VotesFit
      /\ ClaimsFit /\ LateFits /\ TallyFits
  BY DEF IInv
<1>2. Types' /\ EditFits' /\ SeasonFits'
  BY <1>1, NextTypes, NextEdit, NextSeason
<1>3. CountsFit' /\ BagsFit'
  BY <1>1, NextCounts, NextBags
<1>4. VotesFit' /\ ClaimsFit'
  BY <1>1, NextVotes, NextClaims
<1>5. LateFits' /\ TallyFits'
  BY <1>1, NextLate, NextTally
<1> QED
  BY <1>2, <1>3, <1>4, <1>5 DEF IInv

LEMMA Invariance == Spec \/ BallotSpec => []IInv
<1>1. Init => IInv
  BY Starts, StartInv
<1>2. BallotInit => IInv
  BY Starts, StartInv
<1> QED
  BY <1>1, <1>2, NextKeeps, PTL DEF Spec, BallotSpec

-----------------------------------------------------------------------------
(* What follows. *)

LEMMA TypeFollows == IInv => TypeOK
<1> SUFFICES ASSUME IInv PROVE TypeOK
  OBVIOUS
<1>1. SeasonTypes /\ EventTypes /\ BallotTypes /\ WorkTypes
  BY DEF IInv, Types
<1>2. /\ cycle \in [status : Status, ready : BOOLEAN, edition : DOMAIN Editions,
                    recipients : Recipients, winner : Prize \cup {None}]
      /\ cycle.winner # None => cycle.status \in {"completed", "archived"}
  BY <1>1, SeasonAssumption DEF SeasonTypes, CycleDoc, IInv, SeasonFits
<1>3. counted \in [Order -> 0 .. MaxFailures + 2]
  <2>1. ASSUME NEW o \in Order PROVE counted[o] \in 0 .. MaxFailures + 2
    <3>1. counted[o] + Pending(o) + Seedable <= failures + 2
      BY DEF IInv, CountsFit
    <3>2. Pending(o) \in {0, 1} /\ Seedable \in {0, 1}
      BY DEF Pending, Seedable
    <3>3. counted[o] \in Nat /\ failures \in 0 .. MaxFailures /\ MaxFailures \in Nat
      BY <1>1, SeasonAssumption DEF EventTypes, SeasonTypes
    <3> QED
      BY <3>1, <3>2, <3>3
  <2> QED
    BY <1>1, <2>1 DEF EventTypes
<1>4. /\ \A r \in Request : request[r] # None =>
            request[r] \in [user : User, prize : Prize, weight : Nat]
      /\ \A u \in User : vote[u] # None => vote[u] \in [prize : Prize, weight : Nat]
  BY <1>1 DEF BallotTypes, RequestDoc, VoteDoc
<1> QED
  BY <1>1, <1>2, <1>3, <1>4
     DEF TypeOK, SeasonTypes, EventTypes, BallotTypes, WorkTypes, JobDoc, TellerDoc

(* Every document and every running process of a vote has the shape the
   model gives it, and an order is counted once per delivery and once by the
   seeding at most (voting.service.ts). *)
THEOREM VotingTypeCorrect == Spec \/ BallotSpec => []TypeOK
BY Invariance, TypeFollows, PTL

(* However deliveries, the activation and its seeding interleave, an order
   whose event was delivered once and did not straddle the activation is in
   the progress at most once, and one handled without an error while the
   season runs is in it (activateCycle, incrementSeasonBagProgress). *)
THEOREM BagsAreCountedOnce == Spec \/ BallotSpec => []BagsCountOnce
<1>1. IInv => BagsCountOnce
  BY DEF IInv, BagsFit, OnceFits, BagsCountOnce
<1> QED
  BY <1>1, Invariance, PTL

(* Concurrent snapshot runs, restarts and late inserts never make a vote
   weigh anything but its voter's eligibility row
   (createEligibilitySnapshots, castVote). *)
THEOREM VotesCarryTheirSnapshot == Spec \/ BallotSpec => []VoteCarriesSnapshot
<1>1. IInv => VoteCarriesSnapshot
  BY DEF IInv, VotesFit, VoteCarriesSnapshot, Voters
<1> QED
  BY <1>1, Invariance, PTL

(* Whichever of the tallies completes the cycle, and whatever is inserted
   while they run, the winner is what the votes give, all of them but some
   that were in flight when the ballot closed (closeBallotAndTally,
   manualTally, runTally). *)
THEOREM WinnerFollowsTheVotes == Spec \/ BallotSpec => []WinnerIsVotes
<1>1. IInv => WinnerIsVotes
  BY DEF IInv, TallyFits, Found, WinnerIsVotes
<1> QED
  BY <1>1, Invariance, PTL

(* Unless an edit landed late, every vote is for a prize of the cycle, and
   of the users whose account is as it was when the cycle was completed no
   more claim the grand prize than it has recipients - whoever else earns
   points, is deleted or is restored meanwhile (updateCycle, castVote,
   claimPrize, getPrizeWinners). *)
THEOREM OutcomeStandsAsAnnounced == Spec \/ BallotSpec => []OutcomeAsAnnounced
<1>1. IInv => OutcomeAsAnnounced
  BY DEF IInv, VotesFit, ClaimsFit, OutcomeAsAnnounced, Voters
<1> QED
  BY <1>1, Invariance, PTL
================================================================================
