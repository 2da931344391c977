---------------------------- MODULE PayoutProofs ----------------------------
(***************************************************************************)
(* The lock of the scheduled jobs implements mutual exclusion, and so does *)
(* the payout that runs under it, for any jobs, runners, tokens, merchants *)
(* and settlements.  The wallets are conserved, and a settlement is only   *)
(* transferred twice for one of the reasons the property names.            *)
(***************************************************************************)
EXTENDS Payout, FiniteSetTheorems, TLAPS

(* Whoever is between taking a lock and releasing it holds a token. *)
Holding(r) == run[r].step \in {"task", "release"}

(* The holder of a lock executes under the key that carries its token, and
   no other runner ever had that token: a late release cannot match it. *)
KeyOfTheRunning ==
    \A r \in Runner, j \in Job : Executing(r, j) => key[j] = run[r].token

TokensDiffer ==
    \A r, s \in Runner : Holding(r) /\ Holding(s) /\ run[r].token = run[s].token => r = s

LockInv == LockTypeOK /\ KeyOfTheRunning /\ TokensDiffer

-----------------------------------------------------------------------------
LEMMA LockStarts ==
  LockInit => LockInv
BY NoneAssumption DEF LockInit, LockInv, LockTypeOK, KeyOfTheRunning, TokensDiffer,
                      Holding, Executing, Idle

(* A token won is fresh. *)
LEMMA WinKeeps ==
  ASSUME LockInv, NEW r \in Runner, NEW j \in Job, Win(r, j)
  PROVE  LockInv'
<1> DEFINE t == CHOOSE x \in Token \ InUse : TRUE
<1>1. t \in Token /\ t \notin InUse
  BY DEF Win
<1>2. /\ key' = [key EXCEPT ![j] = t]
      /\ run' = [run EXCEPT ![r] = [job |-> j, token |-> t, step |-> "task"]]
      /\ run[r] = Idle /\ key[j] = None
  BY DEF Win
<1> HIDE DEF t
<1>3. LockTypeOK'
  BY <1>1, <1>2 DEF LockInv, LockTypeOK
<1>4. \A s \in Runner : run[s].token # t
  BY <1>1 DEF InUse
<1>5. KeyOfTheRunning'
  <2> SUFFICES ASSUME NEW s \in Runner, NEW i \in Job, Executing(s, i)'
               PROVE  key'[i] = run'[s].token
    BY DEF KeyOfTheRunning
  <2>1. CASE s = r
    BY <1>2, <2>1 DEF LockInv, LockTypeOK, Executing
  <2>2. CASE s # r
    <3>1. run'[s] = run[s] /\ Executing(s, i)
      BY <1>2, <2>2 DEF LockInv, LockTypeOK, Executing
    <3>2. run[s].token \in Token /\ key[i] = run[s].token
      BY <3>1 DEF LockInv, LockTypeOK, KeyOfTheRunning, Executing, Idle
    <3>3. i # j
      BY <1>2, <3>2, NoneAssumption
    <3> QED
      BY <1>2, <3>1, <3>2, <3>3 DEF LockInv, LockTypeOK
  <2> QED
    BY <2>1, <2>2
<1>6. TokensDiffer'
  BY <1>2, <1>4 DEF LockInv, LockTypeOK, TokensDiffer, Holding
<1> QED
  BY <1>3, <1>5, <1>6 DEF LockInv

(* Only the token of a runner that has ended its task is compared. *)
LEMMA ReleaseKeeps ==
  ASSUME LockInv, NEW r \in Runner, Release(r)
  PROVE  LockInv'
<1>1. LockTypeOK'
  BY DEF LockInv, LockTypeOK, Release, Idle
<1>2. KeyOfTheRunning'
  <2> SUFFICES ASSUME NEW s \in Runner, NEW j \in Job, Executing(s, j)'
               PROVE  key'[j] = run'[s].token
    BY DEF KeyOfTheRunning
  <2>1. s # r /\ run'[s] = run[s] /\ Executing(s, j)
    BY NoneAssumption DEF LockInv, LockTypeOK, Release, Idle, Executing
  <2>2. key[j] = run[s].token /\ run[s].token # run[r].token
    BY <2>1 DEF LockInv, KeyOfTheRunning, TokensDiffer, Holding, Executing, Release
  <2> QED
    BY <2>1, <2>2 DEF LockInv, LockTypeOK, Release
<1>3. TokensDiffer'
  BY DEF LockInv, LockTypeOK, TokensDiffer, Holding, Release, Idle
<1> QED
  BY <1>1, <1>2, <1>3 DEF LockInv

LEMMA EndTaskKeeps ==
  ASSUME LockInv, NEW r \in Runner, EndTask(r)
  PROVE  LockInv'
<1>1. LockTypeOK'
  BY DEF LockInv, LockTypeOK, EndTask, Idle
<1>2. KeyOfTheRunning'
  BY DEF LockInv, LockTypeOK, KeyOfTheRunning, EndTask, Executing
<1>3. TokensDiffer'
  BY DEF LockInv, LockTypeOK, TokensDiffer, Holding, EndTask
<1> QED
  BY <1>1, <1>2, <1>3 DEF LockInv

LEMMA CrashKeeps ==
  ASSUME LockInv, NEW r \in Runner, Crash(r)
  PROVE  LockInv'
<1>1. LockTypeOK'
  BY DEF LockInv, LockTypeOK, Crash, Idle
<1>2. KeyOfTheRunning'
  BY DEF LockInv, LockTypeOK, KeyOfTheRunning, Crash, Executing, Idle
<1>3. TokensDiffer'
  BY DEF LockInv, LockTypeOK, TokensDiffer, Holding, Crash, Idle
<1> QED
  BY <1>1, <1>2, <1>3 DEF LockInv

(* The key of a task outlives it: this is where the TTL matters. *)
LEMMA ExpireKeeps ==
  ASSUME LockInv, NEW j \in Job, Expire(j)
  PROVE  LockInv'
<1>1. LockTypeOK'
  BY DEF LockInv, LockTypeOK, Expire
<1>2. KeyOfTheRunning'
  BY DEF LockInv, LockTypeOK, KeyOfTheRunning, Expire, Executing
<1>3. TokensDiffer'
  BY DEF LockInv, TokensDiffer, Holding, Expire
<1> QED
  BY <1>1, <1>2, <1>3 DEF LockInv

LEMMA LockKeeps ==
  LockInv /\ [LockStep]_lockVars => LockInv'
<1> SUFFICES ASSUME LockInv, [LockStep]_lockVars PROVE LockInv'
  OBVIOUS
<1>1. CASE \E r \in Runner, j \in Job : Win(r, j)
  BY <1>1, WinKeeps
<1>2. CASE \E r \in Runner : EndTask(r) \/ Release(r) \/ Crash(r)
  BY <1>2, EndTaskKeeps, ReleaseKeeps, CrashKeeps
<1>3. CASE \E j \in Job : Expire(j)
  BY <1>3, ExpireKeeps
<1>4. CASE UNCHANGED lockVars
  BY <1>4 DEF lockVars, LockInv, LockTypeOK, KeyOfTheRunning, TokensDiffer,
              Holding, Executing
<1> QED
  BY <1>1, <1>2, <1>3, <1>4 DEF LockStep

-----------------------------------------------------------------------------
(* Who runs: what each step of the lock does to it. *)

LEMMA RunningStarts ==
  LockInit => Abstract!Init
BY DEF LockInit, Abstract!Init, Running, Executing, Idle

LEMMA WinStarts ==
  ASSUME LockInv, NEW r \in Runner, NEW j \in Job, Win(r, j)
  PROVE  Abstract!Start(r, j)
<1> DEFINE t == CHOOSE x \in Token \ InUse : TRUE
<1>1. /\ run' = [run EXCEPT ![r] = [job |-> j, token |-> t, step |-> "task"]]
      /\ run[r] = Idle /\ key[j] = None
  BY DEF Win
<1> HIDE DEF t
<1>2. \A s \in Runner : ~Executing(s, j)
  BY <1>1, NoneAssumption DEF LockInv, LockTypeOK, KeyOfTheRunning, Executing, Idle
<1>3. Running[j] = {}
  BY <1>2 DEF Running
<1>4. \A i \in Job : i # j => \A s \in Runner : Executing(s, i)' <=> Executing(s, i)
  BY <1>1 DEF LockInv, LockTypeOK, Executing, Idle
<1>5. \A s \in Runner : Executing(s, j)' <=> s = r
  BY <1>1, <1>2 DEF LockInv, LockTypeOK, Executing
<1>6. Running' = [Running EXCEPT ![j] = {r}]
  BY <1>4, <1>5 DEF Running
<1> QED
  BY <1>3, <1>6 DEF Abstract!Start

(* A runner that leaves its task stops the job it executed. *)
LEMMA LeavingStops ==
  ASSUME LockInv, NEW r \in Runner, run[r].step = "task",
         \/ run' = [run EXCEPT ![r] = Idle]
         \/ run' = [run EXCEPT ![r].step = "release"]
  PROVE  Abstract!Stop(r, run[r].job)
<1> DEFINE j == run[r].job
<1>1. j \in Job
  BY DEF LockInv, LockTypeOK, Idle
<1>2. Executing(r, j)
  BY DEF Executing
<1>3. \A i \in Job, s \in Runner : Executing(s, i)' <=> Executing(s, i) /\ s # r
  BY DEF LockInv, LockTypeOK, Executing, Idle
<1>4. \A i \in Job : i # j => ~Executing(r, i)
  BY DEF Executing
<1>5. Running' = [Running EXCEPT ![j] = @ \ {r}]
  BY <1>1, <1>3, <1>4, ZenonT(40) DEF Running
<1>6. r \in Running[j]
  BY <1>1, <1>2 DEF Running
<1> QED
  BY <1>5, <1>6 DEF Abstract!Stop

LEMMA IdleStays ==
  ASSUME LockInv, NEW r \in Runner, run[r].step # "task",
         run' = [run EXCEPT ![r] = Idle]
  PROVE  UNCHANGED Running
<1>1. \A i \in Job, s \in Runner : Executing(s, i)' <=> Executing(s, i)
  BY DEF LockInv, LockTypeOK, Executing, Idle
<1> QED
  BY <1>1 DEF Running

LEMMA LockImplements ==
  LockInv /\ [LockStep]_lockVars => [Abstract!Next]_Running
<1> SUFFICES ASSUME LockInv, [LockStep]_lockVars
             PROVE  Abstract!Next \/ UNCHANGED Running
  OBVIOUS
<1>1. ASSUME NEW r \in Runner, NEW j \in Job, Win(r, j)
      PROVE  Abstract!Next
  BY <1>1, WinStarts DEF Abstract!Next
<1>2. ASSUME NEW r \in Runner, EndTask(r)
      PROVE  Abstract!Next
  <2>1. Abstract!Stop(r, run[r].job)
    BY <1>2, LeavingStops DEF EndTask
  <2>2. run[r].job \in Job
    BY <1>2 DEF EndTask, LockInv, LockTypeOK, Idle
  <2> QED
    BY <2>1, <2>2 DEF Abstract!Next
<1>3. ASSUME NEW r \in Runner, Crash(r)
      PROVE  Abstract!Next \/ UNCHANGED Running
  <2>1. CASE run[r].step = "task"
    <3>1. Abstract!Stop(r, run[r].job)
      BY <1>3, <2>1, LeavingStops DEF Crash
    <3>2. run[r].job \in Job
      BY <2>1 DEF LockInv, LockTypeOK, Idle
    <3> QED
      BY <3>1, <3>2 DEF Abstract!Next
  <2>2. CASE run[r].step # "task"
    BY <1>3, <2>2, IdleStays DEF Crash
  <2> QED
    BY <2>1, <2>2
<1>4. ASSUME NEW r \in Runner, Release(r)
      PROVE  UNCHANGED Running
  BY <1>4, IdleStays DEF Release
<1>5. ASSUME NEW j \in Job, Expire(j)
      PROVE  UNCHANGED Running
  BY <1>5 DEF Expire, Running, Executing
<1>6. CASE UNCHANGED lockVars
  BY <1>6 DEF lockVars, Running, Executing
<1> QED
  BY <1>1, <1>2, <1>3, <1>4, <1>5, <1>6 DEF LockStep

(* The lock by itself implements mutual exclusion: two replicas never
   execute one scheduled job at a time, although keys expire, releases come
   late or never and processes die, as long as a key outlives its task. *)
THEOREM LockImplementsExclusion == LockSpec => Abstract!Spec
<1>1. LockInit => LockInv /\ Abstract!Init
  BY LockStarts, RunningStarts
<1> QED
  BY <1>1, LockKeeps, LockImplements, PTL DEF LockSpec, Abstract!Spec

-----------------------------------------------------------------------------
(* Every step of the payout takes a step of the lock, or none. *)
LEMMA PayoutLocks ==
  [Next]_vars => [LockStep]_lockVars
<1> SUFFICES ASSUME [Next]_vars PROVE LockStep \/ UNCHANGED lockVars
  OBVIOUS
<1>1. CASE LockOnly
  BY <1>1 DEF LockOnly, LockStep
<1>2. CASE \E e \in Entry : ConfirmPickup(e)
  BY <1>2 DEF ConfirmPickup
<1>3. ASSUME NEW r \in Runner, Batch(r)
      PROVE  LockStep \/ UNCHANGED lockVars
  <2>1. CASE EndBatch(r)
    BY <2>1 DEF EndBatch, LockStep
  <2>2. CASE AggregatePending(r) \/ AggregateFailed(r) \/ Transfer(r) \/ MerchantsDone(r)
    BY <2>2 DEF AggregatePending, AggregateFailed, Transfer, MerchantsDone
  <2>3. CASE Mark(r) \/ MarkThrows(r)
    BY <2>3 DEF Mark, MarkThrows
  <2>4. CASE \E m \in Merchant : TakeMerchant(r, m) \/ PayWallet(r, m) \/ WalletThrows(r, m)
    BY <2>4 DEF TakeMerchant, PayWallet, WalletThrows
  <2> QED
    BY <1>3, <2>1, <2>2, <2>3, <2>4 DEF Batch
<1>4. CASE \E r \in Runner : CrashBatch(r)
  BY <1>4 DEF CrashBatch, LockStep
<1>5. CASE UNCHANGED vars
  BY <1>5 DEF vars
<1> QED
  BY <1>1, <1>2, <1>3, <1>4, <1>5 DEF Next

(* Neither the weekly batch nor the retry ever runs twice at once. *)
THEOREM PayoutRunsExclusively == Spec => RunsExclusively
<1>1. Init => LockInit
  BY DEF Init
<1> QED
  BY <1>1, PayoutLocks, LockImplementsExclusion, PTL DEF Spec, LockSpec, RunsExclusively

-----------------------------------------------------------------------------
(* The books.  A batch that has begun executes under its lock, and what it
   has read is booked. *)
BatchesRun == \A r \in Runner : work[r].at # "start" => run[r].step = "task"
ReadIsBooked == \A r \in Runner : \A e \in work[r].read : status[e] # "none"

(* A transfer the bank accepted is about to be marked. *)
Covered(e) == \E r \in Runner : work[r].at = "mark" /\ work[r].ok /\ e \in work[r].read

(* An entry that no batch dropped and no two jobs shared is in the hands of
   one batch at most, is pending while it is, and was transferred once at
   most: if it still is to be paid, by the batch that is about to mark it. *)
EntryFits(e) ==
    /\ \A r, s \in Runner : e \in InHand(r) /\ e \in InHand(s) => r = s
    /\ \A r \in Runner : e \in InHand(r) => status[e] = "pending"
    /\ sent[e] <= 1
    /\ status[e] \in {"none", "pending"} /\ sent[e] > 0 => Covered(e)

EntriesFit == \A e \in Entry \ (torn \cup shared) : EntryFits(e)

PayoutInv ==
    TypeOK /\ LockInv /\ WalletConserved /\ BatchesRun /\ ReadIsBooked /\ EntriesFit

(* The lock does its part whatever the batch does. *)
LEMMA LockHolds ==
  ASSUME PayoutInv, [Next]_vars
  PROVE  LockInv'
BY PayoutLocks, LockKeeps DEF PayoutInv

(* The bookings of a merchant are finitely many. *)
LEMMA Booked ==
  ASSUME NEW m \in Merchant
  PROVE  /\ IsFiniteSet({e \in Of(m) : status[e] # "none"})
         /\ Cardinality({e \in Of(m) : status[e] # "none"}) \in Nat
         /\ Cardinality({e \in Of(m) : status[e] # "none"}) <= Cardinality(Entry)
<1> DEFINE booked == {e \in Of(m) : status[e] # "none"}
<1>1. booked \in SUBSET Entry
  BY DEF Of
<1>2. IsFiniteSet(Entry)
  BY MerchantAssumption
<1> HIDE DEF booked
<1>3. IsFiniteSet(booked) /\ Cardinality(booked) \in Nat /\ Cardinality(booked) <= Cardinality(Entry)
  BY <1>1, <1>2, FS_Subset, FS_CardinalityType
<1> QED
  BY <1>3 DEF booked

(* A step that moves no booking between "none" and the rest, and pays no
   wallet, conserves the wallets. *)
LEMMA WalletStands ==
  ASSUME PayoutInv, UNCHANGED <<available, paidOut>>,
         \A e \in Entry : status'[e] = "none" <=> status[e] = "none"
  PROVE  WalletConserved'
<1> SUFFICES ASSUME NEW m \in Merchant
             PROVE  available[m] + paidOut[m] = Cardinality({e \in Of(m) : status'[e] # "none"})
  BY DEF WalletConserved
<1>1. {e \in Of(m) : status'[e] # "none"} = {e \in Of(m) : status[e] # "none"}
  BY DEF Of
<1> QED
  BY <1>1 DEF PayoutInv, WalletConserved

LEMMA PayoutStarts ==
  Init => PayoutInv
<1> SUFFICES ASSUME Init PROVE PayoutInv
  OBVIOUS
<1>1. LockInv
  BY LockStarts DEF Init
<1>2. Cardinality(Entry) \in Nat
  BY MerchantAssumption, FS_CardinalityType
<1>3. TypeOK
  BY <1>1, <1>2 DEF Init, TypeOK, LockInv, NoWork
<1>4. WalletConserved
  <2> SUFFICES ASSUME NEW m \in Merchant
               PROVE  available[m] + paidOut[m] = Cardinality({e \in Of(m) : status[e] # "none"})
    BY DEF WalletConserved
  <2>1. {e \in Of(m) : status[e] # "none"} = {}
    BY DEF Init, Of
  <2> QED
    BY <2>1, FS_EmptySet DEF Init
<1>5. BatchesRun /\ ReadIsBooked /\ EntriesFit
  BY DEF Init, NoWork, BatchesRun, ReadIsBooked, EntriesFit, EntryFits, InHand
<1> QED
  BY <1>1, <1>3, <1>4, <1>5 DEF PayoutInv

-----------------------------------------------------------------------------
(* A pickup books an entry that nobody holds. *)
LEMMA ConfirmPickupKeeps ==
  ASSUME PayoutInv, NEW e \in Entry, ConfirmPickup(e), LockInv'
  PROVE  PayoutInv'
<1> DEFINE m == MerchantOf[e]
           booked(n) == {x \in Of(n) : status[x] # "none"}
<1>1. m \in Merchant /\ e \notin booked(m)
  BY MerchantAssumption DEF ConfirmPickup
<1>2. /\ status[e] = "none" /\ status' = [status EXCEPT ![e] = "pending"]
      /\ available' = [available EXCEPT ![m] = @ + 1]
      /\ UNCHANGED <<retries, paidOut, work, sent, torn, shared, run, key>>
  BY DEF ConfirmPickup, lockVars, ghostVars
<1>3. \A n \in Merchant : {x \in Of(n) : status'[x] # "none"} =
                             IF n = m THEN booked(n) \cup {e} ELSE booked(n)
  BY <1>2 DEF Of, PayoutInv, TypeOK
<1>4. \A n \in Merchant : IsFiniteSet(booked(n)) /\ Cardinality(booked(n)) \in Nat
  BY Booked
<1>5. Cardinality(booked(m) \cup {e}) = Cardinality(booked(m)) + 1
  BY <1>1, <1>4, FS_AddElement
<1>6. \A n \in Merchant : available[n] + paidOut[n] = Cardinality(booked(n))
  BY DEF PayoutInv, WalletConserved
<1>7. /\ available \in [Merchant -> Nat] /\ paidOut \in [Merchant -> Nat]
      /\ Cardinality(Entry) \in Nat
  BY MerchantAssumption, FS_CardinalityType DEF PayoutInv, TypeOK
<1> HIDE DEF m
<1>8. \A n \in Merchant : available'[n] + paidOut'[n] = Cardinality({x \in Of(n) : status'[x] # "none"})
  <2> SUFFICES ASSUME NEW n \in Merchant
               PROVE  available'[n] + paidOut'[n] = Cardinality({x \in Of(n) : status'[x] # "none"})
    OBVIOUS
  <2> HIDE DEF booked
  <2>1. CASE n = m
    <3>1. {x \in Of(n) : status'[x] # "none"} = booked(m) \cup {e}
      BY <2>1, <1>1, <1>3
    <3>2. available'[n] + paidOut'[n] = available[m] + paidOut[m] + 1
      BY <2>1, <1>1, <1>2, <1>7
    <3> QED
      BY <1>1, <1>5, <1>6, <3>1, <3>2
  <2>2. CASE n # m
    BY <2>2, <1>1, <1>2, <1>3, <1>4, <1>6, <1>7
  <2> QED
    BY <2>1, <2>2
<1>9. \A n \in Merchant : Cardinality({x \in Of(n) : status'[x] # "none"}) <= Cardinality(Entry)
  <2> SUFFICES ASSUME NEW n \in Merchant
               PROVE  Cardinality({x \in Of(n) : status'[x] # "none"}) <= Cardinality(Entry)
    OBVIOUS
  <2>1. {x \in Of(n) : status'[x] # "none"} \in SUBSET Entry
    BY DEF Of
  <2> QED
    BY <2>1, MerchantAssumption, FS_Subset
<1>10. available' \in [Merchant -> 0 .. Cardinality(Entry)]
  <2>1. available' \in [Merchant -> Nat]
    BY <1>1, <1>2, <1>7
  <2>2. \A n \in Merchant : available'[n] <= Cardinality(Entry)
    <3> SUFFICES ASSUME NEW n \in Merchant PROVE available'[n] <= Cardinality(Entry)
      OBVIOUS
    <3> DEFINE after == Cardinality({x \in Of(n) : status'[x] # "none"})
    <3>1. available'[n] + paidOut[n] = after /\ after <= Cardinality(Entry)
      BY <1>2, <1>8, <1>9
    <3> HIDE DEF after
    <3> QED
      BY <2>1, <3>1, <1>7
  <2> QED
    BY <1>7, <2>1, <2>2
<1>11. TypeOK'
  BY <1>2, <1>10 DEF PayoutInv, TypeOK, LockTypeOK
<1>12. WalletConserved'
  BY <1>8 DEF WalletConserved
<1>13. BatchesRun' /\ ReadIsBooked'
  BY <1>2 DEF PayoutInv, TypeOK, BatchesRun, ReadIsBooked
<1>14. EntriesFit'
  BY <1>2 DEF PayoutInv, TypeOK, EntriesFit, EntryFits, InHand, Covered
<1> QED
  BY <1>11, <1>12, <1>13, <1>14 DEF PayoutInv

(* The fields a step of a batch writes, as one record. *)
BatchWork == [at : {"start", "merchants", "transfer", "mark", "wallets", "end"},
              merchants : SUBSET Merchant, read : SUBSET Entry, ok : BOOLEAN]

LEMMA WriteTwo ==
  ASSUME TypeOK, NEW r \in Runner, NEW a, NEW ms
  PROVE  [work EXCEPT ![r].at = a, ![r].merchants = ms] =
           [work EXCEPT ![r] = [at |-> a, merchants |-> ms,
                                read |-> work[r].read, ok |-> work[r].ok]]
<1> DEFINE f == [work EXCEPT ![r].at = a]
           one == [at |-> a, merchants |-> work[r].merchants,
                   read |-> work[r].read, ok |-> work[r].ok]
           two == [at |-> a, merchants |-> ms, read |-> work[r].read, ok |-> work[r].ok]
<1>1. work[r] \in BatchWork /\ work = [s \in Runner |-> work[s]]
  BY DEF TypeOK, BatchWork
<1>2. [work[r] EXCEPT !.at = a] = one
  BY <1>1 DEF BatchWork
<1>3. [one EXCEPT !.merchants = ms] = two
  OBVIOUS
<1> HIDE DEF one, two
<1>4. f = [work EXCEPT ![r] = one]
  BY <1>2
<1> HIDE DEF f
<1>5. f[r] = one /\ [f EXCEPT ![r] = two] = [work EXCEPT ![r] = two]
  BY <1>1, <1>4
<1>6. [f EXCEPT ![r].merchants = ms] = [f EXCEPT ![r] = two]
  BY <1>3, <1>5
<1>7. [f EXCEPT ![r].merchants = ms] = [work EXCEPT ![r] = two]
  BY <1>5, <1>6
<1> QED
  BY <1>7 DEF f, two

Takes(r, a, ms, es) == [work EXCEPT ![r].merchants = ms, ![r].read = es, ![r].at = a]

LEMMA WriteThree ==
  ASSUME TypeOK, NEW r \in Runner, NEW a, NEW ms, NEW es
  PROVE  Takes(r, a, ms, es) =
           [work EXCEPT ![r] = [at |-> a, merchants |-> ms, read |-> es, ok |-> work[r].ok]]
<1> DEFINE f == [work EXCEPT ![r].merchants = ms]
           g == [f EXCEPT ![r].read = es]
           one == [at |-> work[r].at, merchants |-> ms, read |-> work[r].read, ok |-> work[r].ok]
           two == [at |-> work[r].at, merchants |-> ms, read |-> es, ok |-> work[r].ok]
           three == [at |-> a, merchants |-> ms, read |-> es, ok |-> work[r].ok]
<1>1. work[r] \in BatchWork /\ work = [s \in Runner |-> work[s]]
  BY DEF TypeOK, BatchWork
<1>2. [work[r] EXCEPT !.merchants = ms] = one
  BY <1>1 DEF BatchWork
<1>3. [one EXCEPT !.read = es] = two /\ [two EXCEPT !.at = a] = three
  OBVIOUS
<1> HIDE DEF one, two, three
<1>4. f = [work EXCEPT ![r] = one]
  BY <1>2
<1> HIDE DEF f
<1>5. f[r] = one /\ [f EXCEPT ![r] = two] = [work EXCEPT ![r] = two]
  BY <1>1, <1>4
<1>6. g = [f EXCEPT ![r] = two]
  BY <1>3, <1>5
<1> HIDE DEF g
<1>7. g = [work EXCEPT ![r] = two]
  BY <1>5, <1>6
<1>8. g[r] = two /\ [g EXCEPT ![r] = three] = [work EXCEPT ![r] = three]
  BY <1>1, <1>7
<1>9. [g EXCEPT ![r].at = a] = [g EXCEPT ![r] = three]
  BY <1>3, <1>8
<1>10. [g EXCEPT ![r].at = a] = [work EXCEPT ![r] = three]
  BY <1>8, <1>9
<1> QED
  BY <1>10 DEF f, g, three, Takes

LEMMA WriteAnswer ==
  ASSUME TypeOK, NEW r \in Runner, NEW x
  PROVE  [work EXCEPT ![r].at = "mark", ![r].ok = x] =
           [work EXCEPT ![r] = [at |-> "mark", merchants |-> work[r].merchants,
                                read |-> work[r].read, ok |-> x]]
<1> DEFINE f == [work EXCEPT ![r].at = "mark"]
           one == [at |-> "mark", merchants |-> work[r].merchants,
                   read |-> work[r].read, ok |-> work[r].ok]
           two == [at |-> "mark", merchants |-> work[r].merchants,
                   read |-> work[r].read, ok |-> x]
<1>1. work[r] \in BatchWork /\ work = [s \in Runner |-> work[s]]
  BY DEF TypeOK, BatchWork
<1>2. [work[r] EXCEPT !.at = "mark"] = one
  BY <1>1 DEF BatchWork
<1>3. [one EXCEPT !.ok = x] = two
  OBVIOUS
<1> HIDE DEF one, two
<1>4. f = [work EXCEPT ![r] = one]
  BY <1>2
<1> HIDE DEF f
<1>5. f[r] = one /\ [f EXCEPT ![r] = two] = [work EXCEPT ![r] = two]
  BY <1>1, <1>4
<1>6. [f EXCEPT ![r].ok = x] = [f EXCEPT ![r] = two]
  BY <1>3, <1>5
<1>7. [f EXCEPT ![r].ok = x] = [work EXCEPT ![r] = two]
  BY <1>5, <1>6
<1> QED
  BY <1>7 DEF f, two

LEMMA WriteMarked ==
  ASSUME TypeOK, NEW r \in Runner, NEW no
  PROVE  [work EXCEPT ![r].at = "merchants", ![r].read = {}, ![r].ok = no] =
           [work EXCEPT ![r] = [at |-> "merchants", merchants |-> work[r].merchants,
                                read |-> {}, ok |-> no]]
<1> DEFINE f == [work EXCEPT ![r].at = "merchants"]
           g == [f EXCEPT ![r].read = {}]
           one == [at |-> "merchants", merchants |-> work[r].merchants,
                   read |-> work[r].read, ok |-> work[r].ok]
           two == [at |-> "merchants", merchants |-> work[r].merchants,
                   read |-> {}, ok |-> work[r].ok]
           three == [at |-> "merchants", merchants |-> work[r].merchants,
                     read |-> {}, ok |-> no]
<1>1. work[r] \in BatchWork /\ work = [s \in Runner |-> work[s]]
  BY DEF TypeOK, BatchWork
<1>2. [work[r] EXCEPT !.at = "merchants"] = one
  BY <1>1 DEF BatchWork
<1>3. [one EXCEPT !.read = {}] = two
  OBVIOUS
<1>4. [two EXCEPT !.ok = no] = three
  OBVIOUS
<1> HIDE DEF one, two, three
<1>5. f = [work EXCEPT ![r] = one]
  BY <1>2
<1> HIDE DEF f
<1>6. f[r] = one /\ [f EXCEPT ![r] = two] = [work EXCEPT ![r] = two]
  BY <1>1, <1>5
<1>7. g = [f EXCEPT ![r] = two]
  BY <1>3, <1>6
<1> HIDE DEF g
<1>8. g = [work EXCEPT ![r] = two]
  BY <1>6, <1>7
<1>9. g[r] = two /\ [g EXCEPT ![r] = three] = [work EXCEPT ![r] = three]
  BY <1>1, <1>8
<1>10. [g EXCEPT ![r].ok = no] = [g EXCEPT ![r] = three]
  BY <1>4, <1>9
<1>11. [g EXCEPT ![r].ok = no] = [work EXCEPT ![r] = three]
  BY <1>9, <1>10
<1> QED
  BY <1>11 DEF f, g, three

(* A batch reads which merchants to serve, or goes on to the next part. *)
LEMMA TurnKeeps ==
  ASSUME PayoutInv, LockInv', NEW r \in Runner, run[r].step = "task",
         UNCHANGED <<run, key, status, retries, available, paidOut, sent>>,
         NEW next \in [at : {"merchants", "wallets", "end"}, merchants : SUBSET Merchant,
                       read : SUBSET Entry, ok : BOOLEAN],
         next.read \subseteq work[r].read,
         work' = [work EXCEPT ![r] = next],
         shared' = shared,
         torn' = torn \/ torn' = torn \cup work[r].read,
         work[r].at = "mark" /\ work[r].ok => torn' = torn \cup work[r].read
  PROVE  PayoutInv'
<1>1. TypeOK'
  <2>1. torn' \in SUBSET Entry
    BY DEF PayoutInv, TypeOK
  <2> QED
    BY <2>1 DEF PayoutInv, TypeOK, LockTypeOK
<1>2. WalletConserved'
  BY WalletStands
<1>3. BatchesRun' /\ ReadIsBooked'
  BY DEF PayoutInv, TypeOK, BatchesRun, ReadIsBooked
<1>4. EntriesFit'
  <2> SUFFICES ASSUME NEW e \in Entry, e \notin torn', e \notin shared
               PROVE  EntryFits(e)'
    BY DEF EntriesFit
  <2>1. EntryFits(e)
    BY DEF PayoutInv, EntriesFit
  <2>2. \A s \in Runner : e \in InHand(s)' => e \in InHand(s)
    BY DEF PayoutInv, TypeOK, InHand
  <2>3. Covered(e) => Covered(e)'
    BY DEF PayoutInv, TypeOK, Covered
  <2> QED
    BY <2>1, <2>2, <2>3 DEF EntryFits
<1> QED
  BY <1>1, <1>2, <1>3, <1>4 DEF PayoutInv

LEMMA AggregatePendingKeeps ==
  ASSUME PayoutInv, LockInv', NEW r \in Runner, AggregatePending(r)
  PROVE  PayoutInv'
<1> DEFINE next == [at |-> IF Pending = {} THEN "end" ELSE "merchants",
                    merchants |-> Owing(Pending), read |-> work[r].read, ok |-> work[r].ok]
<1>1. Owing(Pending) \in SUBSET Merchant
  BY MerchantAssumption DEF Owing, Pending
<1>2. next \in [at : {"merchants", "wallets", "end"}, merchants : SUBSET Merchant,
                 read : SUBSET Entry, ok : BOOLEAN]
  BY <1>1 DEF PayoutInv, TypeOK
<1>3. work' = [work EXCEPT ![r] = next] /\ next.read \subseteq work[r].read
  <2> DEFINE a == IF Pending = {} THEN "end" ELSE "merchants"
             ms == Owing(Pending)
  <2>1. a \in {"merchants", "transfer", "end"} /\ ms \in SUBSET Merchant /\ TypeOK
    BY <1>1 DEF PayoutInv
  <2>2. work' = [work EXCEPT ![r].at = a, ![r].merchants = ms]
    BY DEF AggregatePending
  <2> HIDE DEF a, ms
  <2>3. work' = [work EXCEPT ![r] = [at |-> a, merchants |-> ms,
                                     read |-> work[r].read, ok |-> work[r].ok]]
    BY <2>1, <2>2, WriteTwo
  <2> QED
    BY <2>3 DEF a, ms
<1>4. /\ run[r].step = "task" /\ work[r].at = "start"
      /\ UNCHANGED <<run, key, status, retries, available, paidOut, sent, torn, shared>>
  BY DEF AggregatePending, Executing, lockVars, bookVars, ghostVars
<1> HIDE DEF next
<1> QED
  BY <1>2, <1>3, <1>4, TurnKeeps

LEMMA AggregateFailedKeeps ==
  ASSUME PayoutInv, LockInv', NEW r \in Runner, AggregateFailed(r)
  PROVE  PayoutInv'
<1>1. PICK ripe \in SUBSET {e \in Entry : status[e] = "failed" /\ retries[e] < MAX_RETRIES} :
         work' = [work EXCEPT ![r].at = IF ripe = {} THEN "end" ELSE "merchants",
                              ![r].merchants = Owing(ripe)]
  BY DEF AggregateFailed
<1> DEFINE next == [at |-> IF ripe = {} THEN "end" ELSE "merchants",
                    merchants |-> Owing(ripe), read |-> work[r].read, ok |-> work[r].ok]
<1>2. Owing(ripe) \in SUBSET Merchant
  BY MerchantAssumption DEF Owing
<1>3. next \in [at : {"merchants", "wallets", "end"}, merchants : SUBSET Merchant,
                 read : SUBSET Entry, ok : BOOLEAN]
  BY <1>2 DEF PayoutInv, TypeOK
<1>4. work' = [work EXCEPT ![r] = next] /\ next.read \subseteq work[r].read
  <2> DEFINE a == IF ripe = {} THEN "end" ELSE "merchants"
             ms == Owing(ripe)
  <2>1. a \in {"merchants", "transfer", "end"} /\ ms \in SUBSET Merchant /\ TypeOK
    BY <1>2 DEF PayoutInv
  <2>2. work' = [work EXCEPT ![r].at = a, ![r].merchants = ms]
    BY <1>1
  <2> HIDE DEF a, ms
  <2>3. work' = [work EXCEPT ![r] = [at |-> a, merchants |-> ms,
                                     read |-> work[r].read, ok |-> work[r].ok]]
    BY <2>1, <2>2, WriteTwo
  <2> QED
    BY <2>3 DEF a, ms
<1>5. /\ run[r].step = "task" /\ work[r].at = "start"
      /\ UNCHANGED <<run, key, status, retries, available, paidOut, sent, torn, shared>>
  BY DEF AggregateFailed, Executing, lockVars, bookVars, ghostVars
<1> HIDE DEF next
<1> QED
  BY <1>3, <1>4, <1>5, TurnKeeps

LEMMA MerchantsDoneKeeps ==
  ASSUME PayoutInv, LockInv', NEW r \in Runner, MerchantsDone(r)
  PROVE  PayoutInv'
<1> DEFINE next == IF Executing(r, Weekly)
                     THEN [NoWork EXCEPT !.at = "wallets",
                                         !.merchants = {m \in Merchant : available[m] > 0}]
                     ELSE [NoWork EXCEPT !.at = "end"]
<1>1. next \in [at : {"merchants", "wallets", "end"}, merchants : SUBSET Merchant,
                 read : SUBSET Entry, ok : BOOLEAN]
  BY DEF NoWork
<1>2. next.read = {}
  BY DEF NoWork
<1>3. /\ run[r].step = "task" /\ work[r].at = "merchants" /\ work' = [work EXCEPT ![r] = next]
      /\ UNCHANGED <<run, key, status, retries, available, paidOut, sent, torn, shared>>
  BY DEF MerchantsDone, lockVars, bookVars, ghostVars
<1> HIDE DEF next
<1> QED
  BY <1>1, <1>2, <1>3, TurnKeeps

(* A transfer that is never marked leaves its entries torn. *)
LEMMA MarkThrowsKeeps ==
  ASSUME PayoutInv, LockInv', NEW r \in Runner, MarkThrows(r)
  PROVE  PayoutInv'
<1> DEFINE next == IF Executing(r, Weekly)
                     THEN [work[r] EXCEPT !.at = "merchants", !.read = {}, !.ok = FALSE]
                     ELSE [NoWork EXCEPT !.at = "end"]
<1>1. next \in [at : {"merchants", "wallets", "end"}, merchants : SUBSET Merchant,
                 read : SUBSET Entry, ok : BOOLEAN]
  BY DEF NoWork, PayoutInv, TypeOK
<1>2. next.read = {}
  BY DEF NoWork, PayoutInv, TypeOK
<1>3. /\ run[r].step = "task" /\ work' = [work EXCEPT ![r] = next]
      /\ UNCHANGED <<run, key, status, retries, available, paidOut, sent, shared>>
      /\ torn' = IF work[r].ok THEN torn \cup work[r].read ELSE torn
  BY DEF MarkThrows, lockVars, bookVars
<1> HIDE DEF next
<1> QED
  BY <1>1, <1>2, <1>3, TurnKeeps

LEMMA WalletThrowsKeeps ==
  ASSUME PayoutInv, LockInv', NEW r \in Runner, NEW m \in Merchant, WalletThrows(r, m)
  PROVE  PayoutInv'
<1> DEFINE next == [work[r] EXCEPT !.merchants = @ \ {m}]
<1>1. next \in [at : {"merchants", "wallets", "end"}, merchants : SUBSET Merchant,
                 read : SUBSET Entry, ok : BOOLEAN]
  BY DEF WalletThrows, PayoutInv, TypeOK
<1>2. next.read \subseteq work[r].read
  BY DEF PayoutInv, TypeOK
<1>3. /\ run[r].step = "task" /\ work[r].at = "wallets" /\ work' = [work EXCEPT ![r] = next]
      /\ UNCHANGED <<run, key, status, retries, available, paidOut, sent, torn, shared>>
  BY DEF WalletThrows, lockVars, bookVars, ghostVars
<1> HIDE DEF next
<1> QED
  BY <1>1, <1>2, <1>3, TurnKeeps

(* The lock keeps a second batch of the same job away from the entries, and
   one of the other job has them in its hands only if they are shared. *)
LEMMA TakeMerchantKeeps ==
  ASSUME PayoutInv, LockInv', NEW r \in Runner, NEW m \in Merchant, TakeMerchant(r, m)
  PROVE  PayoutInv'
<1> DEFINE read == Pending \cap Of(m)
           next == [at |-> IF read = {} THEN "merchants" ELSE "transfer",
                    merchants |-> work[r].merchants \ {m}, read |-> read, ok |-> work[r].ok]
           held == UNION {InHand(s) : s \in {x \in Runner : run[x].job # run[r].job}}
<1>1. read \in SUBSET Entry /\ \A e \in read : status[e] = "pending"
  BY DEF Pending
<1>2. next \in [at : {"start", "merchants", "transfer", "mark", "wallets", "end"},
                 merchants : SUBSET Merchant, read : SUBSET Entry, ok : BOOLEAN]
  BY <1>1 DEF PayoutInv, TypeOK
<1>3. work' = [work EXCEPT ![r] = next]
  <2> DEFINE a == IF read = {} THEN "merchants" ELSE "transfer"
             ms == work[r].merchants \ {m}
  <2>1. /\ a \in {"merchants", "transfer", "end"} /\ read \in SUBSET Entry
        /\ ms \in SUBSET Merchant /\ TypeOK
    BY <1>1 DEF PayoutInv, TypeOK
  <2>2. work' = [work EXCEPT ![r].merchants = @ \ {m}, ![r].read = read, ![r].at = a]
    BY DEF TakeMerchant
  <2>3. work' = Takes(r, a, ms, read)
    BY <2>2 DEF Takes
  <2> HIDE DEF a, ms, read
  <2>4. work' = [work EXCEPT ![r] = [at |-> a, merchants |-> ms, read |-> read,
                                     ok |-> work[r].ok]]
    <3>1. TypeOK
      BY <2>1
    <3>2. Takes(r, a, ms, read) =
            [work EXCEPT ![r] = [at |-> a, merchants |-> ms, read |-> read, ok |-> work[r].ok]]
      BY <3>1, WriteThree
    <3> QED
      BY <2>3, <3>2, Zenon
  <2> QED
    BY <2>4 DEF a, ms
<1>4. next.read = read /\ next.at \in {"merchants", "transfer"}
  OBVIOUS
<1>5. shared' = shared \cup (read \cap held)
  BY DEF TakeMerchant
<1>6. /\ run[r].step = "task" /\ work[r].at = "merchants"
      /\ UNCHANGED <<run, key, status, retries, available, paidOut, sent, torn>>
  BY DEF TakeMerchant, lockVars, bookVars
<1> HIDE DEF next, read, held
<1>7. TypeOK'
  BY <1>1, <1>2, <1>3, <1>5, <1>6 DEF PayoutInv, TypeOK, LockTypeOK
<1>8. WalletConserved'
  BY <1>6, WalletStands
<1>9. BatchesRun' /\ ReadIsBooked'
  BY <1>1, <1>3, <1>4, <1>6 DEF PayoutInv, TypeOK, BatchesRun, ReadIsBooked
<1>10. EntriesFit'
  <2> SUFFICES ASSUME NEW e \in Entry, e \notin torn, e \notin shared'
               PROVE  EntryFits(e)'
    BY <1>6 DEF EntriesFit
  <2>1. EntryFits(e)
    BY <1>5, <1>6 DEF PayoutInv, EntriesFit
  <2>2. \A s \in Runner : s # r => InHand(s)' = InHand(s)
    BY <1>3 DEF PayoutInv, TypeOK, InHand
  <2>3. e \in InHand(r)' => e \in read
    BY <1>3, <1>4 DEF PayoutInv, TypeOK, InHand
  <2>4. ASSUME e \in read, NEW s \in Runner, s # r
        PROVE  e \notin InHand(s)
    <3> SUFFICES ASSUME e \in InHand(s) PROVE FALSE
      OBVIOUS
    <3>1. run[s].job = run[r].job
      BY <2>4, <1>5 DEF held
    <3>2. run[s].step = "task"
      BY DEF InHand, PayoutInv, BatchesRun
    <3>3. run[r].job \in Job
      BY <1>6 DEF PayoutInv, LockInv, LockTypeOK, Idle
    <3> QED
      BY <1>6, <2>4, <3>1, <3>2, <3>3
         DEF PayoutInv, LockInv, KeyOfTheRunning, TokensDiffer, Holding, Executing
  <2>5. Covered(e) => Covered(e)'
    BY <1>3, <1>6 DEF PayoutInv, TypeOK, Covered
  <2> QED
    BY <1>1, <1>6, <2>1, <2>2, <2>3, <2>4, <2>5 DEF EntryFits
<1> QED
  BY <1>7, <1>8, <1>9, <1>10 DEF PayoutInv

(* The entries that are transferred are in one batch's hands: none of them
   was transferred before, if it is neither torn nor shared. *)
LEMMA TransferKeeps ==
  ASSUME PayoutInv, LockInv', NEW r \in Runner, Transfer(r)
  PROVE  PayoutInv'
<1>1. PICK ok \in BOOLEAN :
        /\ work' = [work EXCEPT ![r].at = "mark", ![r].ok = ok]
        /\ sent' = [e \in Entry |-> IF ok /\ e \in work[r].read
                                       THEN UpTo2(sent[e] + 1) ELSE sent[e]]
  BY DEF Transfer
<1> DEFINE next == [at |-> "mark", merchants |-> work[r].merchants,
                    read |-> work[r].read, ok |-> ok]
<1>2. work' = [work EXCEPT ![r] = next]
  BY <1>1, WriteAnswer DEF PayoutInv
<1>3. /\ next \in BatchWork /\ next.at = "mark" /\ next.read = work[r].read /\ next.ok = ok
  BY DEF PayoutInv, TypeOK, BatchWork
<1>4. /\ run[r].step = "task" /\ work[r].at = "transfer"
      /\ UNCHANGED <<run, key, status, retries, available, paidOut, torn, shared>>
  BY DEF Transfer, lockVars, bookVars
<1> HIDE DEF next
<1>5. \A e \in Entry : sent'[e] \in 0 .. 2
  BY <1>1 DEF PayoutInv, TypeOK, UpTo2
<1>6. TypeOK'
  <2>1. sent' \in [Entry -> 0 .. 2]
    BY <1>1, <1>5
  <2>2. work' \in [Runner -> BatchWork]
    BY <1>2, <1>3 DEF PayoutInv, TypeOK, BatchWork
  <2> QED
    BY <1>4, <2>1, <2>2 DEF PayoutInv, TypeOK, BatchWork, LockTypeOK
<1>7. WalletConserved'
  BY <1>4, WalletStands
<1>8. BatchesRun' /\ ReadIsBooked'
  BY <1>2, <1>3, <1>4 DEF PayoutInv, TypeOK, BatchesRun, ReadIsBooked
<1>9. EntriesFit'
  <2> SUFFICES ASSUME NEW e \in Entry, e \notin torn, e \notin shared
               PROVE  EntryFits(e)'
    BY <1>4 DEF EntriesFit
  <2>1. EntryFits(e)
    BY DEF PayoutInv, EntriesFit
  <2>2. \A s \in Runner : InHand(s)' = InHand(s)
    BY <1>2, <1>3, <1>4 DEF PayoutInv, TypeOK, InHand
  <2>3. Covered(e) => Covered(e)'
    BY <1>2, <1>4 DEF PayoutInv, TypeOK, Covered
  <2>4. CASE ok /\ e \in work[r].read
    <3>1. e \in InHand(r) /\ Covered(e)'
      BY <1>2, <1>3, <1>4, <2>4 DEF PayoutInv, TypeOK, InHand, Covered
    <3>2. ~Covered(e)
      BY <1>4, <2>1, <3>1 DEF EntryFits, Covered, InHand
    <3>3. sent[e] = 0
      BY <2>1, <3>1, <3>2 DEF EntryFits, PayoutInv, TypeOK
    <3>4. sent'[e] = 1
      BY <1>1, <2>4, <3>3 DEF UpTo2
    <3> QED
      BY <1>4, <2>1, <2>2, <3>1, <3>4 DEF EntryFits
  <2>5. CASE ~(ok /\ e \in work[r].read)
    <3>1. sent'[e] = sent[e]
      BY <1>1, <2>5
    <3> QED
      BY <1>4, <2>1, <2>2, <2>3, <3>1 DEF EntryFits
  <2> QED
    BY <2>4, <2>5
<1> QED
  BY <1>6, <1>7, <1>8, <1>9 DEF PayoutInv

(* What is marked is no longer pending, and no other batch holds it. *)
LEMMA MarkKeeps ==
  ASSUME PayoutInv, LockInv', NEW r \in Runner, Mark(r)
  PROVE  PayoutInv'
<1> DEFINE next == [at |-> "merchants", merchants |-> work[r].merchants,
                    read |-> {}, ok |-> FALSE]
<1>1. /\ run[r].step = "task" /\ work[r].at = "mark"
      /\ status' = [e \in Entry |-> IF e \notin work[r].read THEN status[e]
                                     ELSE IF work[r].ok THEN "paid_out" ELSE "failed"]
      /\ retries' = [e \in Entry |-> IF e \in work[r].read /\ ~work[r].ok
                                        THEN UpTo2(retries[e] + 1) ELSE retries[e]]
      /\ UNCHANGED <<run, key, available, paidOut, sent, torn, shared>>
  BY DEF Mark, lockVars, ghostVars
<1>2. work' = [work EXCEPT ![r] = next]
  BY WriteMarked DEF Mark, PayoutInv
<1>3. next \in BatchWork /\ next.read = {} /\ next.at = "merchants"
  BY DEF PayoutInv, TypeOK, BatchWork
<1> HIDE DEF next
<1>4. TypeOK'
  <2>1. work' \in [Runner -> BatchWork]
    BY <1>2, <1>3 DEF PayoutInv, TypeOK, BatchWork
  <2>2. status' \in [Entry -> {"none", "pending", "paid_out", "failed"}]
    BY <1>1 DEF PayoutInv, TypeOK
  <2>3. \A e \in Entry : retries'[e] \in 0 .. 2
    BY <1>1 DEF PayoutInv, TypeOK, UpTo2
  <2>4. retries' \in [Entry -> 0 .. 2]
    BY <1>1, <2>3
  <2> QED
    BY <1>1, <2>1, <2>2, <2>4 DEF PayoutInv, TypeOK, BatchWork, LockTypeOK
<1>5. \A e \in Entry : status'[e] = "none" <=> status[e] = "none"
  BY <1>1 DEF PayoutInv, ReadIsBooked
<1>6. WalletConserved'
  BY <1>1, <1>5, WalletStands
<1>7. BatchesRun' /\ ReadIsBooked'
  BY <1>1, <1>2, <1>3, <1>5 DEF PayoutInv, TypeOK, BatchesRun, ReadIsBooked
<1>8. EntriesFit'
  <2> SUFFICES ASSUME NEW e \in Entry, e \notin torn, e \notin shared
               PROVE  EntryFits(e)'
    BY <1>1 DEF EntriesFit
  <2>1. EntryFits(e)
    BY DEF PayoutInv, EntriesFit
  <2>2. \A s \in Runner : InHand(s)' = IF s = r THEN {} ELSE InHand(s)
    BY <1>2, <1>3 DEF PayoutInv, TypeOK, InHand
  <2>3. CASE e \in work[r].read
    <3>1. status'[e] \notin {"none", "pending"}
      BY <1>1, <2>3
    <3>2. \A s \in Runner : e \notin InHand(s)'
      BY <1>1, <2>1, <2>2, <2>3 DEF EntryFits, InHand
    <3> QED
      BY <1>1, <2>1, <3>1, <3>2 DEF EntryFits
  <2>4. CASE e \notin work[r].read
    <3>1. status'[e] = status[e]
      BY <1>1, <2>4
    <3>2. Covered(e) => Covered(e)'
      BY <1>2, <2>4 DEF PayoutInv, TypeOK, Covered
    <3> QED
      BY <1>1, <2>1, <2>2, <3>1, <3>2 DEF EntryFits
  <2> QED
    BY <2>3, <2>4
<1> QED
  BY <1>4, <1>6, <1>7, <1>8 DEF PayoutInv

(* What leaves the wallet is what the row says was paid. *)
LEMMA PayWalletKeeps ==
  ASSUME PayoutInv, LockInv', NEW r \in Runner, NEW m \in Merchant, PayWallet(r, m)
  PROVE  PayoutInv'
<1> DEFINE next == [work[r] EXCEPT !.merchants = @ \ {m}]
<1>1. /\ run[r].step = "task" /\ work[r].at = "wallets" /\ work' = [work EXCEPT ![r] = next]
      /\ available' = [available EXCEPT ![m] = 0]
      /\ paidOut' = [paidOut EXCEPT ![m] = @ + available[m]]
      /\ UNCHANGED <<run, key, status, retries, sent, torn, shared>>
  BY DEF PayWallet, lockVars, ghostVars
<1>2. next \in BatchWork /\ next.read = work[r].read /\ next.at = "wallets"
  BY <1>1 DEF PayoutInv, TypeOK, BatchWork
<1> HIDE DEF next
<1>3. \A n \in Merchant : available'[n] + paidOut'[n] = available[n] + paidOut[n]
  BY <1>1 DEF PayoutInv, TypeOK
<1>4. WalletConserved'
  BY <1>1, <1>3 DEF PayoutInv, WalletConserved
<1>5. \A n \in Merchant : paidOut'[n] \in 0 .. Cardinality(Entry)
  <2> SUFFICES ASSUME NEW n \in Merchant PROVE paidOut'[n] \in 0 .. Cardinality(Entry)
    OBVIOUS
  <2> DEFINE booked == Cardinality({e \in Of(n) : status[e] # "none"})
  <2>1. available[n] + paidOut[n] = booked /\ booked <= Cardinality(Entry) /\ booked \in Nat
    BY Booked DEF PayoutInv, WalletConserved
  <2>2. Cardinality(Entry) \in Nat
    BY MerchantAssumption, FS_CardinalityType
  <2> HIDE DEF booked
  <2>3. available[n] \in Nat /\ paidOut[n] \in Nat /\ available[m] \in Nat
    BY <2>2 DEF PayoutInv, TypeOK
  <2>4. CASE n = m
    BY <1>1, <2>1, <2>2, <2>3, <2>4 DEF PayoutInv, TypeOK
  <2>5. CASE n # m
    BY <1>1, <2>5 DEF PayoutInv, TypeOK
  <2> QED
    BY <2>4, <2>5
<1>6. TypeOK'
  <2>1. Cardinality(Entry) \in Nat
    BY MerchantAssumption, FS_CardinalityType
  <2>2. available' \in [Merchant -> 0 .. Cardinality(Entry)]
    BY <1>1, <2>1 DEF PayoutInv, TypeOK
  <2>3. paidOut' \in [Merchant -> 0 .. Cardinality(Entry)]
    BY <1>1, <1>5 DEF PayoutInv, TypeOK
  <2>4. work' \in [Runner -> BatchWork]
    BY <1>1, <1>2 DEF PayoutInv, TypeOK, BatchWork
  <2> QED
    BY <1>1, <2>2, <2>3, <2>4 DEF PayoutInv, TypeOK, BatchWork, LockTypeOK
<1>7. BatchesRun' /\ ReadIsBooked'
  BY <1>1, <1>2 DEF PayoutInv, TypeOK, BatchesRun, ReadIsBooked
<1>8. EntriesFit'
  <2>1. \A s \in Runner : InHand(s)' = InHand(s)
    BY <1>1, <1>2 DEF PayoutInv, TypeOK, InHand
  <2>2. \A e \in Entry : Covered(e) => Covered(e)'
    BY <1>1, <1>2 DEF PayoutInv, TypeOK, Covered
  <2> QED
    BY <1>1, <2>1, <2>2 DEF PayoutInv, EntriesFit, EntryFits
<1> QED
  BY <1>4, <1>6, <1>7, <1>8 DEF PayoutInv

(* A batch that ends or dies holds nothing; a transfer it did not mark is
   torn. *)
LEMMA BatchOverKeeps ==
  ASSUME PayoutInv, LockInv', NEW r \in Runner,
         \A s \in Runner : s # r => run'[s] = run[s],
         work' = [work EXCEPT ![r] = NoWork],
         UNCHANGED <<status, retries, available, paidOut, sent, shared>>,
         torn' = IF work[r].at = "mark" /\ work[r].ok THEN torn \cup work[r].read ELSE torn
  PROVE  PayoutInv'
<1>1. TypeOK'
  <2>1. NoWork \in BatchWork
    BY DEF NoWork, BatchWork
  <2>2. work' \in [Runner -> BatchWork] /\ torn' \in SUBSET Entry
    BY <2>1 DEF PayoutInv, TypeOK, BatchWork
  <2> QED
    BY <2>2 DEF PayoutInv, TypeOK, BatchWork, LockInv
<1>2. WalletConserved'
  BY WalletStands
<1>3. BatchesRun' /\ ReadIsBooked'
  BY DEF PayoutInv, TypeOK, BatchesRun, ReadIsBooked, NoWork
<1>4. EntriesFit'
  <2> SUFFICES ASSUME NEW e \in Entry, e \notin torn', e \notin shared
               PROVE  EntryFits(e)'
    BY DEF EntriesFit
  <2>1. EntryFits(e)
    BY DEF PayoutInv, EntriesFit
  <2>2. \A s \in Runner : InHand(s)' = IF s = r THEN {} ELSE InHand(s)
    BY DEF PayoutInv, TypeOK, InHand, NoWork
  <2>3. Covered(e) => Covered(e)'
    BY DEF PayoutInv, TypeOK, Covered
  <2> QED
    BY <2>1, <2>2, <2>3 DEF EntryFits
<1> QED
  BY <1>1, <1>2, <1>3, <1>4 DEF PayoutInv

(* A runner that starts or ends nothing of the payout. *)
LEMMA BooksStand ==
  ASSUME PayoutInv, LockInv', UNCHANGED <<bookVars, work, ghostVars>>,
         \A r \in Runner : run[r].step = "task" => run'[r].step = "task"
  PROVE  PayoutInv'
<1>1. UNCHANGED <<status, retries, available, paidOut, work, sent, torn, shared>>
  BY DEF bookVars, ghostVars
<1>2. TypeOK'
  BY <1>1 DEF PayoutInv, TypeOK, LockInv
<1>3. WalletConserved'
  BY <1>1, WalletStands
<1>4. BatchesRun' /\ ReadIsBooked' /\ EntriesFit'
  BY <1>1 DEF PayoutInv, BatchesRun, ReadIsBooked, EntriesFit, EntryFits, InHand, Covered
<1> QED
  BY <1>2, <1>3, <1>4 DEF PayoutInv

LEMMA PayoutKeeps ==
  ASSUME PayoutInv, [Next]_vars
  PROVE  PayoutInv'
<1>1. LockInv'
  BY LockHolds
<1>2. CASE LockOnly
  <2>1. ASSUME NEW r \in Runner, NEW j \in Job, Win(r, j)
        PROVE  \A s \in Runner : run[s].step = "task" => run'[s].step = "task"
    BY <2>1 DEF Win, PayoutInv, LockInv, LockTypeOK
  <2>2. ASSUME NEW r \in Runner, Release(r)
        PROVE  \A s \in Runner : run[s].step = "task" => run'[s].step = "task"
    BY <2>2 DEF Release, PayoutInv, LockInv, LockTypeOK
  <2>3. ASSUME NEW j \in Job, Expire(j)
        PROVE  \A s \in Runner : run[s].step = "task" => run'[s].step = "task"
    BY <2>3 DEF Expire
  <2>4. \A s \in Runner : run[s].step = "task" => run'[s].step = "task"
    BY <1>2, <2>1, <2>2, <2>3 DEF LockOnly
  <2> QED
    BY <1>1, <1>2, <2>4, BooksStand DEF LockOnly
<1>3. CASE \E e \in Entry : ConfirmPickup(e)
  BY <1>1, <1>3, ConfirmPickupKeeps
<1>4. ASSUME NEW r \in Runner, Batch(r)
      PROVE  PayoutInv'
  <2>1. CASE AggregatePending(r) \/ AggregateFailed(r)
    BY <1>1, <2>1, AggregatePendingKeeps, AggregateFailedKeeps
  <2>2. CASE Transfer(r) \/ Mark(r) \/ MarkThrows(r)
    BY <1>1, <2>2, TransferKeeps, MarkKeeps, MarkThrowsKeeps
  <2>3. CASE MerchantsDone(r)
    BY <1>1, <2>3, MerchantsDoneKeeps
  <2>4. CASE EndBatch(r)
    <3>1. \A s \in Runner : s # r => run'[s] = run[s]
      BY <2>4 DEF EndBatch, EndTask, PayoutInv, LockInv, LockTypeOK
    <3>2. /\ work[r].at # "mark" /\ work' = [work EXCEPT ![r] = NoWork]
          /\ UNCHANGED <<status, retries, available, paidOut, sent, torn, shared>>
      BY <2>4 DEF EndBatch, bookVars, ghostVars
    <3> QED
      BY <1>1, <3>1, <3>2, BatchOverKeeps
  <2>5. CASE \E m \in Merchant : TakeMerchant(r, m) \/ PayWallet(r, m) \/ WalletThrows(r, m)
    BY <1>1, <2>5, TakeMerchantKeeps, PayWalletKeeps, WalletThrowsKeeps
  <2> QED
    BY <1>4, <2>1, <2>2, <2>3, <2>4, <2>5 DEF Batch
<1>5. ASSUME NEW r \in Runner, CrashBatch(r)
      PROVE  PayoutInv'
  <2>1. \A s \in Runner : s # r => run'[s] = run[s]
    BY <1>5 DEF CrashBatch, Crash, PayoutInv, LockInv, LockTypeOK
  <2>2. /\ work' = [work EXCEPT ![r] = NoWork]
        /\ torn' = IF work[r].at = "mark" /\ work[r].ok THEN torn \cup work[r].read ELSE torn
        /\ UNCHANGED <<status, retries, available, paidOut, sent, shared>>
    BY <1>5 DEF CrashBatch, bookVars
  <2> QED
    BY <1>1, <2>1, <2>2, BatchOverKeeps
<1>6. CASE UNCHANGED vars
  BY <1>1, <1>6, BooksStand DEF vars, lockVars
<1> QED
  BY <1>2, <1>3, <1>4, <1>5, <1>6 DEF Next

LEMMA PayoutInvariance == Spec => []PayoutInv
BY PayoutStarts, PayoutKeeps, PTL DEF Spec

(* Lock, books and batches keep their types: no wallet is ever below zero. *)
THEOREM PayoutTypeCorrect == Spec => []TypeOK
<1>1. PayoutInv => TypeOK
  BY DEF PayoutInv
<1> QED
  BY PayoutInvariance, <1>1, PTL

(* What pickups put into a wallet is there or was paid out once. *)
THEOREM WalletsAreConserved == Spec => []WalletConserved
<1>1. PayoutInv => WalletConserved
  BY DEF PayoutInv
<1> QED
  BY PayoutInvariance, <1>1, PTL

(* A settlement is transferred a second time only if a batch never marked
   the first transfer, or the two jobs held it at once. *)
THEOREM DoubleTransferHasACause == Spec => []DoubleTransferExplained
<1>1. PayoutInv => DoubleTransferExplained
  BY DEF PayoutInv, TypeOK, EntriesFit, EntryFits, DoubleTransferExplained
<1> QED
  BY PayoutInvariance, <1>1, PTL
=============================================================================
