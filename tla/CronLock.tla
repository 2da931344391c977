------------------------------ MODULE CronLock ------------------------------
(***************************************************************************)
(* CronLockService.runExclusive: a scheduled job under a key of Redis.     *)
(* @nestjs/schedule fires the timer of every scheduler process; the one    *)
(* whose SET NX PX succeeds runs the job and then releases the key with a  *)
(* script that compares its token.                                         *)
(*                                                                         *)
(* A runner is one invocation slot of a scheduler process: a timer, or the *)
(* admin endpoint that calls the same job.  A call that finds the lock     *)
(* held, or Redis silent, returns without a trace and is not a step.  A    *)
(* token is a UUID: one that neither a key nor a runner holds.  Redis, the *)
(* schedule and the death of a process are external.  The option           *)
(* runWithoutLockIfRedisDown, which no caller in the repository passes, is *)
(* left out.                                                               *)
(***************************************************************************)
CONSTANTS Job, Runner, Token, None

ASSUME NoneAssumption == None \notin Token

VARIABLES
    key,        \* Redis: job -> the token under its key, or None
    run         \* runner -> what it is doing: Idle or a record

lockVars == <<key, run>>

Idle == [job |-> None, token |-> None, step |-> "idle"]

Executing(r, j) == run[r].job = j /\ run[r].step = "task"

InUse == {key[j] : j \in Job} \cup {run[r].token : r \in Runner}

LockTypeOK ==
    /\ key \in [Job -> Token \cup {None}]
    /\ run \in [Runner -> {Idle} \cup
                  [job : Job, token : Token, step : {"task", "release"}]]

LockInit ==
    /\ key = [j \in Job |-> None]
    /\ run = [r \in Runner |-> Idle]

-----------------------------------------------------------------------------
(* SET without NX: a key that exists is overwritten. *)
WinAnyway(r, j) ==
    /\ run[r] = Idle
    /\ Token \ InUse # {}
    /\ LET t == CHOOSE x \in Token \ InUse : TRUE
       IN  /\ key' = [key EXCEPT ![j] = t]
           /\ run' = [run EXCEPT ![r] = [job |-> j, token |-> t, step |-> "task"]]

(* SET key token NX PX ttl succeeds: the key was absent and now carries the
   fresh token of r, which starts the task. *)
Win(r, j) ==
    /\ run[r] = Idle
    /\ key[j] = None
    /\ Token \ InUse # {}
    /\ LET t == CHOOSE x \in Token \ InUse : TRUE
       IN  /\ key' = [key EXCEPT ![j] = t]
           /\ run' = [run EXCEPT ![r] = [job |-> j, token |-> t, step |-> "task"]]

(* The task of r returned or threw; its finally block is next. *)
EndTask(r) ==
    /\ run[r].step = "task"
    /\ run' = [run EXCEPT ![r].step = "release"]
    /\ UNCHANGED key

(* RELEASE_SCRIPT deletes the key if it still holds the token; a failure to
   reach Redis is swallowed and the key is left to expire. *)
Release(r) ==
    /\ run[r].step = "release"
    /\ \/ /\ key[run[r].job] = run[r].token
          /\ key' = [key EXCEPT ![run[r].job] = None]
       \/ UNCHANGED key
    /\ run' = [run EXCEPT ![r] = Idle]

(* A key that is renewed when its time is up, whoever still wants it. *)
ExpireRenewed(j) ==
    /\ key[j] # None
    /\ Token \ InUse # {}
    /\ key' = [key EXCEPT ![j] = CHOOSE x \in Token \ InUse : TRUE]
    /\ UNCHANGED run

(* The TTL of a key runs out.  CronLockTtl: "It must exceed the job's
   worst-case runtime", so this does not happen while its task executes; it
   may once the task has ended, before the release reaches Redis. *)
Expire(j) ==
    /\ key[j] # None
    /\ \A r \in Runner : ~(Executing(r, j) /\ run[r].token = key[j])
    /\ key' = [key EXCEPT ![j] = None]
    /\ UNCHANGED run

(* The process of r dies in the middle of a job and is started again: the
   token is forgotten, the key stays. *)
Crash(r) ==
    /\ run[r] # Idle
    /\ run' = [run EXCEPT ![r] = Idle]
    /\ UNCHANGED key

LockStep ==
    \/ \E r \in Runner, j \in Job : Win(r, j)
    \/ \E r \in Runner : EndTask(r) \/ Release(r) \/ Crash(r)
    \/ \E j \in Job : Expire(j)

LockSpec == LockInit /\ [][LockStep]_lockVars

-----------------------------------------------------------------------------
(* The abstract view: who executes which job. *)
Running == [j \in Job |-> {r \in Runner : Executing(r, j)}]

Abstract == INSTANCE ExclusiveRun WITH running <- Running
=============================================================================
