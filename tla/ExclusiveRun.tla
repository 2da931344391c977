---------------------------- MODULE ExclusiveRun ----------------------------
(***************************************************************************)
(* What CronLockService promises its callers: replicas that all fire the   *)
(* same scheduled job never execute it at the same time.  Nothing here     *)
(* knows of Redis, tokens or expiry; CronLock shows that they amount to    *)
(* this.                                                                   *)
(***************************************************************************)
CONSTANTS Job, Runner

VARIABLE running    \* job -> the runners executing it

TypeOK == running \in [Job -> SUBSET Runner]

Init == running = [j \in Job |-> {}]

(* A runner starts a job nobody executes. *)
Start(r, j) ==
    /\ running[j] = {}
    /\ running' = [running EXCEPT ![j] = {r}]

(* A runner ends its job, or dies executing it. *)
Stop(r, j) ==
    /\ r \in running[j]
    /\ running' = [running EXCEPT ![j] = @ \ {r}]

Next == \E r \in Runner, j \in Job : Start(r, j) \/ Stop(r, j)

Spec == Init /\ [][Next]_running

(* At most one runner executes a job. *)
Exclusive == \A j \in Job : \A r, s \in running[j] : r = s
=============================================================================
