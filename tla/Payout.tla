------------------------------- MODULE Payout -------------------------------
(***************************************************************************)
(* The payout of the merchants: the weekly batch and the daily retry of    *)
(* payout.task.ts, each under a key of its own (CronLock), PayoutService   *)
(* over the settlement ledger and WalletPayoutService over the wallets.    *)
(*                                                                         *)
(* An entry stands for a ledger row and is worth one unit.  The bank is    *)
(* external: executeBankTransfer is a stub that always accepts today, and  *)
(* the model takes the answers of the type its caller is written for.      *)
(***************************************************************************)
EXTENDS CronLock, Naturals, FiniteSets

CONSTANTS
    Weekly, Retry,      \* the two jobs, by the name of their lock
    Entry,              \* rows of merchant_payout_ledger
    Merchant,
    MerchantOf          \* [Entry -> Merchant]

ASSUME JobAssumption == Job = {Weekly, Retry} /\ Weekly # Retry
ASSUME MerchantAssumption == IsFiniteSet(Entry) /\ MerchantOf \in [Entry -> Merchant]

VARIABLES
    status,     \* entry -> "none" before its pickup, then its LedgerStatus
    retries,    \* entry -> retryCount
    available,  \* merchant -> availableBalance of its wallet
    paidOut,    \* merchant -> sum of its PAYOUT wallet transactions
    work,       \* runner -> where its batch stands
    sent,       \* ghost: entry -> bank transfers that covered it, 2 for more
    torn,       \* ghost: entries transferred by a batch that never marked them
    shared      \* ghost: entries both jobs held in hand at once

bookVars == <<status, retries, available, paidOut>>
ghostVars == <<sent, torn, shared>>
vars == <<lockVars, bookVars, work, ghostVars>>

MAX_RETRIES == 3

NoWork == [at |-> "start", merchants |-> {}, read |-> {}, ok |-> FALSE]

Of(m) == {e \in Entry : MerchantOf[e] = m}
Pending == {e \in Entry : status[e] = "pending"}
Owing(entries) == {MerchantOf[e] : e \in entries}
UpTo2(n) == IF n > 2 THEN 2 ELSE n

(* The entries a batch has read and not yet marked. *)
InHand(r) == IF work[r].at \in {"transfer", "mark"} THEN work[r].read ELSE {}

TypeOK ==
    /\ LockTypeOK
    /\ status \in [Entry -> {"none", "pending", "paid_out", "failed"}]
    /\ retries \in [Entry -> 0 .. 2]
    /\ available \in [Merchant -> 0 .. Cardinality(Entry)]
    /\ paidOut \in [Merchant -> 0 .. Cardinality(Entry)]
    /\ work \in [Runner ->
                   [at : {"start", "merchants", "transfer", "mark", "wallets", "end"},
                    merchants : SUBSET Merchant, read : SUBSET Entry, ok : BOOLEAN]]
    /\ sent \in [Entry -> 0 .. 2]
    /\ torn \in SUBSET Entry
    /\ shared \in SUBSET Entry

Init ==
    /\ LockInit
    /\ status = [e \in Entry |-> "none"]
    /\ retries = [e \in Entry |-> 0]
    /\ available = [m \in Merchant |-> 0]
    /\ paidOut = [m \in Merchant |-> 0]
    /\ work = [r \in Runner |-> NoWork]
    /\ sent = [e \in Entry |-> 0]
    /\ torn = {}
    /\ shared = {}

-----------------------------------------------------------------------------
(* A pickup that books its order without looking for its row. *)
ConfirmPickupAgain(e) ==
    /\ status[e] \in {"none", "pending"}
    /\ status' = [status EXCEPT ![e] = "pending"]
    /\ available' = [available EXCEPT ![MerchantOf[e]] = @ + 1]
    /\ UNCHANGED <<lockVars, retries, paidOut, work, ghostVars>>

(* confirmPickup of an online order: the ledger row and the available
   balance of the wallet are written in one transaction. *)
ConfirmPickup(e) ==
    /\ status[e] = "none"
    /\ status' = [status EXCEPT ![e] = "pending"]
    /\ available' = [available EXCEPT ![MerchantOf[e]] = @ + 1]
    /\ UNCHANGED <<lockVars, retries, paidOut, work, ghostVars>>

(* runWeeklyPayoutBatch, first read.  With nothing pending it returns, and
   does not reach the wallets. *)
AggregatePending(r) ==
    /\ Executing(r, Weekly)
    /\ work[r].at = "start"
    /\ work' = [work EXCEPT ![r].at = IF Pending = {} THEN "end" ELSE "merchants",
                            ![r].merchants = Owing(Pending)]
    /\ UNCHANGED <<lockVars, bookVars, ghostVars>>

(* PayoutService.retryFailedPayouts, first read: the merchants of failed
   entries whose nextRetryAt has come. *)
AggregateFailed(r) ==
    /\ Executing(r, Retry)
    /\ work[r].at = "start"
    /\ \E ripe \in SUBSET {e \in Entry : status[e] = "failed" /\ retries[e] < MAX_RETRIES} :
          work' = [work EXCEPT ![r].at = IF ripe = {} THEN "end" ELSE "merchants",
                               ![r].merchants = Owing(ripe)]
    /\ UNCHANGED <<lockVars, bookVars, ghostVars>>

(* processMerchantPayout, its read of the pending entries of one merchant;
   with none it returns. *)
TakeMerchant(r, m) ==
    /\ run[r].step = "task"
    /\ work[r].at = "merchants"
    /\ m \in work[r].merchants
    /\ LET read == Pending \cap Of(m)
       IN  /\ work' = [work EXCEPT ![r].merchants = @ \ {m},
                                   ![r].read = read,
                                   ![r].at = IF read = {} THEN "merchants" ELSE "transfer"]
           /\ shared' = shared \cup
                (read \cap UNION {InHand(s) : s \in {x \in Runner : run[x].job # run[r].job}})
    /\ UNCHANGED <<lockVars, bookVars, sent, torn>>

(* executeBankTransfer: one transfer for the sum of what was read. *)
Transfer(r) ==
    /\ run[r].step = "task"
    /\ work[r].at = "transfer"
    /\ \E ok \in BOOLEAN :
          /\ work' = [work EXCEPT ![r].at = "mark", ![r].ok = ok]
          /\ sent' = [e \in Entry |-> IF ok /\ e \in work[r].read
                                        THEN UpTo2(sent[e] + 1) ELSE sent[e]]
    /\ UNCHANGED <<lockVars, bookVars, torn, shared>>

(* The updateMany over the ids that were read: PAID_OUT, or FAILED with one
   more retry.  It filters on nothing but the ids. *)
Mark(r) ==
    /\ run[r].step = "task"
    /\ work[r].at = "mark"
    /\ LET mine(e) == e \in work[r].read
           ok == work[r].ok
       IN  /\ status' = [e \in Entry |-> IF ~mine(e) THEN status[e]
                                         ELSE IF ok THEN "paid_out" ELSE "failed"]
           /\ retries' = [e \in Entry |-> IF mine(e) /\ ~ok
                                            THEN UpTo2(retries[e] + 1) ELSE retries[e]]
    /\ work' = [work EXCEPT ![r].at = "merchants", ![r].read = {}, ![r].ok = FALSE]
    /\ UNCHANGED <<lockVars, available, paidOut, ghostVars>>

(* The updateMany throws.  The weekly batch catches it and goes on with the
   next merchant; the retry batch is over. *)
MarkThrows(r) ==
    /\ run[r].step = "task"
    /\ work[r].at = "mark"
    /\ torn' = IF work[r].ok THEN torn \cup work[r].read ELSE torn
    /\ work' = [work EXCEPT ![r] =
                  IF Executing(r, Weekly)
                    THEN [@ EXCEPT !.at = "merchants", !.read = {}, !.ok = FALSE]
                    ELSE [NoWork EXCEPT !.at = "end"]]
    /\ UNCHANGED <<lockVars, bookVars, sent, shared>>

(* All merchants served: the weekly batch lists the wallets with a balance
   (processWeeklyWalletPayouts), the retry batch ends. *)
MerchantsDone(r) ==
    /\ run[r].step = "task"
    /\ work[r].at = "merchants"
    /\ work[r].merchants = {}
    /\ work' = [work EXCEPT ![r] =
                  IF Executing(r, Weekly)
                    THEN [NoWork EXCEPT !.at = "wallets",
                                        !.merchants = {m \in Merchant : available[m] > 0}]
                    ELSE [NoWork EXCEPT !.at = "end"]]
    /\ UNCHANGED <<lockVars, bookVars, ghostVars>>

(* The update returns the wallet as it is after it (new: true). *)
PayWalletAfter(r, m) ==
    /\ run[r].step = "task"
    /\ work[r].at = "wallets"
    /\ m \in work[r].merchants
    /\ available' = [available EXCEPT ![m] = 0]
    /\ paidOut' = [paidOut EXCEPT ![m] = @ + available'[m]]
    /\ work' = [work EXCEPT ![r].merchants = @ \ {m}]
    /\ UNCHANGED <<lockVars, status, retries, ghostVars>>

(* processEstablishmentPayout: the balance the update finds, not the one
   that was listed, is set to zero and written out as a PAYOUT row. *)
PayWallet(r, m) ==
    /\ run[r].step = "task"
    /\ work[r].at = "wallets"
    /\ m \in work[r].merchants
    /\ available' = [available EXCEPT ![m] = 0]
    /\ paidOut' = [paidOut EXCEPT ![m] = @ + available[m]]
    /\ work' = [work EXCEPT ![r].merchants = @ \ {m}]
    /\ UNCHANGED <<lockVars, status, retries, ghostVars>>

(* Its transaction is aborted: the batch logs it and goes on. *)
WalletThrows(r, m) ==
    /\ run[r].step = "task"
    /\ work[r].at = "wallets"
    /\ m \in work[r].merchants
    /\ work' = [work EXCEPT ![r].merchants = @ \ {m}]
    /\ UNCHANGED <<lockVars, bookVars, ghostVars>>

(* The batch returns to runExclusive. *)
EndBatch(r) ==
    /\ work[r].at = "end" \/ (work[r].at = "wallets" /\ work[r].merchants = {})
    /\ EndTask(r)
    /\ work' = [work EXCEPT ![r] = NoWork]
    /\ UNCHANGED <<bookVars, ghostVars>>

(* The process dies in the middle of a batch. *)
CrashBatch(r) ==
    /\ Crash(r)
    /\ torn' = IF work[r].at = "mark" /\ work[r].ok
                 THEN torn \cup work[r].read ELSE torn
    /\ work' = [work EXCEPT ![r] = NoWork]
    /\ UNCHANGED <<bookVars, sent, shared>>

(* The steps of the lock that leave the books alone. *)
LockOnly ==
    /\ \/ \E r \in Runner, j \in Job : Win(r, j)
       \/ \E r \in Runner : Release(r)
       \/ \E j \in Job : Expire(j)
    /\ UNCHANGED <<bookVars, work, ghostVars>>

Batch(r) ==
    \/ AggregatePending(r) \/ AggregateFailed(r)
    \/ Transfer(r) \/ Mark(r) \/ MarkThrows(r)
    \/ MerchantsDone(r) \/ EndBatch(r)
    \/ \E m \in Merchant : TakeMerchant(r, m) \/ PayWallet(r, m) \/ WalletThrows(r, m)

Next ==
    \/ LockOnly
    \/ \E e \in Entry : ConfirmPickup(e)
    \/ \E r \in Runner : Batch(r) \/ CrashBatch(r)

(* A batch that runs comes to an end, a key runs out, and the calls of a
   job do not find Redis silent every time the lock is free. *)
Fairness ==
    LET Alone(A) == A /\ UNCHANGED <<bookVars, work, ghostVars>>
    IN  /\ \A r \in Runner : WF_vars(Batch(r)) /\ WF_vars(Alone(Release(r)))
        /\ \A j \in Job :
              /\ WF_vars(Alone(Expire(j)))
              /\ SF_vars(Alone(\E r \in Runner : Win(r, j)))

Spec == Init /\ [][Next]_vars
FairSpec == Spec /\ Fairness

-----------------------------------------------------------------------------
(* PROPERTIES *)

(* A job never executes on two runners at once, whatever crashes, whichever
   token Redis still holds: the lock implements ExclusiveRun. *)
RunsExclusively == Abstract!Spec

(* An entry is only ever transferred twice because a batch died, or its
   write failed, between the transfer and the mark, or because the weekly
   batch and the retry, which exclude themselves but not each other, had it
   in hand at the same time. *)
DoubleTransferExplained ==
    \A e \in Entry : sent[e] > 1 => e \in torn \cup shared

(* What pickups put into the wallet of a merchant is there or was paid out
   once, whatever pickups come in while a batch pays. *)
WalletConserved ==
    \A m \in Merchant :
        available[m] + paidOut[m] = Cardinality({e \in Of(m) : status[e] # "none"})

(* A dead holder is succeeded: each job keeps being executed, whatever
   processes die in the middle of it. *)
JobsKeepRunning == \A j \in Job : []<>(Running[j] # {})

=============================================================================
