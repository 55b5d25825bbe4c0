--------------------------- MODULE ProcessingQueue ---------------------------
(***************************************************************************)
(* The durable recruiting queue of server/utils/processingQueue.ts: tasks  *)
(* that workers lease, batches that follow tasks, and the membership rows  *)
(* between them, in one organization.  Every action is one database        *)
(* transaction; module QueueTransactions splits the transactions into      *)
(* their statements and checks that the row locks make this view sound.    *)
(*                                                                         *)
(* Time is counted in ticks that remain: a lease runs out when lease[t]    *)
(* reaches 0, a task is due when delay[t] is no longer positive.           *)
(***************************************************************************)
EXTENDS Integers, FiniteSets

CONSTANTS
    Task,          \* identities a task row can take
    Batch,         \* identities a batch row can take
    Target,        \* ProcessingTaskTarget: a task type together with a resource
    TypeOf,        \* the task type of each target
    Worker,        \* processes that claim: worker plugins and admin drains
    None,          \* an absent row, an absent reference
    MaxAttempts,   \* processing_task.max_attempts
    LeaseTicks,    \* DEFAULT_PROCESSING_TASK_LEASE_MS
    RetryTicks,    \* DEFAULT_PROCESSING_TASK_RETRY_DELAY_MS
    RetryCapTicks, \* MAX_PROCESSING_TASK_RETRY_DELAY_MS
    GraceTicks     \* DOCUMENT_UPLOAD_RECONCILIATION_GRACE_MS

UploadReconciliation == "document_upload_reconciliation"
Type == {"application_analysis", "document_parse", UploadReconciliation}

Active == {"pending", "processing"}
Terminal == {"completed", "failed", "cancelled"}
TaskStatus == Active \cup Terminal

Attempt == 1..MaxAttempts

ASSUME QueueAssumption ==
    /\ IsFiniteSet(Target)
    /\ TypeOf \in [Target -> Type]
    /\ None \notin Task \cup Target \cup Type \cup TaskStatus
    /\ MaxAttempts \in Nat \ {0}
    /\ LeaseTicks \in Nat \ {0}
    /\ RetryTicks \in Nat \ {0}
    /\ RetryCapTicks \in Nat \ {0}
    /\ GraceTicks \in Nat

\* What claimTasks returns and a worker keeps: the row and its attempt count.
Claim == Task \X Attempt

VARIABLES
    status,    \* per task: its status, None while the row does not exist
    target,    \* per task: its target
    attempts,  \* per task: attempt_count
    lease,     \* per task: ticks until lease_expires_at, 0 when past or null
    delay,     \* per task: ticks until available_at
    item,      \* processing_batch_item: per batch and target, the linked task
    batchType, \* per batch: its type, None while the row does not exist
    sealed,    \* per batch: whether sealed_at is set
    summary,   \* per batch: the status, counters and started_at of its row
    claims     \* per worker: the claims its running handlers hold in memory

taskVars == <<status, target, attempts, lease, delay>>
batchVars == <<item, batchType, sealed, summary>>
vars == <<taskVars, batchVars, claims>>

-----------------------------------------------------------------------------
(* Batches: membership and the summary kept on the batch row. *)

Members(b) == {g \in Target : item[b][g] # None}

\* The status and counters refreshBatchStatus writes, from the membership
\* row m of a batch, the statuses st of the tasks and whether it is sealed.
Refreshed(st, m, isSealed, wasStarted) ==
    LET InStatus(S) == {g \in Target : m[g] # None /\ st[m[g]] \in S}
        finished == isSealed /\ InStatus(Terminal) = InStatus(TaskStatus)
        batchStatus ==
            IF ~isSealed THEN "pending"
            ELSE IF finished /\ InStatus({"failed"}) # {} THEN "failed"
            ELSE IF finished /\ InStatus({"cancelled"}) # {} THEN "cancelled"
            ELSE IF finished THEN "completed"
            ELSE IF InStatus({"processing"}) # {} THEN "processing"
            ELSE "pending"
    IN  [status    |-> batchStatus,
         total     |-> Cardinality(InStatus(TaskStatus)),
         completed |-> Cardinality(InStatus({"completed"})),
         failed    |-> Cardinality(InStatus({"failed"})),
         cancelled |-> Cardinality(InStatus({"cancelled"})),
         started   |-> wasStarted \/ batchStatus = "processing"]

NewSummary == [status |-> "pending", total |-> 0, completed |-> 0,
               failed |-> 0, cancelled |-> 0, started |-> FALSE]

\* Mutant: batches that are still open are not refreshed.
SealedBatchesOf(T) == {b \in Batch : sealed[b] /\ \E g \in Target : item[b][g] \in T}

\* findBatchIdsForTask, for every task a transaction changed.
BatchesOf(T) == {b \in Batch : \E g \in Target : item[b][g] \in T}

\* refreshBatchStatus on the batches bs, as the last writes of a transaction.
RefreshBatches(bs) ==
    summary' = [b \in Batch |->
        IF b \in bs
        THEN Refreshed(status', item'[b], sealed'[b], summary[b].started)
        ELSE summary[b]]

HasSealedBatch(t) ==
    \E b \in Batch : sealed[b] /\ \E g \in Target : item[b][g] = t

-----------------------------------------------------------------------------
(* Tasks: who may be enqueued, claimed, written. *)

ActiveTask(g) == {t \in Task : status[t] \in Active /\ target[t] = g}

\* findActiveTask reads without a lock: by the time the membership row is
\* inserted a worker may have settled the task it found.  (A cancellation or
\* a new request may not: they wait for the resource's advisory lock.)
SettledSinceLookup(g, t) ==
    status[t] \in {"completed", "failed"} /\ target[t] = g

\* Mutant: the lookup misses the tasks that are being processed.
CanonicalIfPending(g, t) ==
    LET pending == {u \in ActiveTask(g) : status[u] = "pending"}
    IN  t \in pending \/ (pending = {} /\ status[t] = None)

\* Mutant: the lookup compares the type and forgets the resource.
CanonicalOfType(g, t) ==
    LET active == {u \in Task : status[u] \in Active /\ TypeOf[target[u]] = TypeOf[g]}
    IN  t \in active \/ (active = {} /\ status[t] = None)

\* The partial unique index processing_task_active_resource_idx, and the
\* coalescing of enqueueWithinTransaction: a target's request goes to the
\* active task it finds, else to a new row.
Canonical(g, t) ==
    \/ t \in ActiveTask(g)
    \/ ActiveTask(g) = {} /\ SettledSinceLookup(g, t)
    \/ ActiveTask(g) = {} /\ status[t] = None

\* Reservations enqueue their reconciliation after the upload grace.
InitialDelay(g) == IF TypeOf[g] = UploadReconciliation THEN GraceTicks ELSE 0

\* Insert the rows of pick that do not exist yet; S is the domain of pick.
InsertTasks(S, pick) ==
    LET new == {pick[g] : g \in S} \cap {t \in Task : status[t] = None}
        TargetOf(t) == CHOOSE g \in S : pick[g] = t
    IN  /\ status' = [t \in Task |-> IF t \in new THEN "pending" ELSE status[t]]
        /\ target' = [t \in Task |-> IF t \in new THEN TargetOf(t) ELSE target[t]]
        /\ delay' = [t \in Task |->
                        IF t \in new THEN InitialDelay(TargetOf(t)) ELSE delay[t]]
        /\ UNCHANGED <<attempts, lease>>

\* Mutant: the fence forgets the attempt.
HoldsAnyLease(t, a) == status[t] = "processing" /\ lease[t] > 0

\* assertCurrentProcessingLease, and the fence of every claimed update.
HoldsLease(t, a) ==
    /\ status[t] = "processing"
    /\ attempts[t] = a
    /\ lease[t] > 0

\* Mutant: off by one at the last attempt.
ExhaustedBeyond(t) ==
    /\ status[t] = "processing"
    /\ lease[t] = 0
    /\ attempts[t] > MaxAttempts
    /\ HasSealedBatch(t)

Exhausted(t) ==
    /\ status[t] = "processing"
    /\ lease[t] = 0
    /\ attempts[t] >= MaxAttempts
    /\ HasSealedBatch(t)

\* Mutant: expired leases are reclaimed without end.
ClaimableForever(t) ==
    /\ HasSealedBatch(t)
    /\ \/ status[t] = "pending" /\ delay[t] <= 0
       \/ status[t] = "processing" /\ lease[t] = 0

\* Mutant: expired leases are not reclaimed.
ClaimableIfPending(t) ==
    /\ attempts[t] < MaxAttempts
    /\ HasSealedBatch(t)
    /\ status[t] = "pending" /\ delay[t] <= 0

Claimable(t) ==
    /\ attempts[t] < MaxAttempts
    /\ HasSealedBatch(t)
    /\ \/ status[t] = "pending" /\ delay[t] <= 0
       \/ status[t] = "processing" /\ lease[t] = 0

\* Mutant: reclaiming an expired lease does not count as an attempt.
SameAttempt(t) == IF status[t] = "processing" THEN attempts[t] ELSE attempts[t] + 1

\* The attempt number claimTasks writes and returns.
NextAttempt(t) == attempts[t] + 1

RetryDelay(a) ==
    LET backoff == RetryTicks * 2^(a - 1)
    IN  IF backoff < RetryCapTicks THEN backoff ELSE RetryCapTicks

\* Mutant: off by one at the last attempt.
FailureIsTerminalBeyond(t, retryable) == ~retryable \/ attempts[t] > MaxAttempts

FailureIsTerminal(t, retryable) == ~retryable \/ attempts[t] >= MaxAttempts

\* Mutant: cancellation does not look at the status.
CancelledAnyway(S) == {t \in Task : status[t] # None /\ target[t] \in S}

\* The tasks cancelTasks terminates for the targets S.
CancelledBy(S) == {t \in Task : status[t] \in Active /\ target[t] \in S}

\* Write terminal status s to the tasks T: leases are cleared with it.
Settle(T, s) ==
    /\ status' = [t \in Task |-> IF t \in T THEN s ELSE status[t]]
    /\ lease' = [t \in Task |-> IF t \in T THEN 0 ELSE lease[t]]

Drop(w, t, a) == claims' = [claims EXCEPT ![w] = @ \ {<<t, a>>}]

-----------------------------------------------------------------------------
Init ==
    /\ status = [t \in Task |-> None]
    /\ target = [t \in Task |-> None]
    /\ attempts = [t \in Task |-> 0]
    /\ lease = [t \in Task |-> 0]
    /\ delay = [t \in Task |-> 0]
    /\ item = [b \in Batch |-> [g \in Target |-> None]]
    /\ batchType = [b \in Batch |-> None]
    /\ sealed = [b \in Batch |-> FALSE]
    /\ summary = [b \in Batch |-> NewSummary]
    /\ claims = [w \in Worker |-> {}]

CreateProcessingBatch(b, ty) ==
    /\ batchType[b] = None
    /\ batchType' = [batchType EXCEPT ![b] = ty]
    /\ UNCHANGED <<taskVars, item, sealed, summary, claims>>

\* Mutant: the batch may be sealed.
EnqueueAfterSeal(b, g, t) ==
    /\ batchType[b] = TypeOf[g]
    /\ g \notin Members(b)
    /\ Canonical(g, t)
    /\ InsertTasks({g}, [x \in {g} |-> t])
    /\ item' = [item EXCEPT ![b][g] = t]
    /\ UNCHANGED <<batchType, sealed, claims>>
    /\ RefreshBatches({b})

\* enqueueProcessingTask with a batchId.  A target that is already a member
\* is answered with its task and changes nothing.
EnqueueInBatch(b, g, t) ==
    /\ batchType[b] = TypeOf[g]
    /\ ~sealed[b]
    /\ g \notin Members(b)
    /\ Canonical(g, t)
    /\ InsertTasks({g}, [x \in {g} |-> t])
    /\ item' = [item EXCEPT ![b][g] = t]
    /\ UNCHANGED <<batchType, sealed, claims>>
    /\ RefreshBatches({b})

\* Mutant: the seal does not refresh the batch.
SealOnly(b) ==
    /\ batchType[b] # None
    /\ ~sealed[b]
    /\ sealed' = [sealed EXCEPT ![b] = TRUE]
    /\ UNCHANGED <<taskVars, item, batchType, summary, claims>>

SealProcessingBatch(b) ==
    /\ batchType[b] # None
    /\ ~sealed[b]
    /\ sealed' = [sealed EXCEPT ![b] = TRUE]
    /\ UNCHANGED <<taskVars, item, batchType, claims>>
    /\ RefreshBatches({b})

\* enqueueProcessingBatch; with one target also enqueueProcessingTask without
\* a batchId: the batch, its tasks, its members and its seal are one write.
EnqueueProcessingBatch(b, ty, S, pick) ==
    /\ batchType[b] = None
    /\ \A g \in S : TypeOf[g] = ty /\ Canonical(g, pick[g])
    /\ \A g, h \in S : pick[g] = pick[h] => g = h
    /\ InsertTasks(S, pick)
    /\ item' = [item EXCEPT ![b] =
                   [g \in Target |-> IF g \in S THEN pick[g] ELSE None]]
    /\ batchType' = [batchType EXCEPT ![b] = ty]
    /\ sealed' = [sealed EXCEPT ![b] = TRUE]
    /\ UNCHANGED claims
    /\ RefreshBatches({b})

\* claimTasks: fail the exhausted rows E, lease the claimable rows C.  The
\* limit, the ordering and SKIP LOCKED make E and C any subsets.
ClaimProcessingTasks(w, E, C) ==
    /\ E \cup C # {}
    /\ \A t \in E : Exhausted(t)
    /\ \A t \in C : Claimable(t)
    /\ status' = [t \in Task |-> IF t \in E THEN "failed"
                                 ELSE IF t \in C THEN "processing"
                                 ELSE status[t]]
    /\ attempts' = [t \in Task |-> IF t \in C THEN NextAttempt(t) ELSE attempts[t]]
    /\ lease' = [t \in Task |-> IF t \in E THEN 0
                                ELSE IF t \in C THEN LeaseTicks
                                ELSE lease[t]]
    /\ claims' = [claims EXCEPT ![w] = @ \cup {<<t, NextAttempt(t)>> : t \in C}]
    /\ UNCHANGED <<target, delay, item, batchType, sealed>>
    /\ RefreshBatches(BatchesOf(E \cup C))

\* The heartbeat of processRecruitingTasks.
RenewProcessingTaskLease(w, t, a) ==
    /\ <<t, a>> \in claims[w]
    /\ HoldsLease(t, a)
    /\ lease' = [lease EXCEPT ![t] = LeaseTicks]
    /\ UNCHANGED <<status, target, attempts, delay, batchVars, claims>>

\* completeWithinTransaction: the domain write commits with the completion.
CompleteProcessingTask(w, t, a) ==
    /\ <<t, a>> \in claims[w]
    /\ HoldsLease(t, a)
    /\ Settle({t}, "completed")
    /\ Drop(w, t, a)
    /\ UNCHANGED <<target, attempts, delay, item, batchType, sealed>>
    /\ RefreshBatches(BatchesOf({t}))

\* completeProcessingTaskWithResourceCleanup: cancel the siblings S, too.
CompleteWithResourceCleanup(w, t, a, S) ==
    LET siblings == CancelledBy(S \ {target[t]})
    IN  /\ <<t, a>> \in claims[w]
        /\ HoldsLease(t, a)
        /\ status' = [u \in Task |-> IF u = t THEN "completed"
                                     ELSE IF u \in siblings THEN "cancelled"
                                     ELSE status[u]]
        /\ lease' = [u \in Task |-> IF u \in siblings \cup {t} THEN 0 ELSE lease[u]]
        /\ Drop(w, t, a)
        /\ UNCHANGED <<target, attempts, delay, item, batchType, sealed>>
        /\ RefreshBatches(BatchesOf(siblings \cup {t}))

FailProcessingTask(w, t, a, retryable) ==
    /\ <<t, a>> \in claims[w]
    /\ HoldsLease(t, a)
    /\ IF FailureIsTerminal(t, retryable)
       THEN /\ Settle({t}, "failed")
            /\ delay' = [delay EXCEPT ![t] = 0]
       ELSE /\ Settle({t}, "pending")
            /\ delay' = [delay EXCEPT ![t] = RetryDelay(a)]
    /\ Drop(w, t, a)
    /\ UNCHANGED <<target, attempts, item, batchType, sealed>>
    /\ RefreshBatches(BatchesOf({t}))

\* The handler ends without an outcome: its write found the lease stale, or
\* its error was swallowed.
AbandonClaim(w, t, a) ==
    /\ <<t, a>> \in claims[w]
    /\ Drop(w, t, a)
    /\ UNCHANGED <<taskVars, batchVars>>

\* The process stops: what it held in memory is gone.
CrashWorker(w) ==
    /\ claims[w] # {}
    /\ claims' = [claims EXCEPT ![w] = {}]
    /\ UNCHANGED <<taskVars, batchVars>>

\* cancelTasksWithinTransaction, also called by the cascade clean-ups.
CancelProcessingTasks(S) ==
    /\ CancelledBy(S) # {}
    /\ Settle(CancelledBy(S), "cancelled")
    /\ UNCHANGED <<target, attempts, delay, item, batchType, sealed, claims>>
    /\ RefreshBatches(BatchesOf(CancelledBy(S)))

\* completePendingUpload...: the uploader finishes first.  With the task
\* already claimed the row is left to its worker; terminal rows are refused.
CompletePendingUpload(t) ==
    /\ status[t] = "pending"
    /\ TypeOf[target[t]] = UploadReconciliation
    /\ Settle({t}, "completed")
    /\ UNCHANGED <<target, attempts, delay, item, batchType, sealed, claims>>
    /\ RefreshBatches(BatchesOf({t}))

Tick ==
    /\ \E t \in Task : lease[t] > 0 \/ delay[t] > 0
    /\ lease' = [t \in Task |-> IF lease[t] > 0 THEN lease[t] - 1 ELSE 0]
    /\ delay' = [t \in Task |-> IF delay[t] > 0 THEN delay[t] - 1 ELSE 0]
    /\ UNCHANGED <<status, target, attempts, batchVars, claims>>

-----------------------------------------------------------------------------
ClaimSome(w) == \E E, C \in SUBSET Task : ClaimProcessingTasks(w, E, C)

\* Every way a handler that holds the claim can end.
EndOfHandler(w, t, a) ==
    \/ CompleteProcessingTask(w, t, a)
    \/ \E S \in SUBSET Target : CompleteWithResourceCleanup(w, t, a, S)
    \/ \E retryable \in BOOLEAN : FailProcessingTask(w, t, a, retryable)
    \/ AbandonClaim(w, t, a)

Next ==
    \/ \E b \in Batch, ty \in Type : CreateProcessingBatch(b, ty)
    \/ \E b \in Batch, g \in Target, t \in Task : EnqueueInBatch(b, g, t)
    \/ \E b \in Batch : SealProcessingBatch(b)
    \/ \E b \in Batch, ty \in Type, S \in SUBSET Target :
           \E pick \in [S -> Task] : EnqueueProcessingBatch(b, ty, S, pick)
    \/ \E w \in Worker : ClaimSome(w)
    \/ \E w \in Worker, t \in Task, a \in Attempt :
           \/ RenewProcessingTaskLease(w, t, a)
           \/ EndOfHandler(w, t, a)
    \/ \E w \in Worker : CrashWorker(w)
    \/ \E S \in SUBSET Target : CancelProcessingTasks(S)
    \/ \E t \in Task : CompletePendingUpload(t)
    \/ Tick

Spec == Init /\ [][Next]_vars

\* The worker plugin launches a cycle on every interval, each handler is
\* bounded by its time-outs (withBoundedAbort), and time passes.
Fairness ==
    /\ WF_vars(\E w \in Worker : ClaimSome(w))
    /\ \A w \in Worker, t \in Task, a \in Attempt : WF_vars(EndOfHandler(w, t, a))
    /\ WF_vars(Tick)

FairSpec == Spec /\ Fairness

-----------------------------------------------------------------------------
(* What discovers work and what the properties say. *)

\* The rows for which findRunnableOrganizationIds wakes the worker.
Runnable(t) ==
    /\ HasSealedBatch(t)
    /\ \/ status[t] = "pending" /\ delay[t] <= 0 /\ attempts[t] < MaxAttempts
       \/ status[t] = "processing" /\ lease[t] = 0

Summary == [status : TaskStatus, total : Nat, completed : Nat, failed : Nat,
            cancelled : Nat, started : BOOLEAN]

\* Every row is well formed; a row that does not exist is all defaults.
TypeOK ==
    /\ status \in [Task -> TaskStatus \cup {None}]
    /\ target \in [Task -> Target \cup {None}]
    /\ attempts \in [Task -> 0..MaxAttempts]
    /\ lease \in [Task -> 0..LeaseTicks]
    /\ delay \in [Task -> Int]
    /\ item \in [Batch -> [Target -> Task \cup {None}]]
    /\ batchType \in [Batch -> Type \cup {None}]
    /\ sealed \in [Batch -> BOOLEAN]
    /\ summary \in [Batch -> Summary]
    /\ claims \in [Worker -> SUBSET Claim]

\* A membership row links an existing task of its own target, and only a
\* batch that exists has members or a seal: what the foreign keys, and the
\* one transaction per enqueue, keep true.
MembershipIntegrity ==
    /\ \A t \in Task : status[t] = None <=> target[t] = None
    /\ \A b \in Batch, g \in Target : item[b][g] # None =>
           /\ status[item[b][g]] # None
           /\ target[item[b][g]] = g
           /\ batchType[b] = TypeOf[g]
    /\ \A b \in Batch : sealed[b] => batchType[b] # None

\* At no time are two rows at work on one target, however enqueues, retries,
\* reclaims and cancellations interleave (processing_task_active_resource_idx
\* and the coalescing of enqueueWithinTransaction).
OneActiveTaskPerTarget ==
    \A t, u \in Task :
        /\ status[t] \in Active
        /\ status[u] \in Active
        /\ target[t] = target[u]
        => t = u

\* The counters and the status a poll reads from a batch row are those of its
\* tasks in every committed state, although a task may be shared by several
\* batches and be changed by a worker, an uploader, a cancellation or an
\* expired lease: every writer refreshes every batch it touched.
BatchSummariesAgree ==
    \A b \in Batch :
        summary[b] = Refreshed(status, item[b], sealed[b], summary[b].started)

\* Worker w could commit an outcome for task t now.
MayWrite(w, t) == \E a \in Attempt : <<t, a>> \in claims[w] /\ HoldsLease(t, a)

\* However many workers still believe they hold a task (crashed, paused or
\* overtaken ones included), the fence lets at most one of them write.
OneWriterPerTask ==
    \A v, w \in Worker, t \in Task : MayWrite(v, t) /\ MayWrite(w, t) => v = w

\* A task that waits has an attempt left: the bounds of failWithinTransaction
\* and of claimTasks meet exactly, so no task can wait for a claim that the
\* attempt limit forbids.
PendingWorkHasAttempts ==
    \A t \in Task : status[t] = "pending" => attempts[t] < MaxAttempts

\* The discovery query and the claim query agree: an organization is woken
\* exactly when a claim would find an exhausted or a claimable row in it.
DiscoveryMatchesClaim ==
    (\E t \in Task : Runnable(t)) <=> (\E t \in Task : Exhausted(t) \/ Claimable(t))

\* "A cancellation or lease handoff won the fence. Never overwrite it": a
\* leased task is completed, failed or returned to the queue only by the
\* handler that holds its latest attempt.  Besides it only a claim fails one,
\* when the lease of its last attempt has run out; no handler ends with that.
OnlyCurrentHolderSettles ==
    [][\A t \in Task :
          status[t] = "processing" /\ status'[t] \in {"completed", "failed", "pending"} =>
              \/ \E w \in Worker : <<t, attempts[t]>> \in claims[w] \ claims'[w]
              \/ /\ status'[t] = "failed"
                 /\ lease[t] = 0 /\ attempts[t] >= MaxAttempts
                 /\ \A w \in Worker : claims[w] \subseteq claims'[w]]_vars

\* A settled task is never reopened, retried or settled differently, by a
\* late handler, a late uploader, a cancellation or a new request.
TerminalTasksAreFinal ==
    [][\A t \in Task : status[t] \in Terminal =>
          status'[t] = status[t] /\ attempts'[t] = attempts[t]]_vars

\* A batch that a poll reported as finished is never reported otherwise, and
\* its counters stand.
FinishedBatchesAreFrozen ==
    [][\A b \in Batch : sealed[b] /\ summary[b].status \in Terminal =>
          /\ sealed'[b]
          /\ summary'[b] = summary[b]
          /\ item'[b] = item[b]]_vars

\* Every sealed batch finishes although workers crash, leases run out and
\* attempts fail, because attempts are bounded and expired leases reclaimed.
SealedBatchesFinish ==
    \A b \in Batch : sealed[b] ~> summary[b].status \in Terminal

-----------------------------------------------------------------------------
(* The queue keeps the promise of BatchLedger. *)

Phase(b) ==
    IF batchType[b] = None THEN "absent"
    ELSE IF ~sealed[b] THEN "open"
    ELSE IF summary[b].status \in Terminal THEN "finished"
    ELSE "sealed"

Ledger == INSTANCE BatchLedger WITH
    phase  <- [b \in Batch |-> Phase(b)],
    count  <- [b \in Batch |-> [total     |-> summary[b].total,
                                completed |-> summary[b].completed,
                                failed    |-> summary[b].failed,
                                cancelled |-> summary[b].cancelled]],
    result <- [b \in Batch |-> summary[b].status]

\* Polling clients see an open, then a sealed, then a finished batch, with
\* counters that only grow and the outcome they imply.
KeepsLedger == Ledger!Spec
=============================================================================
