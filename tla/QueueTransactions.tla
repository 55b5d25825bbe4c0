-------------------------- MODULE QueueTransactions --------------------------
(***************************************************************************)
(* The transactions of server/utils/processingQueue.ts, statement by       *)
(* statement, under READ COMMITTED: a plain SELECT reads what is committed *)
(* (and the transaction's own writes), SELECT ... FOR UPDATE and the       *)
(* advisory locks wait for their holder, the foreign key of a membership   *)
(* row takes a KEY SHARE lock on the task it names, and a transaction that *)
(* fails leaves nothing behind.  Leases and attempts are those of module   *)
(* ProcessingQueue: here a claimed task may be reclaimed at any time.      *)
(***************************************************************************)
EXTENDS Integers, FiniteSets, FiniteSetsExt

CONSTANTS
    Txn,    \* database sessions
    Task,   \* identities a task row can take, in the order of their ids
    Batch,  \* identities a batch row can take, in the order of their ids
    Target, \* ProcessingTaskTarget, in the order of their lock keys
    Upload, \* the targets of type document_upload_reconciliation
    None

Active == {"pending", "processing"}
Terminal == {"completed", "failed", "cancelled"}
TaskStatus == Active \cup Terminal

\* What a batch row counts: per target, the status of the linked task.
View == [Target -> TaskStatus \cup {None}]

ASSUME TransactionsAssumption ==
    /\ IsFiniteSet(Task) /\ IsFiniteSet(Batch) /\ IsFiniteSet(Target)
    /\ Upload \subseteq Target
    /\ Task \subseteq Nat /\ Batch \subseteq Nat /\ Target \subseteq Nat
    /\ None \notin Txn \cup Nat \cup TaskStatus \cup View

VARIABLES
    status,   \* committed: per task, its status or None
    target,   \* committed: per task, its target or None
    item,     \* committed: per batch and target, the linked task or None
    view,     \* committed: per batch, the task statuses its summary counts
    advisory, \* per target: the holder of its pg_advisory_xact_lock
    row,      \* per task: the holder of its row lock (FOR UPDATE)
    share,    \* per task: the holders of KEY SHARE locks
    batchRow, \* per batch: the holder of its row lock
    run       \* per session: its transaction

committed == <<status, target, item, view>>
locks == <<advisory, row, share, batchRow>>
vars == <<committed, locks, run>>

NoMembers == [g \in Target |-> None]

\* A session without a transaction.
Idle == [
    op      |-> "none",  \* which function runs
    at      |-> "none",  \* its next statement
    targets |-> {},      \* targets to lock, or to link
    todo    |-> {},      \* targets not yet linked, tasks not yet refreshed
    rows    |-> {},      \* task rows still to be locked
    batch   |-> None,    \* the batch it creates, locks or reads
    found   |-> None,    \* the task findActiveTask returned
    batches |-> {},      \* batches still to be refreshed
    draft   |-> [t \in Task |-> None],  \* its own task writes
    item    |-> NoMembers,              \* its own membership rows
    view    |-> [b \in Batch |-> None]] \* its own batch writes

-----------------------------------------------------------------------------
(* What a statement of session x reads, and what it waits for. *)

StatusSeen(x, t) == IF run[x].draft[t] # None THEN run[x].draft[t] ELSE status[t]

\* The join of refreshBatchStatus: each member with its task's status.
ViewSeen(x, b) ==
    LET members == IF run[x].op = "enqueue" THEN run[x].item ELSE item[b]
    IN  [g \in Target |-> IF members[g] = None THEN None
                          ELSE StatusSeen(x, members[g])]

\* Mutant: one failed task finishes the batch.
FailFastStatus(v) ==
    LET among == {v[g] : g \in Target} \ {None}
    IN  CASE "failed" \in among -> "failed"
          [] "failed" \notin among /\ among \subseteq Terminal
             /\ "cancelled" \in among -> "cancelled"
          [] among \subseteq {"completed"} -> "completed"
          [] OTHER -> "pending"

\* The status refreshBatchStatus derives for a sealed batch.
BatchStatus(v) ==
    LET among == {v[g] : g \in Target} \ {None}
    IN  CASE among \subseteq Terminal /\ "failed" \in among -> "failed"
          [] among \subseteq Terminal /\ "failed" \notin among
             /\ "cancelled" \in among -> "cancelled"
          [] among \subseteq {"completed"} -> "completed"
          [] ~(among \subseteq Terminal) /\ "processing" \in among -> "processing"
          [] OTHER -> "pending"

\* Sessions a foreign key check on task t waits for.
KeyShareBlockers(t) == {row[t]}

\* Mutant: SELECT ... FOR NO KEY UPDATE, which foreign key checks let pass.
NoKeyUpdateBlockers(t) == {row[t]}

\* Sessions a SELECT ... FOR UPDATE of task t waits for.
UpdateBlockers(t) == {row[t]} \cup share[t]

\* Mutant: the keys are taken in the order of the request.
AnyResource(x) == run[x].targets

\* The resource lock keys are taken in sorted order.
NextResource(x) == {g \in run[x].targets : \A h \in run[x].targets : g <= h}

\* The sessions that hold what the next statement of x wants.
WaitsFor(x) ==
    LET r == run[x]
    IN  (CASE r.at = "advisory" /\ \A g \in NextResource(x) : advisory[g] # None ->
                  {advisory[g] : g \in NextResource(x)}
           [] r.at = "link" -> KeyShareBlockers(r.found)
           [] r.at = "lock" -> UpdateBlockers(Min(r.rows))
           [] r.at = "refresh" /\ r.batches # {} -> {batchRow[Min(r.batches)]}
           [] OTHER -> {}) \ {None, x}

\* Rows a SELECT ... FOR UPDATE SKIP LOCKED can take.
Unlocked(x) == {t \in Task : UpdateBlockers(t) \subseteq {None, x}}

ActiveTasks(g) == {t \in Task : status[t] \in Active /\ target[t] = g}

\* Identities nobody has used: crypto.randomUUID.
FreshTasks ==
    {t \in Task : status[t] = None /\ \A x \in Txn : run[x].draft[t] = None}
FreshBatches ==
    {b \in Batch : view[b] = None /\ \A x \in Txn : run[x].batch # b}

-----------------------------------------------------------------------------
Init ==
    /\ status = [t \in Task |-> None]
    /\ target = [t \in Task |-> None]
    /\ item = [b \in Batch |-> NoMembers]
    /\ view = [b \in Batch |-> None]
    /\ advisory = [g \in Target |-> None]
    /\ row = [t \in Task |-> None]
    /\ share = [t \in Task |-> {}]
    /\ batchRow = [b \in Batch |-> None]
    /\ run = [x \in Txn |-> Idle]

Continue(x, r) == run' = [run EXCEPT ![x] = r]

Begin(x, r) == run[x] = Idle /\ Continue(x, r)

\* Mutant: the resources are read without their locks.
SkipResourceLocks(x) ==
    /\ run[x].at = "advisory" /\ run[x].targets # {}
    /\ Continue(x, [run[x] EXCEPT !.targets = {}])
    /\ UNCHANGED <<committed, locks>>

\* prepareTaskResources: one advisory lock after the other.
LockResource(x) ==
    /\ run[x].at = "advisory"
    /\ \E g \in NextResource(x) :
           /\ advisory[g] = None
           /\ advisory' = [advisory EXCEPT ![g] = x]
           /\ Continue(x, [run[x] EXCEPT !.targets = @ \ {g}])
    /\ UNCHANGED <<committed, row, share, batchRow>>

(* enqueueProcessingBatch *)

BeginEnqueue(x, b, S) ==
    /\ b \in FreshBatches
    /\ Begin(x, [Idle EXCEPT !.op = "enqueue", !.at = "advisory",
                             !.targets = S, !.todo = S, !.batch = b])
    /\ UNCHANGED <<committed, locks>>

\* createBatch and findBatch, which lock the row of the new batch; findActiveTask,
\* and insertTask when it finds none.  (Outside the tests no caller names a batch
\* of an earlier transaction, so that findBatch waits for nobody.)
LookUpTask(x) ==
    LET r == run[x]
        g == Min(r.todo)
    IN  /\ r.op = "enqueue" /\ r.at = "advisory" /\ r.targets = {}
        /\ r.todo # {}
        /\ \/ \E t \in ActiveTasks(g) :
                  Continue(x, [r EXCEPT !.at = "link", !.found = t])
           \/ /\ ActiveTasks(g) = {}
              /\ \E t \in FreshTasks :
                     Continue(x, [r EXCEPT !.at = "link", !.found = t,
                                           !.draft[t] = "pending"])
        /\ batchRow' = [batchRow EXCEPT ![r.batch] = x]
        /\ UNCHANGED <<committed, advisory, row, share>>

\* linkBatchItem: its foreign key locks the task row against its removal.
LinkBatchItem(x) ==
    LET r == run[x]
        g == Min(r.todo)
    IN  /\ r.at = "link"
        /\ WaitsFor(x) = {}
        /\ share' = [share EXCEPT ![r.found] = @ \cup {x}]
        /\ Continue(x, [r EXCEPT !.at = "advisory", !.found = None,
                                 !.todo = @ \ {g}, !.item[g] = r.found])
        /\ UNCHANGED <<committed, advisory, row, batchRow>>

\* sealBatch ends with the refresh that the new batch is committed with.
SealBatch(x) ==
    LET r == run[x]
    IN  /\ r.op = "enqueue" /\ r.at = "advisory"
        /\ r.targets = {} /\ r.todo = {}
        /\ Continue(x, [r EXCEPT !.at = "refresh",
                                 !.view[r.batch] = ViewSeen(x, r.batch)])
        /\ UNCHANGED <<committed, locks>>

(* completeWithinTransaction, failWithinTransaction,                        *)
(* completePendingUploadWithinTransaction: one task                        *)

BeginSettle(x, t) ==
    /\ status[t] \in Active
    /\ Begin(x, [Idle EXCEPT !.op = "settle", !.at = "lock", !.rows = {t}])
    /\ UNCHANGED <<committed, locks>>

\* Mutant: the outcome is written without a look at the locked row.
SettleUnchecked(x, s) ==
    LET r == run[x]
    IN  /\ r.op = "settle" /\ r.at = "lock"
        /\ s \in {"completed", "failed", "pending"}
        /\ WaitsFor(x) = {}
        /\ \E t \in r.rows :
               /\ row' = [row EXCEPT ![t] = x]
               /\ Continue(x, [r EXCEPT !.at = "refresh", !.rows = {},
                                        !.draft[t] = s, !.todo = {t}])
        /\ UNCHANGED <<committed, advisory, share, batchRow>>

\* lockTask, the check of what it returns, and the update of the row.
SettleTask(x, s) ==
    LET r == run[x]
    IN  /\ r.op = "settle" /\ r.at = "lock"
        /\ WaitsFor(x) = {}
        /\ \E t \in r.rows :
               /\ \/ status[t] = "processing" /\ s \in {"completed", "failed", "pending"}
                  \/ status[t] = "pending" /\ target[t] \in Upload /\ s = "completed"
               /\ row' = [row EXCEPT ![t] = x]
               /\ Continue(x, [r EXCEPT !.at = "refresh", !.rows = {},
                                        !.draft[t] = s, !.todo = {t}])
        /\ UNCHANGED <<committed, advisory, share, batchRow>>

\* No batch is left to refresh.
Refreshed(x) ==
    /\ run[x].at = "refresh"
    /\ run[x].batches = {} /\ run[x].todo = {}

(* cancelTasksWithinTransaction *)

BeginCancel(x, S) ==
    /\ Begin(x, [Idle EXCEPT !.op = "cancel", !.at = "advisory",
                             !.targets = S, !.todo = S])
    /\ UNCHANGED <<committed, locks>>

\* A cascade cancels again in its transaction and keeps what it has locked: the
\* documents of a candidate after the applications, or once more those of an
\* application.  The resources come after those it holds, for the key of an
\* application precedes those of its documents; a document that is cancelled
\* twice was kept from new tasks by the lock on its application.
CancelMore(x, S) ==
    LET r == run[x]
    IN  /\ r.op = "cancel" /\ Refreshed(x)
        /\ \A g \in S, h \in Target : advisory[h] = x => h < g
        /\ Continue(x, [r EXCEPT !.at = "advisory", !.targets = S, !.todo = S])
        /\ UNCHANGED <<committed, locks>>

LockOrRefresh(rows) == IF rows = {} THEN "refresh" ELSE "lock"

\* cancelTasks: the rows its SELECT finds, locked in the order of their ids.
SelectTasks(x) ==
    LET r == run[x]
    IN  /\ r.op = "cancel" /\ r.at = "advisory" /\ r.targets = {}
        /\ LET rows == UNION {ActiveTasks(g) : g \in r.todo}
           IN  Continue(x, [r EXCEPT !.at = LockOrRefresh(rows), !.todo = {},
                                     !.rows = rows])
        /\ UNCHANGED <<committed, locks>>

\* Mutant: what the SELECT found is cancelled without a second look.
LockTaskUnchecked(x) ==
    LET r == run[x]
        t == Min(r.rows)
    IN  /\ r.op = "cancel" /\ r.at = "lock"
        /\ WaitsFor(x) = {}
        /\ row' = [row EXCEPT ![t] = x]
        /\ Continue(x, [r EXCEPT !.rows = @ \ {t}, !.at = LockOrRefresh(r.rows \ {t}),
                                 !.todo = @ \cup {t}, !.draft[t] = "cancelled"])
        /\ UNCHANGED <<committed, advisory, share, batchRow>>

\* A row that settled while the SELECT waited for it is passed over.
LockTask(x) ==
    LET r == run[x]
        t == Min(r.rows)
        next == [r EXCEPT !.rows = @ \ {t}, !.at = LockOrRefresh(r.rows \ {t})]
    IN  /\ r.op = "cancel" /\ r.at = "lock"
        /\ WaitsFor(x) = {}
        /\ IF status[t] \in Active
           THEN /\ row' = [row EXCEPT ![t] = x]
                /\ Continue(x, [next EXCEPT !.todo = @ \cup {t},
                                            !.draft[t] = "cancelled"])
           ELSE /\ Continue(x, next)
                /\ UNCHANGED row
        /\ UNCHANGED <<committed, advisory, share, batchRow>>

(* claimTasks *)

\* Lock the unlocked rows T, give them status s, then refresh their batches.
TakeRows(x, T, s, op) ==
    /\ T \subseteq Unlocked(x)
    /\ row' = [t \in Task |-> IF t \in T THEN x ELSE row[t]]
    /\ Continue(x, [run[x] EXCEPT
                       !.op = op, !.at = "refresh", !.todo = T,
                       !.draft = [t \in Task |-> IF t \in T THEN s ELSE @[t]]])
    /\ UNCHANGED <<committed, advisory, share, batchRow>>

FailExhausted(x, T) ==
    /\ run[x] = Idle
    /\ \A t \in T : status[t] = "processing"
    /\ TakeRows(x, T, "failed", "exhaust")

TakeClaimable(x, T) ==
    /\ run[x].op = "exhaust" /\ Refreshed(x)
    /\ T # {}
    /\ \A t \in T : StatusSeen(x, t) \in Active
    /\ TakeRows(x, T, "processing", "claim")

(* refreshBatchesForTask *)

\* The order of the tasks: sorted by a cancellation, else as returned.
NextTask(x) == IF run[x].op = "cancel" THEN {Min(run[x].todo)} ELSE run[x].todo

FindBatchIds(x) ==
    LET r == run[x]
    IN  /\ r.at = "refresh" /\ r.batches = {} /\ r.todo # {}
        /\ \E t \in NextTask(x) :
               Continue(x, [r EXCEPT
                   !.todo = @ \ {t},
                   !.batches = {b \in Batch : \E g \in Target : item[b][g] = t}])
        /\ UNCHANGED <<committed, locks>>

LockBatch(x) ==
    LET r == run[x]
        b == Min(r.batches)
    IN  /\ r.at = "refresh" /\ r.batches # {}
        /\ WaitsFor(x) = {}
        /\ batchRow' = [batchRow EXCEPT ![b] = x]
        /\ Continue(x, [r EXCEPT !.at = "count", !.batch = b, !.batches = @ \ {b}])
        /\ UNCHANGED <<committed, advisory, row, share>>

CountTasks(x) ==
    LET r == run[x]
    IN  /\ r.at = "count"
        /\ Continue(x, [r EXCEPT !.at = "refresh", !.batch = None,
                                 !.view[r.batch] = ViewSeen(x, r.batch)])
        /\ UNCHANGED <<committed, locks>>

(* The end of a transaction: its writes and its locks. *)

Release(x) ==
    /\ advisory' = [g \in Target |-> IF advisory[g] = x THEN None ELSE advisory[g]]
    /\ row' = [t \in Task |-> IF row[t] = x THEN None ELSE row[t]]
    /\ share' = [t \in Task |-> share[t] \ {x}]
    /\ batchRow' = [b \in Batch |-> IF batchRow[b] = x THEN None ELSE batchRow[b]]
    /\ Continue(x, Idle)

Commit(x) ==
    LET r == run[x]
    IN  /\ Refreshed(x)
        /\ status' = [t \in Task |-> StatusSeen(x, t)]
        /\ target' = [t \in Task |->
               IF target[t] = None /\ \E g \in Target : r.item[g] = t
               THEN CHOOSE g \in Target : r.item[g] = t
               ELSE target[t]]
        /\ item' = IF r.op = "enqueue" THEN [item EXCEPT ![r.batch] = r.item] ELSE item
        /\ view' = [b \in Batch |-> IF r.view[b] # None THEN r.view[b] ELSE view[b]]
        /\ Release(x)

\* A stale lease, a lost connection, a deadlock that PostgreSQL resolves.
Rollback(x) ==
    /\ run[x] # Idle
    /\ Release(x)
    /\ UNCHANGED committed

(* getProcessingBatchStatus reads the batch row, then the tasks. *)

BeginPoll(x, b) ==
    /\ view[b] # None
    /\ Begin(x, [Idle EXCEPT !.op = "poll", !.at = "answer", !.view[b] = view[b]])
    /\ UNCHANGED <<committed, locks>>

-----------------------------------------------------------------------------
Statement(x) ==
    \/ LockResource(x)
    \/ LookUpTask(x) \/ LinkBatchItem(x) \/ SealBatch(x)
    \/ \E s \in TaskStatus : SettleTask(x, s)
    \/ SelectTasks(x) \/ LockTask(x)
    \/ \E T \in SUBSET Task : FailExhausted(x, T) \/ TakeClaimable(x, T)
    \/ FindBatchIds(x) \/ LockBatch(x) \/ CountTasks(x)

Next ==
    \E x \in Txn :
        \/ \E b \in Batch, S \in SUBSET Target \ {{}} : BeginEnqueue(x, b, S)
        \/ \E t \in Task : BeginSettle(x, t)
        \/ \E S \in SUBSET Target \ {{}} : BeginCancel(x, S) \/ CancelMore(x, S)
        \/ \E b \in Batch : BeginPoll(x, b)
        \/ Statement(x)
        \/ Commit(x)
        \/ Rollback(x)

Spec == Init /\ [][Next]_vars

-----------------------------------------------------------------------------
Op == {"none", "enqueue", "settle", "cancel", "exhaust", "claim", "poll"}
Label == {"none", "advisory", "link", "lock", "refresh", "count", "answer"}

Transaction == [
    op : Op, at : Label, targets : SUBSET Target, todo : SUBSET (Target \cup Task),
    rows : SUBSET Task, batch : Batch \cup {None}, found : Task \cup {None},
    batches : SUBSET Batch, draft : [Task -> TaskStatus \cup {None}],
    item : [Target -> Task \cup {None}], view : [Batch -> View \cup {None}]]

\* Rows and transactions are well formed, and locks end with transactions.
TypeOK ==
    /\ status \in [Task -> TaskStatus \cup {None}]
    /\ target \in [Task -> Target \cup {None}]
    /\ item \in [Batch -> [Target -> Task \cup {None}]]
    /\ view \in [Batch -> View \cup {None}]
    /\ advisory \in [Target -> Txn \cup {None}]
    /\ row \in [Task -> Txn \cup {None}]
    /\ share \in [Task -> SUBSET Txn]
    /\ batchRow \in [Batch -> Txn \cup {None}]
    /\ run \in [Txn -> Transaction]
    /\ \A x \in Txn : run[x] = Idle =>
           /\ \A g \in Target : advisory[g] # x
           /\ \A t \in Task : row[t] # x /\ x \notin share[t]
           /\ \A b \in Batch : batchRow[b] # x

\* Whatever transactions interleave and fail between the statements, a batch
\* row that is committed counts its committed tasks as they are: the row lock
\* that settles a task meets the key share lock that links it, and the row
\* lock of a batch makes each refresh read the statuses of the one before.
CommittedSummariesAgree ==
    \A b \in Batch : view[b] # None =>
        view[b] = [g \in Target |-> IF item[b][g] = None THEN None
                                    ELSE status[item[b][g]]]

\* The tasks inserted for g, committed or not, that may be active.
InsertedFor(g) ==
    ActiveTasks(g) \cup
    {t \in Task : \E x \in Txn :
        /\ target[t] = None /\ run[x].draft[t] = "pending"
        /\ \/ run[x].item[g] = t
           \/ run[x].found = t /\ g = Min(run[x].todo)}

\* The advisory lock makes lookup and insertion one step for a target: no
\* insert can meet the partial unique index, so enqueueing never fails with
\* "Active processing task conflict could not be resolved".
InsertsNeverConflict == \A g \in Target : Cardinality(InsertedFor(g)) <= 1

\* S is a cycle of transactions that wait for each other.
Deadlocked(S) ==
    /\ S # {}
    /\ \A x \in S : WaitsFor(x) \cap S # {} /\ \E y \in S : x \in WaitsFor(y)

\* "Stable lock order avoids deadlocks for overlapping concurrent batches":
\* resources and task rows are locked in an order in which transactions cannot
\* wait for each other, and so are the batch rows of one outcome.  What is left
\* is a claim or a cancellation of several tasks, which locks the batches of one
\* task after those of another, or a cascade, which locks more resources and
\* task rows after batches: wherever sessions wait for each other, one of them
\* waits for a batch row that such a session holds.
DeadlocksMeetAtBatches ==
    \A S \in SUBSET Txn : Deadlocked(S) =>
        \E x \in S : /\ run[x].at = "refresh"
                     /\ \E y \in S \cap WaitsFor(x) :
                            run[y].op \in {"cancel", "exhaust", "claim"}

\* A poll reads the batch row before the tasks.  One that saw the batch
\* finished finds no unfinished task, whatever commits in between, so that
\* its answer (no retryAfterMs) is consistent with its counts.
FinishedPollsAreSettled ==
    \A x \in Txn, b \in Batch :
        run[x].op = "poll" /\ run[x].view[b] # None
        /\ BatchStatus(run[x].view[b]) \in Terminal
        => \A g \in Target : item[b][g] # None => status[item[b][g]] \in Terminal

\* A task that completed, failed or was cancelled stays so, with its resource:
\* outcomes, cancellations and claims that found it active before they waited
\* for its row, or read it before another commit, do not bring it back.
SettledTasksAreFinal ==
    [][\A t \in Task : status[t] \in Terminal =>
           status'[t] = status[t] /\ target'[t] = target[t]]_vars

\* The schema on processing_batch_item: "Durable membership from every
\* requested batch resource to its canonical active task.  Multiple batches
\* may follow the same task without treating it as already successful."  The
\* code violates it: the canonical task may settle while the insert waits.
LinkedTasksAreActive ==
    [][\A b \in Batch : view[b] = None /\ view'[b] # None =>
           \A g \in Target : item'[b][g] # None => status'[item'[b][g]] \in Active]_vars

\* The comment of the lock order in completePendingUpload...: "Batch-first
\* paths never take task row locks", and of enqueueWithinTransaction: "The
\* batch is already locked.  This task lookup must remain non-locking": who
\* holds a batch row takes no lock on the row of an existing task.  The code
\* violates it: the foreign key of a membership row locks the task.
BatchRowsAreLockedLast ==
    [][\A x \in Txn, t \in Task :
           status[t] # None
           /\ \/ row[t] # x /\ row'[t] = x
              \/ x \in share'[t] \ share[t]
           => \A b \in Batch : batchRow[b] # x]_vars

(* The committed rows keep the promise of BatchLedger, too. *)

CountOf(v, s) == Cardinality({g \in Target : v[g] = s})

Ledger == INSTANCE BatchLedger WITH
    phase  <- [b \in Batch |-> IF view[b] = None THEN "absent"
                               ELSE IF BatchStatus(view[b]) \in Terminal THEN "finished"
                               ELSE "sealed"],
    count  <- [b \in Batch |->
                  IF view[b] = None
                  THEN [total |-> 0, completed |-> 0, failed |-> 0, cancelled |-> 0]
                  ELSE [total     |-> Cardinality(Target) - CountOf(view[b], None),
                        completed |-> CountOf(view[b], "completed"),
                        failed    |-> CountOf(view[b], "failed"),
                        cancelled |-> CountOf(view[b], "cancelled")]],
    result <- [b \in Batch |-> IF view[b] = None THEN "pending" ELSE BatchStatus(view[b])]

\* Statement by statement, a polled batch row is sealed, progresses and
\* finishes as BatchLedger allows.
KeepsLedger == Ledger!Spec
=============================================================================
