------------------------- MODULE ProcessingQueueProofs -------------------------
(***************************************************************************)
(* Proofs about the processing queue, for any number of tasks, batches,    *)
(* targets and workers and any attempt limit.                              *)
(***************************************************************************)
EXTENDS ProcessingQueue, FiniteSetTheorems, TLAPS

-----------------------------------------------------------------------------
(* Lemmas about the helpers. *)

\* A refreshed batch row is well formed, whatever its members.
LEMMA RefreshedType ==
    ASSUME NEW st, NEW m, NEW isSealed \in BOOLEAN, NEW wasStarted \in BOOLEAN
    PROVE  Refreshed(st, m, isSealed, wasStarted) \in Summary
<1> DEFINE InStatus(S) == {g \in Target : m[g] # None /\ st[m[g]] \in S}
<1>1. \A S : Cardinality(InStatus(S)) \in Nat
  BY QueueAssumption, FS_Subset, FS_CardinalityType
<1> HIDE DEF InStatus
<1>2. QED
  BY <1>1 DEF Refreshed, InStatus, Summary, TaskStatus, Active, Terminal

\* Refreshing a second time changes nothing.
LEMMA RefreshedIdempotent ==
    ASSUME NEW st, NEW m, NEW isSealed \in BOOLEAN, NEW wasStarted \in BOOLEAN
    PROVE  Refreshed(st, m, isSealed, Refreshed(st, m, isSealed, wasStarted).started)
               = Refreshed(st, m, isSealed, wasStarted)
  BY DEF Refreshed

\* The refresh reads nothing but the statuses of the members.
LEMMA RefreshedReadsMembers ==
    ASSUME NEW st, NEW su, NEW m, NEW isSealed, NEW wasStarted,
           \A g \in Target : m[g] # None => st[m[g]] = su[m[g]]
    PROVE  Refreshed(st, m, isSealed, wasStarted) = Refreshed(su, m, isSealed, wasStarted)
<1>1. \A S : {g \in Target : m[g] # None /\ st[m[g]] \in S}
           = {g \in Target : m[g] # None /\ su[m[g]] \in S}
  OBVIOUS
<1>2. QED
  BY <1>1 DEF Refreshed

\* What an enqueue does to the task rows: only rows that did not exist
\* change, and they become pending rows of the target that picked them.
LEMMA InsertTasksFacts ==
    ASSUME TypeOK, NEW S \in SUBSET Target, NEW pick \in [S -> Task],
           InsertTasks(S, pick)
    PROVE  /\ status' \in [Task -> TaskStatus \cup {None}]
           /\ target' \in [Task -> Target \cup {None}]
           /\ delay' \in [Task -> Int]
           /\ attempts' = attempts /\ lease' = lease
           /\ \A t \in Task : status[t] # None =>
                  status'[t] = status[t] /\ target'[t] = target[t]
           /\ \A t \in Task : status[t] = None =>
                  \/ status'[t] = None /\ target'[t] = target[t]
                  \/ /\ status'[t] = "pending"
                     /\ \E g \in S : pick[g] = t /\ target'[t] = g
           /\ \A g \in S : status[pick[g]] = None => status'[pick[g]] = "pending"
<1> DEFINE new == {pick[g] : g \in S} \cap {t \in Task : status[t] = None}
           TargetOf(t) == CHOOSE g \in S : pick[g] = t
<1>1. \A t \in new : TargetOf(t) \in S /\ pick[TargetOf(t)] = t
  OBVIOUS
<1>2. status' = [t \in Task |-> IF t \in new THEN "pending" ELSE status[t]]
  BY DEF InsertTasks
<1>3. target' = [t \in Task |-> IF t \in new THEN TargetOf(t) ELSE target[t]]
  BY DEF InsertTasks
<1>4. delay' = [t \in Task |->
                   IF t \in new THEN InitialDelay(TargetOf(t)) ELSE delay[t]]
  BY DEF InsertTasks
<1>5. attempts' = attempts /\ lease' = lease
  BY DEF InsertTasks
<1>6. \A g \in Target : InitialDelay(g) \in Int
  BY QueueAssumption DEF InitialDelay
<1>7. \A g \in S : pick[g] \in Task
  OBVIOUS
<1>8. new \subseteq Task /\ \A t \in new : status[t] = None
  OBVIOUS
<1>9. \A g \in S : status[pick[g]] = None => pick[g] \in new
  BY <1>7
<1> HIDE DEF new, TargetOf
<1>10. status' \in [Task -> TaskStatus \cup {None}]
  BY <1>2 DEF TypeOK, TaskStatus, Active
<1>11. target' \in [Task -> Target \cup {None}]
  BY <1>1, <1>3 DEF TypeOK
<1>12. delay' \in [Task -> Int]
  BY <1>1, <1>4, <1>6 DEF TypeOK
<1>13. \A t \in Task : status[t] # None =>
           status'[t] = status[t] /\ target'[t] = target[t]
  BY <1>2, <1>3, <1>8
<1>14. \A t \in Task : status[t] = None =>
                  \/ status'[t] = None /\ target'[t] = target[t]
                  \/ /\ status'[t] = "pending"
                     /\ \E g \in S : pick[g] = t /\ target'[t] = g
  BY <1>1, <1>2, <1>3
<1>15. \A g \in S : status[pick[g]] = None => status'[pick[g]] = "pending"
  BY <1>2, <1>7, <1>9
<1>16. QED
  BY <1>5, <1>10, <1>11, <1>12, <1>13, <1>14, <1>15

\* The refresh of any batches keeps the batch rows well formed.
LEMMA RefreshBatchesType ==
    ASSUME NEW bs, RefreshBatches(bs),
           summary \in [Batch -> Summary], sealed' \in [Batch -> BOOLEAN]
    PROVE  summary' \in [Batch -> Summary]
<1>1. ASSUME NEW b \in Batch
      PROVE  Refreshed(status', item'[b], sealed'[b], summary[b].started) \in Summary
  <2>1. summary[b].started \in BOOLEAN
    BY DEF Summary
  <2>2. QED
    BY <2>1, RefreshedType
<1>2. QED
  BY <1>1 DEF RefreshBatches

LEMMA AttemptsBound == ASSUME TypeOK, NEW t \in Task, attempts[t] < MaxAttempts
                       PROVE  NextAttempt(t) \in Attempt
  BY QueueAssumption DEF TypeOK, NextAttempt, Attempt

-----------------------------------------------------------------------------
(* Type correctness. *)

\* Every row the queue ever holds is well formed; in particular no task is
\* attempted more than MaxAttempts times.
THEOREM TypeCorrect == Spec => []TypeOK
<1>1. Init => TypeOK
  <2> SUFFICES ASSUME Init PROVE TypeOK
    OBVIOUS
  <2>1. NewSummary \in Summary
    BY DEF NewSummary, Summary, TaskStatus, Active
  <2>2. QED
    BY <2>1, QueueAssumption DEF Init, TypeOK
<1>2. TypeOK /\ [Next]_vars => TypeOK'
  <2> SUFFICES ASSUME TypeOK, [Next]_vars PROVE TypeOK'
    OBVIOUS
  <2> USE DEF taskVars, batchVars
  <2>1. ASSUME NEW b \in Batch, NEW ty \in Type, CreateProcessingBatch(b, ty)
        PROVE  TypeOK'
    BY <2>1 DEF CreateProcessingBatch, TypeOK
  <2>2. ASSUME NEW b \in Batch, NEW g \in Target, NEW t \in Task,
               EnqueueInBatch(b, g, t)
        PROVE  TypeOK'
    <3> DEFINE pick == [x \in {g} |-> t]
    <3>1. InsertTasks({g}, pick) /\ pick \in [{g} -> Task]
      BY <2>2 DEF EnqueueInBatch
    <3> HIDE DEF pick
    <3>2. /\ status' \in [Task -> TaskStatus \cup {None}]
          /\ target' \in [Task -> Target \cup {None}]
          /\ delay' \in [Task -> Int]
          /\ attempts' = attempts /\ lease' = lease
      BY <3>1, InsertTasksFacts
    <3>3. item' \in [Batch -> [Target -> Task \cup {None}]]
      BY <2>2 DEF EnqueueInBatch, TypeOK
    <3>4. batchType' = batchType /\ sealed' = sealed /\ claims' = claims
      BY <2>2 DEF EnqueueInBatch
    <3>5. summary' \in [Batch -> Summary]
      BY <2>2, <3>4, RefreshBatchesType DEF EnqueueInBatch, TypeOK
    <3>6. QED
      BY <3>2, <3>3, <3>4, <3>5 DEF TypeOK
  <2>3. ASSUME NEW b \in Batch, SealProcessingBatch(b)
        PROVE  TypeOK'
    <3>1. sealed' \in [Batch -> BOOLEAN]
      BY <2>3 DEF SealProcessingBatch, TypeOK
    <3>2. summary' \in [Batch -> Summary]
      BY <2>3, <3>1, RefreshBatchesType DEF SealProcessingBatch, TypeOK
    <3>3. QED
      BY <2>3, <3>1, <3>2 DEF SealProcessingBatch, TypeOK
  <2>4. ASSUME NEW b \in Batch, NEW ty \in Type, NEW S \in SUBSET Target,
               NEW pick \in [S -> Task], EnqueueProcessingBatch(b, ty, S, pick)
        PROVE  TypeOK'
    <3>1. /\ status' \in [Task -> TaskStatus \cup {None}]
          /\ target' \in [Task -> Target \cup {None}]
          /\ delay' \in [Task -> Int]
          /\ attempts' = attempts /\ lease' = lease
      BY <2>4, InsertTasksFacts DEF EnqueueProcessingBatch
    <3>2. /\ item' \in [Batch -> [Target -> Task \cup {None}]]
          /\ batchType' \in [Batch -> Type \cup {None}]
          /\ sealed' \in [Batch -> BOOLEAN]
          /\ claims' = claims
      BY <2>4 DEF EnqueueProcessingBatch, TypeOK
    <3>3. summary' \in [Batch -> Summary]
      BY <2>4, <3>2, RefreshBatchesType DEF EnqueueProcessingBatch, TypeOK
    <3>4. QED
      BY <3>1, <3>2, <3>3 DEF TypeOK
  <2>5. ASSUME NEW w \in Worker, NEW E \in SUBSET Task, NEW C \in SUBSET Task,
               ClaimProcessingTasks(w, E, C)
        PROVE  TypeOK'
    <3>1. \A t \in C : NextAttempt(t) \in Attempt
      BY <2>5, AttemptsBound DEF ClaimProcessingTasks, Claimable
    <3>2. /\ status' \in [Task -> TaskStatus \cup {None}]
          /\ lease' \in [Task -> 0..LeaseTicks]
      BY <2>5, QueueAssumption
      DEF ClaimProcessingTasks, TypeOK, TaskStatus, Active, Terminal
    <3>3. attempts' \in [Task -> 0..MaxAttempts]
      BY <2>5, <3>1, QueueAssumption DEF ClaimProcessingTasks, TypeOK, Attempt
    <3>4. claims' \in [Worker -> SUBSET Claim]
      <4>1. {<<t, NextAttempt(t)>> : t \in C} \subseteq Claim
        BY <3>1 DEF Claim
      <4>2. QED
        BY <2>5, <4>1 DEF ClaimProcessingTasks, TypeOK
    <3>5. UNCHANGED <<target, delay, item, batchType, sealed>>
      BY <2>5 DEF ClaimProcessingTasks
    <3>6. summary' \in [Batch -> Summary]
      BY <2>5, <3>5, RefreshBatchesType DEF ClaimProcessingTasks, TypeOK
    <3>7. QED
      BY <3>2, <3>3, <3>4, <3>5, <3>6 DEF TypeOK
  <2>6. ASSUME NEW w \in Worker, NEW t \in Task, NEW a \in Attempt,
               RenewProcessingTaskLease(w, t, a)
        PROVE  TypeOK'
    BY <2>6, QueueAssumption DEF RenewProcessingTaskLease, TypeOK
  <2>7. ASSUME NEW w \in Worker, NEW t \in Task, NEW a \in Attempt,
               CompleteProcessingTask(w, t, a)
        PROVE  TypeOK'
    <3>1. summary' \in [Batch -> Summary]
      BY <2>7, RefreshBatchesType DEF CompleteProcessingTask, TypeOK
    <3>2. claims' \in [Worker -> SUBSET Claim]
      BY <2>7 DEF CompleteProcessingTask, Drop, TypeOK
    <3>3. /\ status' \in [Task -> TaskStatus \cup {None}]
          /\ lease' \in [Task -> 0..LeaseTicks]
      BY <2>7, QueueAssumption
      DEF CompleteProcessingTask, Settle, TypeOK, TaskStatus, Terminal
    <3>4. QED
      BY <2>7, <3>1, <3>2, <3>3 DEF CompleteProcessingTask, TypeOK
  <2>8. ASSUME NEW w \in Worker, NEW t \in Task, NEW a \in Attempt,
               NEW S \in SUBSET Target, CompleteWithResourceCleanup(w, t, a, S)
        PROVE  TypeOK'
    <3>1. summary' \in [Batch -> Summary]
      BY <2>8, RefreshBatchesType DEF CompleteWithResourceCleanup, TypeOK
    <3>2. claims' \in [Worker -> SUBSET Claim]
      BY <2>8 DEF CompleteWithResourceCleanup, Drop, TypeOK
    <3>3. /\ status' \in [Task -> TaskStatus \cup {None}]
          /\ lease' \in [Task -> 0..LeaseTicks]
      BY <2>8, QueueAssumption
      DEF CompleteWithResourceCleanup, TypeOK, TaskStatus, Terminal
    <3>4. QED
      BY <2>8, <3>1, <3>2, <3>3 DEF CompleteWithResourceCleanup, TypeOK
  <2>9. ASSUME NEW w \in Worker, NEW t \in Task, NEW a \in Attempt,
               NEW retryable \in BOOLEAN, FailProcessingTask(w, t, a, retryable)
        PROVE  TypeOK'
    <3>1. summary' \in [Batch -> Summary]
      BY <2>9, RefreshBatchesType DEF FailProcessingTask, TypeOK
    <3>2. claims' \in [Worker -> SUBSET Claim]
      BY <2>9 DEF FailProcessingTask, Drop, TypeOK
    <3>3. RetryDelay(a) \in Int
      BY QueueAssumption DEF RetryDelay, Attempt
    <3>4. /\ status' \in [Task -> TaskStatus \cup {None}]
          /\ lease' \in [Task -> 0..LeaseTicks]
      BY <2>9, QueueAssumption
      DEF FailProcessingTask, Settle, TypeOK, TaskStatus, Active, Terminal
    <3>5. delay' \in [Task -> Int]
      BY <2>9, <3>3 DEF FailProcessingTask, TypeOK
    <3>6. QED
      BY <2>9, <3>1, <3>2, <3>4, <3>5 DEF FailProcessingTask, TypeOK
  <2>10. ASSUME NEW w \in Worker, NEW t \in Task, NEW a \in Attempt,
                AbandonClaim(w, t, a)
         PROVE  TypeOK'
    BY <2>10 DEF AbandonClaim, Drop, TypeOK
  <2>11. ASSUME NEW w \in Worker, CrashWorker(w)
         PROVE  TypeOK'
    BY <2>11 DEF CrashWorker, TypeOK
  <2>12. ASSUME NEW S \in SUBSET Target, CancelProcessingTasks(S)
         PROVE  TypeOK'
    <3>1. summary' \in [Batch -> Summary]
      BY <2>12, RefreshBatchesType DEF CancelProcessingTasks, TypeOK
    <3>2. /\ status' \in [Task -> TaskStatus \cup {None}]
          /\ lease' \in [Task -> 0..LeaseTicks]
      BY <2>12, QueueAssumption
      DEF CancelProcessingTasks, Settle, TypeOK, TaskStatus, Terminal
    <3>3. QED
      BY <2>12, <3>1, <3>2 DEF CancelProcessingTasks, TypeOK
  <2>13. ASSUME NEW t \in Task, CompletePendingUpload(t)
         PROVE  TypeOK'
    <3>1. summary' \in [Batch -> Summary]
      BY <2>13, RefreshBatchesType DEF CompletePendingUpload, TypeOK
    <3>2. /\ status' \in [Task -> TaskStatus \cup {None}]
          /\ lease' \in [Task -> 0..LeaseTicks]
      BY <2>13, QueueAssumption
      DEF CompletePendingUpload, Settle, TypeOK, TaskStatus, Terminal
    <3>3. QED
      BY <2>13, <3>1, <3>2 DEF CompletePendingUpload, TypeOK
  <2>14. CASE Tick
    <3>1. lease' \in [Task -> 0..LeaseTicks]
      BY <2>14, QueueAssumption DEF Tick, TypeOK
    <3>2. delay' \in [Task -> Int]
      BY <2>14 DEF Tick, TypeOK
    <3>3. QED
      BY <2>14, <3>1, <3>2 DEF Tick, TypeOK
  <2>15. CASE UNCHANGED vars
    BY <2>15 DEF vars, TypeOK
  <2>16. QED
    BY <2>1, <2>2, <2>3, <2>4, <2>5, <2>6, <2>7, <2>8, <2>9, <2>10, <2>11,
       <2>12, <2>13, <2>14, <2>15 DEF Next, ClaimSome, EndOfHandler
<1>3. QED
  BY <1>1, <1>2, PTL DEF Spec

-----------------------------------------------------------------------------
(* Every step is an enqueue, a create or a seal, or a step on task rows. *)

\* A step that inserts nothing: it may move the active tasks of T, and it
\* refreshes every batch that follows one of them.
TaskStep(T) ==
    /\ UNCHANGED <<target, item, batchType, sealed>>
    /\ \A t \in Task \ T : status'[t] = status[t]
    /\ \A t \in T : status[t] \in Active /\ status'[t] \in TaskStatus
    /\ RefreshBatches(BatchesOf(T))

Enqueues ==
    \/ \E b \in Batch, g \in Target, t \in Task : EnqueueInBatch(b, g, t)
    \/ \E b \in Batch, ty \in Type, S \in SUBSET Target :
           \E pick \in [S -> Task] : EnqueueProcessingBatch(b, ty, S, pick)

BatchSteps ==
    \/ \E b \in Batch, ty \in Type : CreateProcessingBatch(b, ty)
    \/ \E b \in Batch : SealProcessingBatch(b)

LEMMA NoTaskStep ==
    ASSUME TypeOK, UNCHANGED <<status, target, batchVars>>
    PROVE  TaskStep({})
<1>1. BatchesOf({}) = {}
  BY DEF BatchesOf
<1>2. summary' = [b \in Batch |-> summary[b]]
  BY DEF TypeOK, batchVars
<1>3. QED
  BY <1>1, <1>2 DEF TaskStep, RefreshBatches, batchVars

LEMMA StepForms ==
    ASSUME TypeOK, [Next]_vars
    PROVE  Enqueues \/ BatchSteps \/ \E T \in SUBSET Task : TaskStep(T)
<1> USE DEF taskVars
<1>1. ASSUME NEW w \in Worker, NEW E \in SUBSET Task, NEW C \in SUBSET Task,
             ClaimProcessingTasks(w, E, C)
      PROVE  TaskStep(E \cup C)
  <2>1. \A t \in E \cup C : status[t] \in Active /\ status'[t] \in TaskStatus
    BY <1>1 DEF ClaimProcessingTasks, Exhausted, Claimable, Active, Terminal, TaskStatus
  <2>2. \A t \in Task \ (E \cup C) : status'[t] = status[t]
    BY <1>1 DEF ClaimProcessingTasks
  <2>3. QED
    BY <1>1, <2>1, <2>2 DEF ClaimProcessingTasks, TaskStep
<1>2. ASSUME NEW w \in Worker, NEW t \in Task, NEW a \in Attempt,
             CompleteProcessingTask(w, t, a)
      PROVE  TaskStep({t})
  BY <1>2 DEF CompleteProcessingTask, HoldsLease, Settle, TaskStep, Active, Terminal, TaskStatus
<1>3. ASSUME NEW w \in Worker, NEW t \in Task, NEW a \in Attempt,
             NEW S \in SUBSET Target, CompleteWithResourceCleanup(w, t, a, S)
      PROVE  TaskStep(CancelledBy(S \ {target[t]}) \cup {t})
  <2> DEFINE T == CancelledBy(S \ {target[t]}) \cup {t}
  <2>1. \A u \in T : status[u] \in Active /\ status'[u] \in TaskStatus
    BY <1>3 DEF CompleteWithResourceCleanup, HoldsLease, CancelledBy, Active, Terminal, TaskStatus
  <2>2. \A u \in Task \ T : status'[u] = status[u]
    BY <1>3 DEF CompleteWithResourceCleanup
  <2>3. QED
    BY <1>3, <2>1, <2>2 DEF CompleteWithResourceCleanup, TaskStep
<1>4. ASSUME NEW w \in Worker, NEW t \in Task, NEW a \in Attempt,
             NEW retryable \in BOOLEAN, FailProcessingTask(w, t, a, retryable)
      PROVE  TaskStep({t})
  BY <1>4 DEF FailProcessingTask, HoldsLease, Settle, TaskStep, Active, Terminal, TaskStatus
<1>5. ASSUME NEW S \in SUBSET Target, CancelProcessingTasks(S)
      PROVE  TaskStep(CancelledBy(S))
  BY <1>5 DEF CancelProcessingTasks, CancelledBy, Settle, TaskStep, Active, Terminal, TaskStatus
<1>6. ASSUME NEW t \in Task, CompletePendingUpload(t)
      PROVE  TaskStep({t})
  BY <1>6 DEF CompletePendingUpload, Settle, TaskStep, Active, Terminal, TaskStatus
<1>7. ASSUME \/ \E w \in Worker, t \in Task, a \in Attempt :
                    RenewProcessingTaskLease(w, t, a) \/ AbandonClaim(w, t, a)
             \/ \E w \in Worker : CrashWorker(w)
             \/ Tick
             \/ UNCHANGED vars
      PROVE  TaskStep({})
  <2>1. UNCHANGED <<status, target, batchVars>>
    BY <1>7 DEF RenewProcessingTaskLease, AbandonClaim, CrashWorker, Tick, vars
  <2>2. QED
    BY <2>1, NoTaskStep
<1>8. \A S : CancelledBy(S) \subseteq Task
  BY DEF CancelledBy
<1>9. QED
  <2>1. CASE UNCHANGED vars
    BY <1>7, <2>1
  <2>2. CASE \E w \in Worker : ClaimSome(w)
    <3>1. PICK w \in Worker, E \in SUBSET Task, C \in SUBSET Task :
              ClaimProcessingTasks(w, E, C)
      BY <2>2 DEF ClaimSome
    <3>2. E \cup C \in SUBSET Task
      OBVIOUS
    <3>3. QED
      BY <1>1, <3>1, <3>2
  <2>3. CASE \E w \in Worker, t \in Task, a \in Attempt : EndOfHandler(w, t, a)
    <3>1. PICK w \in Worker, t \in Task, a \in Attempt : EndOfHandler(w, t, a)
      BY <2>3
    <3>2. {t} \in SUBSET Task
      OBVIOUS
    <3>3. \A S : CancelledBy(S) \cup {t} \in SUBSET Task
      BY <1>8
    <3>4. {} \in SUBSET Task
      OBVIOUS
    <3>5. CASE AbandonClaim(w, t, a)
      BY <1>7, <3>4, <3>5
    <3>6. CASE \E S \in SUBSET Target : CompleteWithResourceCleanup(w, t, a, S)
      <4>1. PICK S \in SUBSET Target : CompleteWithResourceCleanup(w, t, a, S)
        BY <3>6
      <4>2. TaskStep(CancelledBy(S \ {target[t]}) \cup {t})
        BY <1>3, <4>1
      <4>3. QED
        BY <3>3, <4>2
    <3>7. CASE \/ CompleteProcessingTask(w, t, a)
               \/ \E retryable \in BOOLEAN : FailProcessingTask(w, t, a, retryable)
      BY <1>2, <1>4, <3>2, <3>7
    <3>8. QED
      BY <3>1, <3>5, <3>6, <3>7 DEF EndOfHandler
  <2>4. CASE \E S \in SUBSET Target : CancelProcessingTasks(S)
    BY <1>5, <1>8, <2>4
  <2>5. CASE \E t \in Task : CompletePendingUpload(t)
    <3>1. PICK t \in Task : CompletePendingUpload(t)
      BY <2>5
    <3>2. {t} \in SUBSET Task
      OBVIOUS
    <3>3. QED
      BY <1>6, <3>1, <3>2
  <2>6. CASE \/ \E w \in Worker, t \in Task, a \in Attempt :
                   RenewProcessingTaskLease(w, t, a)
             \/ \E w \in Worker : CrashWorker(w)
             \/ Tick
    BY <1>7, <2>6
  <2>7. CASE Enqueues \/ BatchSteps
    BY <2>7
  <2>8. QED
    BY <2>1, <2>2, <2>3, <2>4, <2>5, <2>6, <2>7 DEF Next, Enqueues, BatchSteps

-----------------------------------------------------------------------------
(* Structure: membership, coalescing and the batch summaries. *)

Structure == MembershipIntegrity /\ OneActiveTaskPerTarget /\ BatchSummariesAgree

\* An enqueue that picks canonical tasks, each for one target, leaves one
\* active task per target, and every pick an existing task of its target.
LEMMA CanonicalEnqueue ==
    ASSUME TypeOK, Structure, NEW S \in SUBSET Target, NEW pick \in [S -> Task],
           InsertTasks(S, pick),
           \A g \in S : Canonical(g, pick[g]),
           \A g, h \in S : pick[g] = pick[h] => g = h
    PROVE  /\ OneActiveTaskPerTarget'
           /\ \A t \in Task : (status[t] = None <=> target[t] = None)'
           /\ \A g \in S : status'[pick[g]] # None /\ target'[pick[g]] = g
           /\ \A t \in Task : status[t] # None =>
                  status'[t] = status[t] /\ target'[t] = target[t]
<1>1. /\ \A t \in Task : status[t] # None =>
             status'[t] = status[t] /\ target'[t] = target[t]
      /\ \A t \in Task : status[t] = None =>
                  \/ status'[t] = None /\ target'[t] = target[t]
                  \/ /\ status'[t] = "pending"
                     /\ \E g \in S : pick[g] = t /\ target'[t] = g
      /\ \A g \in S : status[pick[g]] = None => status'[pick[g]] = "pending"
  BY InsertTasksFacts
<1>2. None \notin TaskStatus /\ None \notin Target
  BY QueueAssumption
<1>3. \A t \in Task : status[t] = None <=> target[t] = None
  BY DEF Structure, MembershipIntegrity
<1>4. OneActiveTaskPerTarget'
  <2> SUFFICES ASSUME NEW t \in Task, NEW u \in Task,
                      status'[t] \in Active, status'[u] \in Active,
                      target'[t] = target'[u]
               PROVE  t = u
    BY DEF OneActiveTaskPerTarget
  <2> DEFINE Inserted(x, g) == status[x] = None /\ pick[g] = x /\ target'[x] = g
  <2>1. None \notin Active
    BY <1>2 DEF TaskStatus
  <2>2. \A x \in {t, u} :
           \/ status[x] \in Active /\ target'[x] = target[x]
           \/ \E g \in S : Inserted(x, g)
    BY <1>1, <2>1
  <2>3. ASSUME NEW x \in {t, u}, NEW y \in {t, u}, NEW g \in S, Inserted(x, g),
               status[y] \in Active, target'[y] = target[y]
        PROVE  FALSE
    <3>1. ActiveTask(g) = {}
      BY <2>1, <2>3 DEF Canonical, ActiveTask
    <3>2. y \in ActiveTask(g)
      BY <2>3 DEF ActiveTask
    <3>3. QED
      BY <3>1, <3>2
  <2>4. CASE \E g, h \in S : Inserted(t, g) /\ Inserted(u, h)
    BY <2>4
  <2>5. CASE /\ status[t] \in Active /\ target'[t] = target[t]
             /\ status[u] \in Active /\ target'[u] = target[u]
    BY <2>5 DEF Structure, OneActiveTaskPerTarget
  <2>6. QED
    BY <2>2, <2>3, <2>4, <2>5
<1>5. \A t \in Task : (status[t] = None <=> target[t] = None)'
  BY <1>1, <1>2, <1>3 DEF TaskStatus, Active
<1>6. ASSUME NEW g \in S
      PROVE  status'[pick[g]] # None /\ target'[pick[g]] = g
  <2>1. pick[g] \in Task
    OBVIOUS
  <2>2. CASE pick[g] \in ActiveTask(g)
    BY <1>1, <1>2, <2>1, <2>2 DEF ActiveTask, TaskStatus
  <2>3. CASE status[pick[g]] = None
    BY <1>1, <1>2, <2>1, <2>3 DEF TaskStatus, Active
  <2>4. CASE SettledSinceLookup(g, pick[g])
    BY <1>1, <1>2, <2>1, <2>4 DEF SettledSinceLookup, TaskStatus, Terminal
  <2>5. QED
    BY <2>2, <2>3, <2>4 DEF Canonical
<1>7. QED
  BY <1>1, <1>4, <1>5, <1>6

\* A refresh of the batches bs restores agreement when every other batch
\* kept its members, its seal and the statuses of its members.
LEMMA RefreshRestoresAgreement ==
    ASSUME TypeOK, TypeOK', BatchSummariesAgree, NEW bs, RefreshBatches(bs),
           \A b \in Batch \ bs :
               /\ item'[b] = item[b] /\ sealed'[b] = sealed[b]
               /\ \A g \in Target : item[b][g] # None =>
                      status'[item[b][g]] = status[item[b][g]]
    PROVE  BatchSummariesAgree'
<1> SUFFICES ASSUME NEW b \in Batch
             PROVE  summary'[b] = Refreshed(status', item'[b], sealed'[b], summary'[b].started)
  BY DEF BatchSummariesAgree
<1>1. sealed'[b] \in BOOLEAN /\ summary[b].started \in BOOLEAN
  BY DEF TypeOK, Summary
<1>2. CASE b \in bs
  <2>1. summary'[b] = Refreshed(status', item'[b], sealed'[b], summary[b].started)
    BY <1>2 DEF RefreshBatches
  <2>2. QED
    BY <1>1, <2>1, RefreshedIdempotent
<1>3. CASE b \notin bs
  <2>1. summary'[b] = summary[b]
    BY <1>3 DEF RefreshBatches
  <2>2. Refreshed(status', item[b], sealed[b], summary[b].started)
          = Refreshed(status, item[b], sealed[b], summary[b].started)
    BY <1>3, RefreshedReadsMembers
  <2>3. QED
    BY <1>3, <2>1, <2>2 DEF BatchSummariesAgree
<1>4. QED
  BY <1>2, <1>3

LEMMA StructureInit == Init => Structure
<1> SUFFICES ASSUME Init PROVE Structure
  OBVIOUS
<1>1. MembershipIntegrity /\ OneActiveTaskPerTarget
  BY QueueAssumption DEF Init, MembershipIntegrity, OneActiveTaskPerTarget, TaskStatus
<1>2. ASSUME NEW b \in Batch
      PROVE  summary[b] = Refreshed(status, item[b], sealed[b], summary[b].started)
  <2>1. \A S : {g \in Target : item[b][g] # None /\ status[item[b][g]] \in S} = {}
    BY <1>2 DEF Init
  <2>2. Cardinality({}) = 0
    BY FS_EmptySet
  <2>3. QED
    BY <2>1, <2>2 DEF Init, Refreshed, NewSummary
<1>3. QED
  BY <1>1, <1>2 DEF Structure, BatchSummariesAgree

LEMMA StructureStep ==
    ASSUME TypeOK, TypeOK', Structure, [Next]_vars
    PROVE  Structure'
<1> USE DEF taskVars
<1>1. /\ \A t \in Task : status[t] = None <=> target[t] = None
      /\ \A b \in Batch, g \in Target : item[b][g] # None =>
             /\ status[item[b][g]] # None
             /\ target[item[b][g]] = g
             /\ batchType[b] = TypeOf[g]
      /\ \A b \in Batch : sealed[b] => batchType[b] # None
  BY DEF Structure, MembershipIntegrity
<1>2. /\ None \notin TaskStatus /\ None \notin Task /\ None \notin Type
      /\ \A g \in Target : TypeOf[g] \in Type
  BY QueueAssumption
<1>3. \A b \in Batch, g \in Target : item[b][g] # None => item[b][g] \in Task
  BY DEF TypeOK
<1>4. ASSUME NEW b \in Batch, NEW g \in Target, NEW t \in Task,
             EnqueueInBatch(b, g, t)
      PROVE  Structure'
  <2> DEFINE pick == [x \in {g} |-> t]
  <2>1. /\ InsertTasks({g}, pick)
        /\ batchType[b] = TypeOf[g]
        /\ Canonical(g, t)
        /\ item' = [item EXCEPT ![b][g] = t]
        /\ UNCHANGED <<batchType, sealed>>
        /\ RefreshBatches({b})
    BY <1>4 DEF EnqueueInBatch
  <2>2. /\ {g} \in SUBSET Target /\ pick \in [{g} -> Task]
        /\ \A x \in {g} : Canonical(x, pick[x])
        /\ \A x, y \in {g} : pick[x] = pick[y] => x = y
        /\ pick[g] = t
    BY <2>1
  <2> HIDE DEF pick
  <2>3. /\ OneActiveTaskPerTarget'
        /\ \A u \in Task : (status[u] = None <=> target[u] = None)'
        /\ \A x \in {g} : status'[pick[x]] # None /\ target'[pick[x]] = x
        /\ \A u \in Task : status[u] # None =>
               status'[u] = status[u] /\ target'[u] = target[u]
    BY <2>1, <2>2, CanonicalEnqueue
  <2>4. \A c \in Batch, h \in Target :
           item'[c][h] = IF c = b /\ h = g THEN t ELSE item[c][h]
    BY <2>1 DEF TypeOK
  <2>5. MembershipIntegrity'
    BY <1>1, <1>3, <2>1, <2>2, <2>3, <2>4 DEF MembershipIntegrity
  <2>6. BatchSummariesAgree'
    <3>1. \A c \in Batch \ {b} :
              /\ item'[c] = item[c] /\ sealed'[c] = sealed[c]
              /\ \A h \in Target : item[c][h] # None =>
                     status'[item[c][h]] = status[item[c][h]]
      BY <1>1, <1>3, <2>1, <2>3 DEF TypeOK
    <3>2. QED
      BY <2>1, <3>1, RefreshRestoresAgreement DEF Structure
  <2>7. QED
    BY <2>3, <2>5, <2>6 DEF Structure
<1>5. ASSUME NEW b \in Batch, NEW ty \in Type, NEW S \in SUBSET Target,
             NEW pick \in [S -> Task], EnqueueProcessingBatch(b, ty, S, pick)
      PROVE  Structure'
  <2>1. /\ InsertTasks(S, pick)
        /\ batchType[b] = None
        /\ \A g \in S : TypeOf[g] = ty /\ Canonical(g, pick[g])
        /\ \A g, h \in S : pick[g] = pick[h] => g = h
        /\ item' = [item EXCEPT ![b] =
                       [g \in Target |-> IF g \in S THEN pick[g] ELSE None]]
        /\ batchType' = [batchType EXCEPT ![b] = ty]
        /\ sealed' = [sealed EXCEPT ![b] = TRUE]
        /\ RefreshBatches({b})
    BY <1>5 DEF EnqueueProcessingBatch
  <2>2. /\ OneActiveTaskPerTarget'
        /\ \A u \in Task : (status[u] = None <=> target[u] = None)'
        /\ \A g \in S : status'[pick[g]] # None /\ target'[pick[g]] = g
        /\ \A u \in Task : status[u] # None =>
               status'[u] = status[u] /\ target'[u] = target[u]
    BY <2>1, CanonicalEnqueue
  <2>3. \A c \in Batch, h \in Target :
           item'[c][h] = IF c = b THEN (IF h \in S THEN pick[h] ELSE None)
                         ELSE item[c][h]
    BY <2>1 DEF TypeOK
  <2>4. \A c \in Batch : /\ batchType'[c] = IF c = b THEN ty ELSE batchType[c]
                         /\ sealed'[c] = IF c = b THEN TRUE ELSE sealed[c]
    BY <2>1 DEF TypeOK
  <2>5. MembershipIntegrity'
    <3>1. ASSUME NEW c \in Batch, NEW h \in Target, item'[c][h] # None
          PROVE  /\ status'[item'[c][h]] # None
                 /\ target'[item'[c][h]] = h
                 /\ batchType'[c] = TypeOf[h]
      <4>1. CASE c = b
        <5>1. h \in S /\ item'[c][h] = pick[h] /\ batchType'[c] = ty
          BY <2>3, <2>4, <3>1, <4>1
        <5>2. TypeOf[h] = ty
          BY <2>1, <5>1
        <5>3. QED
          BY <2>2, <5>1, <5>2
      <4>2. CASE c # b
        <5>1. item'[c][h] = item[c][h] /\ item[c][h] # None /\ batchType'[c] = batchType[c]
          BY <2>3, <2>4, <3>1, <4>2
        <5>2. item[c][h] \in Task
          BY <1>3, <5>1
        <5>3. /\ status[item[c][h]] # None
              /\ target[item[c][h]] = h
              /\ batchType[c] = TypeOf[h]
          BY <1>1, <5>1
        <5>4. QED
          BY <2>2, <5>1, <5>2, <5>3
      <4>3. QED
        BY <4>1, <4>2
    <3>2. ASSUME NEW c \in Batch, sealed'[c]
          PROVE  batchType'[c] # None
      <4>1. CASE c = b
        BY <1>2, <2>4, <4>1
      <4>2. CASE c # b
        <5>1. sealed'[c] = sealed[c] /\ batchType'[c] = batchType[c]
          BY <2>4, <4>2
        <5>2. QED
          BY <1>1, <3>2, <5>1
      <4>3. QED
        BY <4>1, <4>2
    <3>3. QED
      BY <2>2, <3>1, <3>2 DEF MembershipIntegrity
  <2>6. BatchSummariesAgree'
    <3>1. \A c \in Batch \ {b} :
              /\ item'[c] = item[c] /\ sealed'[c] = sealed[c]
              /\ \A h \in Target : item[c][h] # None =>
                     status'[item[c][h]] = status[item[c][h]]
      BY <1>1, <1>3, <2>1, <2>2, <2>4 DEF TypeOK
    <3>2. QED
      BY <2>1, <3>1, RefreshRestoresAgreement DEF Structure
  <2>7. QED
    BY <2>2, <2>5, <2>6 DEF Structure
<1>6. ASSUME NEW b \in Batch, NEW ty \in Type, CreateProcessingBatch(b, ty)
      PROVE  Structure'
  <2>1. /\ batchType[b] = None
        /\ batchType' = [batchType EXCEPT ![b] = ty]
        /\ UNCHANGED <<status, target, item, sealed, summary>>
    BY <1>6 DEF CreateProcessingBatch
  <2>2. MembershipIntegrity'
    BY <1>1, <1>2, <2>1 DEF MembershipIntegrity, TypeOK
  <2>3. OneActiveTaskPerTarget' /\ BatchSummariesAgree'
    BY <2>1 DEF Structure, OneActiveTaskPerTarget, BatchSummariesAgree
  <2>4. QED
    BY <2>2, <2>3 DEF Structure
<1>7. ASSUME NEW b \in Batch, SealProcessingBatch(b)
      PROVE  Structure'
  <2>1. /\ batchType[b] # None
        /\ sealed' = [sealed EXCEPT ![b] = TRUE]
        /\ UNCHANGED <<status, target, item, batchType>>
        /\ RefreshBatches({b})
    BY <1>7 DEF SealProcessingBatch
  <2>2. MembershipIntegrity'
    BY <1>1, <2>1 DEF MembershipIntegrity, TypeOK
  <2>3. OneActiveTaskPerTarget'
    BY <2>1 DEF Structure, OneActiveTaskPerTarget
  <2>4. BatchSummariesAgree'
    <3>1. \A c \in Batch \ {b} :
              /\ item'[c] = item[c] /\ sealed'[c] = sealed[c]
              /\ \A h \in Target : item[c][h] # None =>
                     status'[item[c][h]] = status[item[c][h]]
      BY <2>1 DEF TypeOK
    <3>2. QED
      BY <2>1, <3>1, RefreshRestoresAgreement DEF Structure
  <2>5. QED
    BY <2>2, <2>3, <2>4 DEF Structure
<1>8. ASSUME NEW T \in SUBSET Task, TaskStep(T)
      PROVE  Structure'
  <2>1. /\ UNCHANGED <<target, item, batchType, sealed>>
        /\ \A t \in Task \ T : status'[t] = status[t]
        /\ \A t \in T : status[t] \in Active /\ status'[t] \in TaskStatus
        /\ RefreshBatches(BatchesOf(T))
    BY <1>8 DEF TaskStep
  <2>2. \A t \in Task : /\ status'[t] = None <=> status[t] = None
                        /\ status'[t] \in Active => status[t] \in Active
    BY <1>2, <2>1 DEF TaskStatus
  <2>3. MembershipIntegrity'
    BY <1>1, <1>3, <2>1, <2>2 DEF MembershipIntegrity
  <2>4. OneActiveTaskPerTarget'
    BY <2>1, <2>2 DEF Structure, OneActiveTaskPerTarget
  <2>5. BatchSummariesAgree'
    <3>1. \A c \in Batch \ BatchesOf(T) :
              /\ item'[c] = item[c] /\ sealed'[c] = sealed[c]
              /\ \A h \in Target : item[c][h] # None =>
                     status'[item[c][h]] = status[item[c][h]]
      BY <1>3, <2>1 DEF BatchesOf
    <3>2. QED
      BY <2>1, <3>1, RefreshRestoresAgreement DEF Structure
  <2>6. QED
    BY <2>3, <2>4, <2>5 DEF Structure
<1>9. QED
  BY <1>4, <1>5, <1>6, <1>7, <1>8, StepForms DEF Enqueues, BatchSteps

\* The three structural invariants hold in every reachable state.
LEMMA StructureCorrect == Spec => []Structure
<1>1. TypeOK /\ TypeOK' /\ Structure /\ [Next]_vars => Structure'
  BY StructureStep
<1>2. QED
  BY <1>1, StructureInit, TypeCorrect, PTL DEF Spec

\* Every membership row links an existing task of its target.
THEOREM MembershipCorrect == Spec => []MembershipIntegrity
<1>1. Structure => MembershipIntegrity
  BY DEF Structure
<1>2. QED
  BY <1>1, StructureCorrect, PTL

\* Two rows are never at work on one target.
THEOREM OneActiveTaskCorrect == Spec => []OneActiveTaskPerTarget
<1>1. Structure => OneActiveTaskPerTarget
  BY DEF Structure
<1>2. QED
  BY <1>1, StructureCorrect, PTL

\* Every batch row shows the status and the counters of its tasks.
THEOREM SummariesCorrect == Spec => []BatchSummariesAgree
<1>1. Structure => BatchSummariesAgree
  BY DEF Structure
<1>2. QED
  BY <1>1, StructureCorrect, PTL

-----------------------------------------------------------------------------
(* The fence: attempts number the claims, so no two workers share one. *)

\* No claim is ahead of its row, no two workers hold the same claim, and a
\* row that does not exist or waits has an attempt left.
Fence ==
    /\ \A w \in Worker, t \in Task, a \in Attempt :
           <<t, a>> \in claims[w] => a <= attempts[t]
    /\ \A v, w \in Worker, t \in Task, a \in Attempt :
           <<t, a>> \in claims[v] /\ <<t, a>> \in claims[w] => v = w
    /\ \A t \in Task : status[t] = None => attempts[t] = 0
    /\ PendingWorkHasAttempts

\* A step that neither adds claims nor moves attempts keeps the fence, as
\* long as a row that comes to wait has an attempt left.
LEMMA FenceKept ==
    ASSUME TypeOK, Fence, attempts' = attempts,
           \A w \in Worker : claims'[w] \subseteq claims[w],
           \A t \in Task : status'[t] = None => status[t] = None,
           \A t \in Task : status'[t] = "pending" /\ status[t] # "pending" =>
               attempts[t] < MaxAttempts
    PROVE  Fence'
<1>1. \A w \in Worker, t \in Task, a \in Attempt :
          <<t, a>> \in claims'[w] => <<t, a>> \in claims[w]
  OBVIOUS
<1>2. PendingWorkHasAttempts'
  BY DEF Fence, PendingWorkHasAttempts
<1>3. QED
  BY <1>1, <1>2 DEF Fence

\* A claim gives each row it leases an attempt number never given before.
LEMMA FenceClaim ==
    ASSUME TypeOK, Fence, NEW w \in Worker, NEW E \in SUBSET Task,
           NEW C \in SUBSET Task, ClaimProcessingTasks(w, E, C)
    PROVE  Fence'
<1>1. \A t \in Task : /\ attempts[t] \in Nat
                      /\ attempts'[t] = IF t \in C THEN attempts[t] + 1 ELSE attempts[t]
  BY QueueAssumption DEF ClaimProcessingTasks, NextAttempt, TypeOK
<1>2. \A v \in Worker, t \in Task, a \in Attempt :
          <<t, a>> \in claims'[v] =>
              \/ <<t, a>> \in claims[v]
              \/ v = w /\ t \in C /\ a = attempts[t] + 1
  <2> SUFFICES ASSUME NEW v \in Worker, NEW t \in Task, NEW a \in Attempt,
                      <<t, a>> \in claims'[v], <<t, a>> \notin claims[v]
               PROVE  v = w /\ t \in C /\ a = attempts[t] + 1
    OBVIOUS
  <2>1. v = w /\ <<t, a>> \in {<<u, NextAttempt(u)>> : u \in C}
    BY DEF ClaimProcessingTasks, TypeOK
  <2>2. PICK u \in C : <<t, a>> = <<u, NextAttempt(u)>>
    BY <2>1
  <2>3. t = u /\ a = attempts[u] + 1
    BY <2>2 DEF NextAttempt
  <2>4. QED
    BY <2>1, <2>3
<1>3. \A v \in Worker, t \in Task, a \in Attempt :
          <<t, a>> \in claims'[v] => a <= attempts'[t]
  BY <1>1, <1>2 DEF Fence, Attempt
<1>4. ASSUME NEW u \in Worker, NEW v \in Worker, NEW t \in Task, NEW a \in Attempt,
             <<t, a>> \in claims'[u], <<t, a>> \in claims'[v]
      PROVE  u = v
  <2>1. CASE <<t, a>> \in claims[u] /\ <<t, a>> \in claims[v]
    BY <2>1 DEF Fence
  <2>2. CASE a = attempts[t] + 1
    <3>1. <<t, a>> \notin claims[u] /\ <<t, a>> \notin claims[v]
      BY <1>1, <2>2 DEF Fence
    <3>2. QED
      BY <1>2, <1>4, <3>1
  <2>3. QED
    BY <1>2, <1>4, <2>1, <2>2
<1>5. \A t \in Task : status'[t] = None => status[t] = None /\ t \notin C
  BY QueueAssumption DEF ClaimProcessingTasks, TaskStatus, Active, Terminal
<1>6. \A t \in Task : status'[t] = None => attempts'[t] = 0
  BY <1>1, <1>5 DEF Fence
<1>7. PendingWorkHasAttempts'
  BY <1>1 DEF ClaimProcessingTasks, Fence, PendingWorkHasAttempts
<1>8. QED
  BY <1>3, <1>4, <1>6, <1>7 DEF Fence

LEMMA FenceStep ==
    ASSUME TypeOK, Fence, [Next]_vars
    PROVE  Fence'
<1> USE DEF taskVars, batchVars
<1>1. \A w \in Worker : claims[w] \subseteq Claim
  BY DEF TypeOK
<1>2. None \notin TaskStatus
  BY QueueAssumption
<1>3. ASSUME NEW S \in SUBSET Target, NEW pick \in [S -> Task],
             InsertTasks(S, pick), UNCHANGED claims
      PROVE  Fence'
  <2>1. /\ attempts' = attempts
        /\ \A t \in Task : status[t] # None => status'[t] = status[t]
        /\ \A t \in Task : status[t] = None => status'[t] \in {None, "pending"}
    BY <1>3, InsertTasksFacts
  <2>2. \A t \in Task : status[t] = None => attempts[t] < MaxAttempts
    BY QueueAssumption DEF Fence
  <2>3. QED
    BY <1>3, <2>1, <2>2, FenceKept
<1>4. ASSUME NEW b \in Batch, NEW g \in Target, NEW t \in Task,
             EnqueueInBatch(b, g, t)
      PROVE  Fence'
  <2>1. {g} \in SUBSET Target /\ [x \in {g} |-> t] \in [{g} -> Task]
    OBVIOUS
  <2>2. QED
    BY <1>3, <1>4, <2>1 DEF EnqueueInBatch
<1>5. ASSUME NEW b \in Batch, NEW ty \in Type, NEW S \in SUBSET Target,
             NEW pick \in [S -> Task], EnqueueProcessingBatch(b, ty, S, pick)
      PROVE  Fence'
  BY <1>3, <1>5 DEF EnqueueProcessingBatch
<1>6. ASSUME UNCHANGED <<status, attempts, claims>>
      PROVE  Fence'
  BY <1>6, FenceKept
<1>7. ASSUME NEW b \in Batch,
             \/ \E ty \in Type : CreateProcessingBatch(b, ty)
             \/ SealProcessingBatch(b)
      PROVE  Fence'
  BY <1>6, <1>7 DEF CreateProcessingBatch, SealProcessingBatch
<1>8. ASSUME NEW w \in Worker, NEW t \in Task, NEW a \in Attempt,
             RenewProcessingTaskLease(w, t, a)
      PROVE  Fence'
  BY <1>6, <1>8 DEF RenewProcessingTaskLease
<1>9. ASSUME NEW w \in Worker, NEW t \in Task, NEW a \in Attempt, Drop(w, t, a)
      PROVE  \A v \in Worker : claims'[v] \subseteq claims[v]
  BY <1>9 DEF Drop, TypeOK
<1>10. ASSUME NEW w \in Worker, NEW t \in Task, NEW a \in Attempt,
              CompleteProcessingTask(w, t, a)
       PROVE  Fence'
  <2>1. \A u \in Task : status'[u] = IF u = t THEN "completed" ELSE status[u]
    BY <1>10 DEF CompleteProcessingTask, Settle
  <2>2. attempts' = attempts /\ Drop(w, t, a)
    BY <1>10 DEF CompleteProcessingTask
  <2>3. \A v \in Worker : claims'[v] \subseteq claims[v]
    BY <1>9, <2>2
  <2>4. QED
    BY <1>2, <2>1, <2>2, <2>3, FenceKept DEF TaskStatus, Terminal
<1>11. ASSUME NEW w \in Worker, NEW t \in Task, NEW a \in Attempt,
              NEW S \in SUBSET Target, CompleteWithResourceCleanup(w, t, a, S)
       PROVE  Fence'
  <2>1. \A u \in Task : status'[u] \in {"completed", "cancelled", status[u]}
    BY <1>11 DEF CompleteWithResourceCleanup
  <2>2. attempts' = attempts /\ Drop(w, t, a)
    BY <1>11 DEF CompleteWithResourceCleanup
  <2>3. \A v \in Worker : claims'[v] \subseteq claims[v]
    BY <1>9, <2>2
  <2>4. QED
    BY <1>2, <2>1, <2>2, <2>3, FenceKept DEF TaskStatus, Terminal
<1>12. ASSUME NEW w \in Worker, NEW t \in Task, NEW a \in Attempt,
              NEW retryable \in BOOLEAN, FailProcessingTask(w, t, a, retryable)
       PROVE  Fence'
  <2>1. \A u \in Task : u # t => status'[u] = status[u]
    BY <1>12 DEF FailProcessingTask, Settle
  <2>2. \/ status'[t] = "failed"
        \/ status'[t] = "pending" /\ attempts[t] < MaxAttempts
    <3>1. attempts[t] \in Nat /\ MaxAttempts \in Nat
      BY QueueAssumption DEF TypeOK
    <3>2. QED
      BY <1>12, <3>1 DEF FailProcessingTask, FailureIsTerminal, Settle
  <2>3. attempts' = attempts /\ Drop(w, t, a)
    BY <1>12 DEF FailProcessingTask
  <2>4. \A v \in Worker : claims'[v] \subseteq claims[v]
    BY <1>9, <2>3
  <2>5. \A u \in Task : status'[u] = None => status[u] = None
    BY <1>2, <2>1, <2>2 DEF TaskStatus, Active, Terminal
  <2>6. \A u \in Task : status'[u] = "pending" /\ status[u] # "pending" =>
            attempts[u] < MaxAttempts
    BY <2>1, <2>2
  <2>7. QED
    BY <2>3, <2>4, <2>5, <2>6, FenceKept
<1>13. ASSUME NEW w \in Worker, NEW t \in Task, NEW a \in Attempt,
              AbandonClaim(w, t, a)
       PROVE  Fence'
  <2>1. Drop(w, t, a) /\ UNCHANGED <<status, attempts>>
    BY <1>13 DEF AbandonClaim
  <2>2. \A v \in Worker : claims'[v] \subseteq claims[v]
    BY <1>9, <2>1
  <2>3. QED
    BY <2>1, <2>2, FenceKept
<1>14. ASSUME NEW w \in Worker, CrashWorker(w)
       PROVE  Fence'
  <2>1. \A v \in Worker : claims'[v] \subseteq claims[v]
    BY <1>14 DEF CrashWorker, TypeOK
  <2>2. QED
    BY <1>14, <2>1, FenceKept DEF CrashWorker
<1>15. ASSUME NEW S \in SUBSET Target, CancelProcessingTasks(S)
       PROVE  Fence'
  <2>1. \A u \in Task : status'[u] \in {"cancelled", status[u]}
    BY <1>15 DEF CancelProcessingTasks, Settle
  <2>2. UNCHANGED <<attempts, claims>>
    BY <1>15 DEF CancelProcessingTasks
  <2>3. QED
    BY <1>2, <2>1, <2>2, FenceKept DEF TaskStatus, Terminal
<1>16. ASSUME NEW t \in Task, CompletePendingUpload(t)
       PROVE  Fence'
  <2>1. \A u \in Task : status'[u] \in {"completed", status[u]}
    BY <1>16 DEF CompletePendingUpload, Settle
  <2>2. UNCHANGED <<attempts, claims>>
    BY <1>16 DEF CompletePendingUpload
  <2>3. QED
    BY <1>2, <2>1, <2>2, FenceKept DEF TaskStatus, Terminal
<1>17. CASE Tick \/ UNCHANGED vars
  BY <1>6, <1>17 DEF Tick, vars
<1>18. QED
  BY <1>4, <1>5, <1>7, <1>8, <1>10, <1>11, <1>12, <1>13, <1>14, <1>15, <1>16,
     <1>17, FenceClaim DEF Next, ClaimSome, EndOfHandler

LEMMA FenceCorrect == Spec => []Fence
<1>1. Init => Fence
  BY QueueAssumption DEF Init, Fence, PendingWorkHasAttempts, TaskStatus, Active
<1>2. TypeOK /\ Fence /\ [Next]_vars => Fence'
  BY FenceStep
<1>3. QED
  BY <1>1, <1>2, TypeCorrect, PTL DEF Spec

\* At most one worker can commit an outcome for a task.
THEOREM OneWriterCorrect == Spec => []OneWriterPerTask
<1>1. Fence => OneWriterPerTask
  BY DEF Fence, OneWriterPerTask, MayWrite, HoldsLease
<1>2. QED
  BY <1>1, FenceCorrect, PTL

\* No task waits for a claim the attempt limit forbids.
THEOREM PendingWorkCorrect == Spec => []PendingWorkHasAttempts
<1>1. Fence => PendingWorkHasAttempts
  BY DEF Fence
<1>2. QED
  BY <1>1, FenceCorrect, PTL

\* Discovery wakes an organization exactly when a claim finds work in it.
THEOREM DiscoveryCorrect == Spec => []DiscoveryMatchesClaim
<1>1. ASSUME TypeOK
      PROVE  DiscoveryMatchesClaim
  <2>1. \A t \in Task : Runnable(t) <=> Exhausted(t) \/ Claimable(t)
    BY <1>1, QueueAssumption DEF TypeOK, Runnable, Exhausted, Claimable
  <2>2. QED
    BY <2>1 DEF DiscoveryMatchesClaim
<1>2. QED
  BY <1>1, TypeCorrect, PTL

-----------------------------------------------------------------------------
(* What a step may never do. *)

\* Attempts are counted by the claims alone.
LEMMA OnlyClaimsCount ==
    ASSUME [Next]_vars
    PROVE  attempts' = attempts \/ \E w \in Worker : ClaimSome(w)
<1> USE DEF taskVars, batchVars
<1>1. CASE Enqueues
  <2>1. CASE \E b \in Batch, g \in Target, t \in Task : EnqueueInBatch(b, g, t)
    BY <2>1 DEF EnqueueInBatch, InsertTasks
  <2>2. CASE \E b \in Batch, ty \in Type, S \in SUBSET Target :
                 \E pick \in [S -> Task] : EnqueueProcessingBatch(b, ty, S, pick)
    BY <2>2 DEF EnqueueProcessingBatch, InsertTasks
  <2>3. QED
    BY <1>1, <2>1, <2>2 DEF Enqueues
<1>2. CASE BatchSteps
  BY <1>2 DEF BatchSteps, CreateProcessingBatch, SealProcessingBatch
<1>3. CASE \E w \in Worker, t \in Task, a \in Attempt :
               RenewProcessingTaskLease(w, t, a) \/ EndOfHandler(w, t, a)
  <2>1. PICK w \in Worker, t \in Task, a \in Attempt :
            RenewProcessingTaskLease(w, t, a) \/ EndOfHandler(w, t, a)
    BY <1>3
  <2>2. CASE RenewProcessingTaskLease(w, t, a)
    BY <2>2 DEF RenewProcessingTaskLease
  <2>3. CASE EndOfHandler(w, t, a)
    <3>1. CASE CompleteProcessingTask(w, t, a)
      BY <3>1 DEF CompleteProcessingTask
    <3>2. CASE \E S \in SUBSET Target : CompleteWithResourceCleanup(w, t, a, S)
      BY <3>2 DEF CompleteWithResourceCleanup
    <3>3. CASE \E retryable \in BOOLEAN : FailProcessingTask(w, t, a, retryable)
      BY <3>3 DEF FailProcessingTask
    <3>4. CASE AbandonClaim(w, t, a)
      BY <3>4 DEF AbandonClaim
    <3>5. QED
      BY <2>3, <3>1, <3>2, <3>3, <3>4 DEF EndOfHandler
  <2>4. QED
    BY <2>1, <2>2, <2>3
<1>4. CASE \/ \E w \in Worker : CrashWorker(w)
           \/ \E S \in SUBSET Target : CancelProcessingTasks(S)
           \/ \E t \in Task : CompletePendingUpload(t)
           \/ Tick
           \/ UNCHANGED vars
  BY <1>4 DEF CrashWorker, CancelProcessingTasks, CompletePendingUpload, Tick, vars
<1>5. QED
  BY <1>1, <1>2, <1>3, <1>4 DEF Next, Enqueues, BatchSteps

\* No step changes the status of a settled task.
LEMMA SettledStays ==
    ASSUME TypeOK, [Next]_vars
    PROVE  \A t \in Task : status[t] \in Terminal => status'[t] = status[t]
<1>1. None \notin Terminal /\ Active \cap Terminal = {}
  BY QueueAssumption DEF TaskStatus, Active, Terminal
<1>2. CASE Enqueues
  <2>1. CASE \E b \in Batch, g \in Target, t \in Task : EnqueueInBatch(b, g, t)
    <3>1. PICK b \in Batch, g \in Target, t \in Task : EnqueueInBatch(b, g, t)
      BY <2>1
    <3>2. InsertTasks({g}, [x \in {g} |-> t])
      BY <3>1 DEF EnqueueInBatch
    <3>3. {g} \in SUBSET Target /\ [x \in {g} |-> t] \in [{g} -> Task]
      OBVIOUS
    <3>4. \A u \in Task : status[u] # None => status'[u] = status[u]
      BY <3>2, <3>3, InsertTasksFacts
    <3>5. QED
      BY <1>1, <3>4
  <2>2. CASE \E b \in Batch, ty \in Type, S \in SUBSET Target :
                 \E pick \in [S -> Task] : EnqueueProcessingBatch(b, ty, S, pick)
    <3>0. PICK b \in Batch, ty \in Type, S \in SUBSET Target :
              \E pick \in [S -> Task] : EnqueueProcessingBatch(b, ty, S, pick)
      BY <2>2
    <3>1. PICK pick \in [S -> Task] : EnqueueProcessingBatch(b, ty, S, pick)
      BY <3>0
    <3>2. InsertTasks(S, pick)
      BY <3>1 DEF EnqueueProcessingBatch
    <3>3. \A u \in Task : status[u] # None => status'[u] = status[u]
      BY <3>2, InsertTasksFacts
    <3>4. QED
      BY <1>1, <3>3
  <2>3. QED
    BY <1>2, <2>1, <2>2 DEF Enqueues
<1>3. CASE BatchSteps
  BY <1>3 DEF BatchSteps, CreateProcessingBatch, SealProcessingBatch, taskVars
<1>4. CASE \E T \in SUBSET Task : TaskStep(T)
  BY <1>1, <1>4 DEF TaskStep
<1>5. QED
  BY <1>2, <1>3, <1>4, StepForms

\* A settled task stays as it is.
THEOREM TerminalTasksCorrect == Spec => TerminalTasksAreFinal
<1> DEFINE Final == \A t \in Task : status[t] \in Terminal =>
                       status'[t] = status[t] /\ attempts'[t] = attempts[t]
<1>1. ASSUME TypeOK, [Next]_vars
      PROVE  Final
  <2> USE DEF taskVars, batchVars
  <2>1. \A t \in Task : status[t] \in Terminal => status'[t] = status[t]
    BY <1>1, SettledStays
  <2>2. \A t \in Task : status[t] \in Terminal => attempts'[t] = attempts[t]
    <3>1. ASSUME NEW w \in Worker, NEW E \in SUBSET Task, NEW C \in SUBSET Task,
                 ClaimProcessingTasks(w, E, C), NEW t \in Task, status[t] \in Terminal
          PROVE  attempts'[t] = attempts[t]
      <4>1. t \notin C
        BY <3>1 DEF ClaimProcessingTasks, Claimable, Terminal
      <4>2. QED
        BY <3>1, <4>1 DEF ClaimProcessingTasks
    <3>2. CASE \E w \in Worker : ClaimSome(w)
      BY <3>1, <3>2 DEF ClaimSome
    <3>3. CASE attempts' = attempts
      BY <3>3
    <3>4. attempts' = attempts \/ \E w \in Worker : ClaimSome(w)
      BY <1>1, OnlyClaimsCount
    <3>5. QED
      BY <3>2, <3>3, <3>4
  <2>3. QED
    BY <2>1, <2>2
<1>2. QED
  BY <1>1, TypeCorrect, PTL DEF Spec, TerminalTasksAreFinal

\* A batch that finished is never touched again: all its tasks are settled,
\* a sealed batch gains no member, and settled tasks are final.
LEMMA FrozenStep ==
    ASSUME TypeOK, Structure, [Next]_vars,
           NEW b \in Batch, sealed[b], summary[b].status \in Terminal
    PROVE  /\ sealed'[b]
           /\ summary'[b] = summary[b]
           /\ item'[b] = item[b]
<1>1. \A g \in Target : item[b][g] # None => status[item[b][g]] \in Terminal
  <2> DEFINE InStatus(S) == {g \in Target : item[b][g] # None /\ status[item[b][g]] \in S}
  <2>1. summary[b] = Refreshed(status, item[b], sealed[b], summary[b].started)
    BY DEF Structure, BatchSummariesAgree
  <2>2. InStatus(Terminal) = InStatus(TaskStatus)
    <3>1. ASSUME InStatus(Terminal) # InStatus(TaskStatus)
          PROVE  summary[b].status \in {"pending", "processing"}
      BY <2>1, <3>1 DEF Refreshed
    <3>2. summary[b].status \notin {"pending", "processing"}
      BY DEF Terminal
    <3>3. QED
      BY <3>1, <3>2
  <2>3. ASSUME NEW g \in Target, item[b][g] # None
        PROVE  status[item[b][g]] \in TaskStatus
    <3>1. item[b][g] \in Task
      BY <2>3 DEF TypeOK
    <3>2. status[item[b][g]] # None
      BY <2>3 DEF Structure, MembershipIntegrity
    <3>3. QED
      BY <3>1, <3>2 DEF TypeOK
  <2>4. QED
    BY <2>2, <2>3
<1>2. batchType[b] # None
  BY DEF Structure, MembershipIntegrity
<1>3. CASE Enqueues
  <2>1. CASE \E c \in Batch, g \in Target, t \in Task : EnqueueInBatch(c, g, t)
    <3>1. PICK c \in Batch, g \in Target, t \in Task : EnqueueInBatch(c, g, t)
      BY <2>1
    <3>2. c # b /\ sealed' = sealed /\ item' = [item EXCEPT ![c][g] = t] /\ RefreshBatches({c})
      BY <3>1 DEF EnqueueInBatch
    <3>3. QED
      BY <3>2 DEF RefreshBatches, TypeOK
  <2>2. CASE \E c \in Batch, ty \in Type, S \in SUBSET Target :
                 \E pick \in [S -> Task] : EnqueueProcessingBatch(c, ty, S, pick)
    <3>0. PICK c \in Batch, ty \in Type, S \in SUBSET Target :
              \E pick \in [S -> Task] : EnqueueProcessingBatch(c, ty, S, pick)
      BY <2>2
    <3>1. PICK pick \in [S -> Task] : EnqueueProcessingBatch(c, ty, S, pick)
      BY <3>0
    <3>2. /\ c # b /\ RefreshBatches({c})
          /\ sealed' = [sealed EXCEPT ![c] = TRUE]
          /\ item' = [item EXCEPT ![c] =
                         [g \in Target |-> IF g \in S THEN pick[g] ELSE None]]
      BY <1>2, <3>1 DEF EnqueueProcessingBatch
    <3>3. QED
      BY <3>2 DEF RefreshBatches, TypeOK
  <2>3. QED
    BY <1>3, <2>1, <2>2 DEF Enqueues
<1>4. CASE BatchSteps
  <2>1. CASE \E c \in Batch, ty \in Type : CreateProcessingBatch(c, ty)
    BY <2>1 DEF CreateProcessingBatch
  <2>2. CASE \E c \in Batch : SealProcessingBatch(c)
    <3>1. PICK c \in Batch : SealProcessingBatch(c)
      BY <2>2
    <3>2. c # b /\ item' = item /\ sealed' = [sealed EXCEPT ![c] = TRUE] /\ RefreshBatches({c})
      BY <3>1 DEF SealProcessingBatch
    <3>3. QED
      BY <3>2 DEF RefreshBatches, TypeOK
  <2>3. QED
    BY <1>4, <2>1, <2>2 DEF BatchSteps
<1>5. CASE \E T \in SUBSET Task : TaskStep(T)
  <2>1. PICK T \in SUBSET Task : TaskStep(T)
    BY <1>5
  <2>2. b \notin BatchesOf(T)
    <3> SUFFICES ASSUME NEW g \in Target, item[b][g] \in T
                 PROVE  FALSE
      BY DEF BatchesOf
    <3>1. item[b][g] # None
      BY QueueAssumption
    <3>2. status[item[b][g]] \in Active
      BY <2>1 DEF TaskStep
    <3>3. QED
      BY <1>1, <3>1, <3>2 DEF Active, Terminal
  <2>3. QED
    BY <2>1, <2>2 DEF TaskStep, RefreshBatches
<1>6. QED
  BY <1>3, <1>4, <1>5, StepForms

\* What a poll reported as finished stands.
THEOREM FinishedBatchesCorrect == Spec => FinishedBatchesAreFrozen
<1> DEFINE Frozen == \A b \in Batch : sealed[b] /\ summary[b].status \in Terminal =>
                        /\ sealed'[b]
                        /\ summary'[b] = summary[b]
                        /\ item'[b] = item[b]
<1>1. ASSUME TypeOK, Structure, [Next]_vars
      PROVE  Frozen
  BY <1>1, FrozenStep
<1>2. QED
  BY <1>1, TypeCorrect, StructureCorrect, PTL DEF Spec, FinishedBatchesAreFrozen

-----------------------------------------------------------------------------
\* Only the handler that holds the latest attempt of a leased task completes
\* it, fails it or returns it to the queue, and its claim is gone with that; a
\* claim fails what is exhausted, and ends no handler.
THEOREM CurrentHolderCorrect == Spec => OnlyCurrentHolderSettles
<1> DEFINE GivenUp(t) == /\ status'[t] = "failed"
                         /\ lease[t] = 0 /\ attempts[t] >= MaxAttempts
                         /\ \A w \in Worker : claims[w] \subseteq claims'[w]
           Fenced == \A t \in Task :
                status[t] = "processing" /\ status'[t] \in {"completed", "failed", "pending"} =>
                    \/ \E w \in Worker : <<t, attempts[t]>> \in claims[w] \ claims'[w]
                    \/ GivenUp(t)
<1>1. ASSUME TypeOK, [Next]_vars
      PROVE  Fenced
  <2> USE <1>1 DEF taskVars, batchVars
  <2> SUFFICES ASSUME NEW t \in Task,
                      status[t] = "processing",
                      status'[t] \in {"completed", "failed", "pending"}
               PROVE  \/ \E w \in Worker : <<t, attempts[t]>> \in claims[w] \ claims'[w]
                      \/ GivenUp(t)
    OBVIOUS
  <2>a. status[t] # None /\ status'[t] # status[t]
    BY QueueAssumption DEF TaskStatus, Active
  <2>1. ASSUME NEW S \in SUBSET Target, NEW pick \in [S -> Task], InsertTasks(S, pick)
        PROVE  FALSE
    BY <2>1, <2>a, InsertTasksFacts
  <2>2. CASE Enqueues
    <3>1. CASE \E b \in Batch, g \in Target, u \in Task : EnqueueInBatch(b, g, u)
      <4>1. PICK b \in Batch, g \in Target, u \in Task : EnqueueInBatch(b, g, u)
        BY <3>1
      <4>2. InsertTasks({g}, [x \in {g} |-> u]) /\ [x \in {g} |-> u] \in [{g} -> Task]
        BY <4>1 DEF EnqueueInBatch
      <4>3. QED
        BY <2>1, <4>2
    <3>2. CASE \E b \in Batch, ty \in Type, S \in SUBSET Target :
                   \E pick \in [S -> Task] : EnqueueProcessingBatch(b, ty, S, pick)
      BY <2>1, <3>2 DEF EnqueueProcessingBatch
    <3>3. QED
      BY <2>2, <3>1, <3>2 DEF Enqueues
  <2>3. CASE BatchSteps
    BY <2>a, <2>3 DEF BatchSteps, CreateProcessingBatch, SealProcessingBatch
  <2>4. ASSUME NEW w \in Worker, NEW E \in SUBSET Task, NEW C \in SUBSET Task,
               ClaimProcessingTasks(w, E, C)
        PROVE  GivenUp(t)
    <3>1. status'[t] = "failed" /\ t \in E
      BY <2>a, <2>4 DEF ClaimProcessingTasks
    <3>2. lease[t] = 0 /\ attempts[t] >= MaxAttempts
      BY <2>4, <3>1 DEF ClaimProcessingTasks, Exhausted
    <3>3. \A v \in Worker : claims[v] \subseteq claims'[v]
      BY <2>4 DEF ClaimProcessingTasks, TypeOK
    <3>4. QED
      BY <3>1, <3>2, <3>3
  <2>5. ASSUME NEW w \in Worker, NEW u \in Task, NEW a \in Attempt, EndOfHandler(w, u, a)
        PROVE  <<t, attempts[t]>> \in claims[w] \ claims'[w]
    <3>1. CASE AbandonClaim(w, u, a)
      BY <2>a, <3>1 DEF AbandonClaim
    <3>2. CASE ~AbandonClaim(w, u, a)
      <4>1. /\ <<u, a>> \in claims[w] /\ attempts[u] = a
            /\ claims'[w] = claims[w] \ {<<u, a>>}
            /\ \A x \in Task : status'[x] \in {status[x], "cancelled"} \/ x = u
        <5> DEFINE Good == /\ <<u, a>> \in claims[w] /\ attempts[u] = a /\ Drop(w, u, a)
                           /\ \A x \in Task : status'[x] \in {status[x], "cancelled"} \/ x = u
        <5>1. ASSUME CompleteProcessingTask(w, u, a) PROVE Good
          BY <5>1 DEF CompleteProcessingTask, HoldsLease, Settle
        <5>2. ASSUME NEW S \in SUBSET Target, CompleteWithResourceCleanup(w, u, a, S)
              PROVE  Good
          BY <5>2 DEF CompleteWithResourceCleanup, HoldsLease
        <5>3. ASSUME NEW retryable \in BOOLEAN, FailProcessingTask(w, u, a, retryable)
              PROVE  Good
          BY <5>3 DEF FailProcessingTask, HoldsLease, Settle
        <5>4. Good
          BY <2>5, <3>2, <5>1, <5>2, <5>3 DEF EndOfHandler
        <5>5. QED
          BY <5>4 DEF Drop, TypeOK
      <4>2. t = u
        BY <2>a, <4>1
      <4>3. QED
        BY <4>1, <4>2
    <3>3. QED
      BY <3>1, <3>2
  <2>6. ASSUME NEW S \in SUBSET Target, CancelProcessingTasks(S) PROVE FALSE
    BY <2>a, <2>6 DEF CancelProcessingTasks, Settle
  <2>7. ASSUME NEW u \in Task, CompletePendingUpload(u) PROVE FALSE
    BY <2>a, <2>7 DEF CompletePendingUpload, Settle
  <2>8. CASE \/ \E w \in Worker, u \in Task, a \in Attempt : RenewProcessingTaskLease(w, u, a)
             \/ \E w \in Worker : CrashWorker(w)
             \/ Tick \/ UNCHANGED vars
    BY <2>a, <2>8 DEF RenewProcessingTaskLease, CrashWorker, Tick, vars
  <2>9. QED
    BY <2>2, <2>3, <2>4, <2>5, <2>6, <2>7, <2>8 DEF Next, Enqueues, BatchSteps, ClaimSome
<1>2. QED
  BY <1>1, TypeCorrect, PTL DEF Spec, OnlyCurrentHolderSettles

-----------------------------------------------------------------------------
(* The refinement of BatchLedger. *)

\* The members of membership row m whose task is in a status of S.
Those(st, m, S) == {g \in Target : m[g] # None /\ st[m[g]] \in S}

N(st, m, S) == Cardinality(Those(st, m, S))

\* Two finite sets without a common element are counted one after the other.
LEMMA DisjointUnion ==
    ASSUME NEW A, NEW B, IsFiniteSet(A), IsFiniteSet(B), A \cap B = {}
    PROVE  /\ IsFiniteSet(A \cup B)
           /\ Cardinality(A \cup B) = Cardinality(A) + Cardinality(B)
           /\ Cardinality(A \cup B) \in Nat
<1>1. /\ IsFiniteSet(A \cup B)
      /\ Cardinality(A \cup B) = Cardinality(A) + Cardinality(B) - Cardinality(A \cap B)
  BY FS_Union
<1>2. Cardinality(A \cap B) = 0
  BY FS_EmptySet
<1>3. /\ Cardinality(A) \in Nat /\ Cardinality(B) \in Nat
  BY FS_CardinalityType
<1>4. QED
  BY <1>1, <1>2, <1>3

LEMMA ThoseFacts ==
    ASSUME NEW st, NEW m
    PROVE  /\ \A S : IsFiniteSet(Those(st, m, S)) /\ N(st, m, S) \in Nat
           /\ \A S : N(st, m, S) = 0 <=> Those(st, m, S) = {}
           /\ N(st, m, {"completed"}) + N(st, m, {"failed"}) + N(st, m, {"cancelled"})
                  = N(st, m, Terminal)
           /\ N(st, m, Terminal) <= N(st, m, TaskStatus)
           /\ N(st, m, Terminal) = N(st, m, TaskStatus)
                  <=> Those(st, m, Terminal) = Those(st, m, TaskStatus)
<1>1. \A S : IsFiniteSet(Those(st, m, S)) /\ N(st, m, S) \in Nat
  BY QueueAssumption, FS_Subset, FS_CardinalityType DEF Those, N
<1>2. \A S : N(st, m, S) = 0 <=> Those(st, m, S) = {}
  BY <1>1, FS_EmptySet DEF N
<1> DEFINE done == Those(st, m, {"completed"})
           bad == Those(st, m, {"failed"})
           gone == Those(st, m, {"cancelled"})
<1>3. /\ done \cap bad = {} /\ (done \cup bad) \cap gone = {}
      /\ Those(st, m, Terminal) = (done \cup bad) \cup gone
  BY DEF Those, Terminal
<1>4. /\ IsFiniteSet(done) /\ IsFiniteSet(bad) /\ IsFiniteSet(gone)
      /\ N(st, m, {"completed"}) = Cardinality(done)
      /\ N(st, m, {"failed"}) = Cardinality(bad)
      /\ N(st, m, {"cancelled"}) = Cardinality(gone)
      /\ Cardinality(done) \in Nat /\ Cardinality(bad) \in Nat /\ Cardinality(gone) \in Nat
  BY <1>1 DEF N
<1> HIDE DEF done, bad, gone
<1>5. /\ IsFiniteSet(done \cup bad)
      /\ Cardinality(done \cup bad) = Cardinality(done) + Cardinality(bad)
      /\ Cardinality(done \cup bad) \in Nat
  BY <1>3, <1>4, DisjointUnion
<1>6. Cardinality((done \cup bad) \cup gone) = Cardinality(done) + Cardinality(bad) + Cardinality(gone)
  BY <1>3, <1>4, <1>5, DisjointUnion
<1>7. Those(st, m, Terminal) \subseteq Those(st, m, TaskStatus)
  BY DEF Those, TaskStatus
<1>8. QED
  BY <1>1, <1>2, <1>3, <1>4, <1>6, <1>7, FS_Subset DEF N

\* The counters of a batch row.
CountsOf(r) == [total |-> r.total, completed |-> r.completed,
                failed |-> r.failed, cancelled |-> r.cancelled]

LEMMA OutcomeOf ==
    ASSUME NEW c, NEW f \in Nat, NEW x \in Nat, c.failed = f, c.cancelled = x
    PROVE  Ledger!Outcome(c) = IF f > 0 THEN "failed"
                               ELSE IF x > 0 THEN "cancelled" ELSE "completed"
<1>1. CASE f > 0
  BY <1>1 DEF Ledger!Outcome
<1>2. CASE f = 0 /\ x > 0
  BY <1>2 DEF Ledger!Outcome
<1>3. CASE f = 0 /\ x = 0
  BY <1>3 DEF Ledger!Outcome
<1>4. QED
  BY <1>1, <1>2, <1>3

\* Row r, of a batch with membership row m over tasks of statuses st, in the
\* words of the ledger: it is finished exactly when it is sealed and as many
\* members are settled as there are, and then its status is the outcome of
\* its counters.
RowInLedgerTerms(st, m, isSealed, r) ==
    LET c == CountsOf(r)
    IN  /\ c.total = N(st, m, TaskStatus)
        /\ c.completed = N(st, m, {"completed"})
        /\ c.failed = N(st, m, {"failed"})
        /\ c.cancelled = N(st, m, {"cancelled"})
        /\ c.total \in Nat /\ Ledger!Settled(c) \in Nat
        /\ Ledger!Settled(c) <= c.total
        /\ ~isSealed => r.status = "pending"
        /\ isSealed /\ Ledger!Settled(c) < c.total
               => r.status \in {"pending", "processing"}
        /\ isSealed /\ Ledger!Settled(c) = c.total
               => r.status = Ledger!Outcome(c)
        /\ r.status \in Terminal <=> isSealed /\ Ledger!Settled(c) = c.total

\* A refresh writes such a row.
LEMMA RefreshedLedger ==
    ASSUME NEW st, NEW m, NEW isSealed \in BOOLEAN, NEW wasStarted \in BOOLEAN
    PROVE  RowInLedgerTerms(st, m, isSealed, Refreshed(st, m, isSealed, wasStarted))
<1> DEFINE r == Refreshed(st, m, isSealed, wasStarted)
           c == CountsOf(r)
           n == Ledger!Settled(c)
           finished == isSealed /\ Those(st, m, Terminal) = Those(st, m, TaskStatus)
<1>1. /\ r.total = N(st, m, TaskStatus)
      /\ r.completed = N(st, m, {"completed"})
      /\ r.failed = N(st, m, {"failed"})
      /\ r.cancelled = N(st, m, {"cancelled"})
  BY DEF Refreshed, N, Those
<1>2. /\ r.total \in Nat /\ r.completed \in Nat
      /\ r.failed \in Nat /\ r.cancelled \in Nat
  BY <1>1, ThoseFacts
<1>3. n = N(st, m, Terminal)
  BY <1>1, ThoseFacts DEF Ledger!Settled, CountsOf
<1>4. r.status = IF ~isSealed THEN "pending"
                 ELSE IF finished /\ Those(st, m, {"failed"}) # {} THEN "failed"
                 ELSE IF finished /\ Those(st, m, {"cancelled"}) # {} THEN "cancelled"
                 ELSE IF finished THEN "completed"
                 ELSE IF Those(st, m, {"processing"}) # {} THEN "processing"
                 ELSE "pending"
  BY DEF Refreshed, Those
<1>5. /\ c.total = r.total /\ c.completed = r.completed
      /\ c.failed = r.failed /\ c.cancelled = r.cancelled
  BY DEF CountsOf
<1> HIDE DEF c, n, r
<1>6. n \in Nat /\ n <= r.total
  BY <1>1, <1>3, ThoseFacts
<1>7. isSealed => (finished <=> n = r.total)
  BY <1>1, <1>3, ThoseFacts
<1>8. /\ Those(st, m, {"failed"}) # {} <=> r.failed > 0
      /\ Those(st, m, {"cancelled"}) # {} <=> r.cancelled > 0
  BY <1>1, ThoseFacts
<1> HIDE DEF finished
<1>9. isSealed /\ n = r.total => r.status = Ledger!Outcome(c) /\ r.status \in Terminal
  <2> SUFFICES ASSUME isSealed, n = r.total
               PROVE  r.status = Ledger!Outcome(c) /\ r.status \in Terminal
    OBVIOUS
  <2>1. Ledger!Outcome(c) = IF r.failed > 0 THEN "failed"
                            ELSE IF r.cancelled > 0 THEN "cancelled" ELSE "completed"
    BY <1>2, <1>5, OutcomeOf
  <2>2. r.status = IF r.failed > 0 THEN "failed"
                   ELSE IF r.cancelled > 0 THEN "cancelled" ELSE "completed"
    BY <1>4, <1>7, <1>8
  <2>3. QED
    BY <2>1, <2>2 DEF Terminal
<1>10. isSealed /\ n # r.total => r.status \in {"pending", "processing"}
  BY <1>4, <1>7
<1>11. r.status \in Terminal <=> isSealed /\ n = r.total
  BY <1>4, <1>9, <1>10 DEF Terminal
<1>12. n < r.total => n # r.total
  BY <1>2, <1>6
<1>13. QED
  BY <1>1, <1>2, <1>4, <1>5, <1>6, <1>9, <1>10, <1>11, <1>12 DEF n, c, r, RowInLedgerTerms

\* What a step may do to the rows of one batch: leave its members and its
\* seal alone, create it, add one member to it, seal it, or create, fill and
\* seal it at once.
StaysAsItIs(b) ==
    batchType'[b] = batchType[b] /\ sealed'[b] = sealed[b] /\ item'[b] = item[b]

IsCreated(b) ==
    /\ batchType[b] = None /\ batchType'[b] # None
    /\ sealed'[b] = sealed[b] /\ item'[b] = item[b]

GainsMember(b) ==
    /\ batchType[b] # None /\ batchType'[b] = batchType[b]
    /\ ~sealed[b] /\ ~sealed'[b]
    /\ \E g \in Target, t \in Task :
           item[b][g] = None /\ item'[b] = [item[b] EXCEPT ![g] = t]

IsSealed(b) ==
    /\ batchType[b] # None /\ batchType'[b] = batchType[b]
    /\ ~sealed[b] /\ sealed'[b]
    /\ item'[b] = item[b] /\ status' = status

IsBornSealed(b) ==
    batchType[b] = None /\ batchType'[b] # None /\ sealed'[b]

LEMMA BatchShape ==
    ASSUME TypeOK, [Next]_vars, NEW b \in Batch
    PROVE  \/ StaysAsItIs(b) \/ IsCreated(b) \/ GainsMember(b)
           \/ IsSealed(b) \/ IsBornSealed(b)
<1>1. None \notin Type
  BY QueueAssumption
<1>2. CASE Enqueues
  <2>1. ASSUME NEW c \in Batch, NEW g \in Target, NEW t \in Task, EnqueueInBatch(c, g, t)
        PROVE  StaysAsItIs(b) \/ GainsMember(b)
    <3>1. /\ batchType' = batchType /\ sealed' = sealed
          /\ item' = [item EXCEPT ![c][g] = t]
          /\ batchType[c] = TypeOf[g] /\ ~sealed[c] /\ item[c][g] = None
      BY <2>1 DEF EnqueueInBatch, Members
    <3>2. CASE b = c
      <4>1. item'[b] = [item[b] EXCEPT ![g] = t]
        BY <3>1, <3>2 DEF TypeOK
      <4>2. batchType[b] # None
        BY <1>1, <3>1, <3>2, QueueAssumption
      <4>3. QED
        BY <3>1, <3>2, <4>1, <4>2 DEF GainsMember
    <3>3. CASE b # c
      BY <3>1, <3>3 DEF StaysAsItIs, TypeOK
    <3>4. QED
      BY <3>2, <3>3
  <2>2. ASSUME NEW c \in Batch, NEW ty \in Type, NEW S \in SUBSET Target,
               NEW pick \in [S -> Task], EnqueueProcessingBatch(c, ty, S, pick)
        PROVE  StaysAsItIs(b) \/ IsBornSealed(b)
    <3>1. /\ batchType[c] = None
          /\ batchType' = [batchType EXCEPT ![c] = ty]
          /\ sealed' = [sealed EXCEPT ![c] = TRUE]
          /\ item' = [item EXCEPT ![c] =
                         [g \in Target |-> IF g \in S THEN pick[g] ELSE None]]
      BY <2>2 DEF EnqueueProcessingBatch
    <3>2. QED
      BY <1>1, <3>1 DEF StaysAsItIs, IsBornSealed, TypeOK
  <2>3. QED
    BY <1>2, <2>1, <2>2 DEF Enqueues
<1>3. CASE BatchSteps
  <2>1. ASSUME NEW c \in Batch, NEW ty \in Type, CreateProcessingBatch(c, ty)
        PROVE  StaysAsItIs(b) \/ IsCreated(b)
    BY <1>1, <2>1 DEF CreateProcessingBatch, StaysAsItIs, IsCreated, TypeOK
  <2>2. ASSUME NEW c \in Batch, SealProcessingBatch(c)
        PROVE  StaysAsItIs(b) \/ IsSealed(b)
    BY <2>2 DEF SealProcessingBatch, StaysAsItIs, IsSealed, TypeOK, taskVars
  <2>3. QED
    BY <1>3, <2>1, <2>2 DEF BatchSteps
<1>4. CASE \E T \in SUBSET Task : TaskStep(T)
  BY <1>4 DEF TaskStep, StaysAsItIs
<1>5. QED
  BY <1>2, <1>3, <1>4, StepForms

\* A batch that does not exist has neither members nor a seal.
LEMMA AbsentIsEmpty ==
    ASSUME TypeOK, Structure, NEW b \in Batch, batchType[b] = None
    PROVE  /\ ~sealed[b] /\ Members(b) = {}
           /\ \A S : Those(status, item[b], S) = {}
<1>1. ~sealed[b]
  BY DEF Structure, MembershipIntegrity
<1>2. \A g \in Target : item[b][g] = None
  <2> SUFFICES ASSUME NEW g \in Target, item[b][g] # None
               PROVE  FALSE
    OBVIOUS
  <2>1. TypeOf[g] = None
    BY DEF Structure, MembershipIntegrity
  <2>2. QED
    BY <2>1, QueueAssumption
<1>3. QED
  BY <1>1, <1>2 DEF Members, Those

\* No step takes a member from a batch, and no settled member changes.
LEMMA SettledMembersStay ==
    ASSUME TypeOK, Structure, [Next]_vars, NEW b \in Batch, NEW S \in SUBSET Terminal
    PROVE  N(status, item[b], S) <= N(status', item'[b], S)
<1>1. \A g \in Target : item[b][g] # None => item'[b][g] = item[b][g]
  <2>1. CASE StaysAsItIs(b) \/ IsCreated(b) \/ IsSealed(b)
    BY <2>1 DEF StaysAsItIs, IsCreated, IsSealed
  <2>2. CASE GainsMember(b)
    BY <2>2 DEF GainsMember, TypeOK
  <2>3. CASE IsBornSealed(b)
    BY <2>3, AbsentIsEmpty DEF IsBornSealed, Members
  <2>4. QED
    BY <2>1, <2>2, <2>3, BatchShape
<1>2. \A t \in Task : status[t] \in S => status'[t] = status[t]
  BY SettledStays
<1>3. Those(status, item[b], S) \subseteq Those(status', item'[b], S)
  <2> SUFFICES ASSUME NEW g \in Target, item[b][g] # None, status[item[b][g]] \in S
               PROVE  item'[b][g] # None /\ status'[item'[b][g]] \in S
    BY DEF Those
  <2>1. item[b][g] \in Task
    BY DEF TypeOK
  <2>2. QED
    BY <1>1, <1>2, <2>1
<1>4. IsFiniteSet(Those(status', item'[b], S))
  BY ThoseFacts
<1>5. QED
  BY <1>3, <1>4, FS_Subset DEF N

\* The total of a batch moves only when it gains a member, by one.
LEMMA TotalStep ==
    ASSUME TypeOK, TypeOK', Structure, Structure', NEW b \in Batch
    PROVE  LET before == N(status, item[b], TaskStatus)
               after == N(status', item'[b], TaskStatus)
           IN  /\ item'[b] = item[b] => after = before
               /\ GainsMember(b) => after = before + 1
<1> DEFINE old == {g \in Target : item[b][g] # None}
           new == {g \in Target : item'[b][g] # None}
<1>1. Those(status, item[b], TaskStatus) = old
  <2>1. ASSUME NEW g \in Target, item[b][g] # None
        PROVE  status[item[b][g]] \in TaskStatus
    BY <2>1 DEF TypeOK, Structure, MembershipIntegrity
  <2>2. QED
    BY <2>1 DEF Those
<1>2. Those(status', item'[b], TaskStatus) = new
  <2>1. ASSUME NEW g \in Target, item'[b][g] # None
        PROVE  status'[item'[b][g]] \in TaskStatus
    BY <2>1 DEF TypeOK, Structure, MembershipIntegrity
  <2>2. QED
    BY <2>1 DEF Those
<1>3. item'[b] = item[b] => N(status', item'[b], TaskStatus) = N(status, item[b], TaskStatus)
  BY <1>1, <1>2 DEF N
<1>4. ASSUME GainsMember(b)
      PROVE  Cardinality(new) = Cardinality(old) + 1
  <2>1. PICK g \in Target, t \in Task :
            item[b][g] = None /\ item'[b] = [item[b] EXCEPT ![g] = t]
    BY <1>4 DEF GainsMember
  <2>2. new = old \cup {g} /\ g \notin old
    BY <2>1, QueueAssumption DEF TypeOK
  <2>3. IsFiniteSet(old)
    BY <1>1, ThoseFacts
  <2>4. QED
    BY <2>2, <2>3, FS_AddElement
<1>5. QED
  BY <1>1, <1>2, <1>3, <1>4 DEF N

LEMMA LedgerStep ==
    ASSUME TypeOK, TypeOK', Structure, Structure', [Next]_vars, NEW b \in Batch
    PROVE  \/ Ledger!Keep(b) \/ Ledger!Open(b) \/ Ledger!Follow(b)
           \/ Ledger!Seal(b) \/ Ledger!Progress(b) \/ Ledger!Finish(b)
<1> DEFINE c == CountsOf(summary[b])
           d == CountsOf(summary'[b])
           p == Phase(b)
           q == Phase(b)'
           r == summary[b].status
           s == summary'[b].status
<1>1. /\ c.total = N(status, item[b], TaskStatus)
      /\ c.completed = N(status, item[b], {"completed"})
      /\ c.failed = N(status, item[b], {"failed"})
      /\ c.cancelled = N(status, item[b], {"cancelled"})
      /\ Ledger!Settled(c) <= c.total
      /\ Ledger!Settled(c) \in Nat /\ c.total \in Nat
      /\ ~sealed[b] => r = "pending"
      /\ sealed[b] /\ Ledger!Settled(c) < c.total => r \in {"pending", "processing"}
      /\ r \in Terminal <=> sealed[b] /\ Ledger!Settled(c) = c.total
  <2>1. summary[b] = Refreshed(status, item[b], sealed[b], summary[b].started)
    BY DEF Structure, BatchSummariesAgree
  <2>2. sealed[b] \in BOOLEAN /\ summary[b].started \in BOOLEAN
    BY DEF TypeOK, Summary
  <2>3. RowInLedgerTerms(status, item[b], sealed[b], summary[b])
    BY <2>1, <2>2, RefreshedLedger
  <2>4. QED
    BY <2>3 DEF RowInLedgerTerms
<1>2. /\ d.total = N(status', item'[b], TaskStatus)
      /\ d.completed = N(status', item'[b], {"completed"})
      /\ d.failed = N(status', item'[b], {"failed"})
      /\ d.cancelled = N(status', item'[b], {"cancelled"})
      /\ Ledger!Settled(d) <= d.total
      /\ Ledger!Settled(d) \in Nat /\ d.total \in Nat
      /\ ~sealed'[b] => s = "pending"
      /\ sealed'[b] /\ Ledger!Settled(d) < d.total => s \in {"pending", "processing"}
      /\ sealed'[b] /\ Ledger!Settled(d) = d.total => s = Ledger!Outcome(d)
      /\ s \in Terminal <=> sealed'[b] /\ Ledger!Settled(d) = d.total
  <2>1. summary'[b] = Refreshed(status', item'[b], sealed'[b], summary'[b].started)
    BY DEF Structure, BatchSummariesAgree
  <2>2. sealed'[b] \in BOOLEAN /\ summary'[b].started \in BOOLEAN
    BY DEF TypeOK, Summary
  <2>3. RowInLedgerTerms(status', item'[b], sealed'[b], summary'[b])
    BY <2>1, <2>2, RefreshedLedger
  <2>4. QED
    BY <2>3 DEF RowInLedgerTerms
<1>3. /\ d.completed >= c.completed /\ d.failed >= c.failed /\ d.cancelled >= c.cancelled
      /\ Ledger!Settled(d) <= d.total
  <2>1. {"completed"} \subseteq Terminal /\ {"failed"} \subseteq Terminal
        /\ {"cancelled"} \subseteq Terminal
    BY DEF Terminal
  <2>2. /\ d.completed \in Nat /\ d.failed \in Nat /\ d.cancelled \in Nat
        /\ c.completed \in Nat /\ c.failed \in Nat /\ c.cancelled \in Nat
    BY <1>1, <1>2, ThoseFacts
  <2>3. QED
    BY <1>1, <1>2, <2>1, <2>2, SettledMembersStay
<1>4. /\ p = IF batchType[b] = None THEN "absent"
            ELSE IF ~sealed[b] THEN "open"
            ELSE IF r \in Terminal THEN "finished" ELSE "sealed"
      /\ q = IF batchType'[b] = None THEN "absent"
            ELSE IF ~sealed'[b] THEN "open"
            ELSE IF s \in Terminal THEN "finished" ELSE "sealed"
  BY DEF Phase
<1>5. /\ Ledger!Keep(b) <=> q = p /\ d = c /\ s = r
      /\ Ledger!Open(b) <=> p = "absent" /\ q = "open" /\ d = Ledger!Zero /\ s = "pending"
      /\ Ledger!Follow(b) <=>
             p = "open" /\ q = "open" /\ d.total \in {c.total, c.total + 1}
             /\ Ledger!Grows(b) /\ s = "pending"
      /\ Ledger!Seal(b) <=>
             p \in {"absent", "open"} /\ q = "sealed" /\ (p = "open" => d = c)
             /\ Ledger!Settled(d) < d.total /\ s \in {"pending", "processing"}
      /\ Ledger!Progress(b) <=>
             p = "sealed" /\ q = "sealed" /\ d.total = c.total
             /\ Ledger!Grows(b) /\ Ledger!Settled(d) < d.total
             /\ s \in {"pending", "processing"}
      /\ Ledger!Finish(b) <=>
             p # "finished" /\ q = "finished" /\ (p # "absent" => d.total = c.total)
             /\ Ledger!Grows(b) /\ Ledger!Settled(d) = d.total
             /\ s = Ledger!Outcome(d)
  BY DEF Ledger!Keep, Ledger!Open, Ledger!Follow, Ledger!Seal, Ledger!Progress,
         Ledger!Finish, CountsOf
<1>6. Ledger!Grows(b)
  BY <1>3 DEF Ledger!Grows, CountsOf
<1> DEFINE Counters(C) == [total |-> C.total, completed |-> C.completed,
                           failed |-> C.failed, cancelled |-> C.cancelled]
<1>c. c = Counters(c) /\ d = Counters(d)
  BY DEF CountsOf
<1> HIDE DEF c, d, p, q, r, s
<1>a. ASSUME batchType[b] = None
      PROVE  /\ ~sealed[b] /\ c = Ledger!Zero
             /\ item'[b] = item[b] => d = Ledger!Zero
  <2>1. ~sealed[b] /\ \A g \in Target : item[b][g] = None
    BY <1>a, AbsentIsEmpty DEF Members
  <2>2. \A S : Those(status, item[b], S) = {} /\ Those(status', item[b], S) = {}
    BY <2>1 DEF Those
  <2>3. \A S : N(status, item[b], S) = 0 /\ N(status', item[b], S) = 0
    BY <2>2, FS_EmptySet DEF N
  <2>4. /\ c.total = 0 /\ c.completed = 0 /\ c.failed = 0 /\ c.cancelled = 0
        /\ item'[b] = item[b] =>
               d.total = 0 /\ d.completed = 0 /\ d.failed = 0 /\ d.cancelled = 0
    BY <1>1, <1>2, <2>3
  <2>5. QED
    BY <1>c, <2>1, <2>4 DEF Ledger!Zero
<1>7. CASE StaysAsItIs(b)
  <2>1. batchType'[b] = batchType[b] /\ sealed'[b] = sealed[b] /\ d.total = c.total
    BY <1>1, <1>2, <1>7, TotalStep DEF StaysAsItIs
  <2>2. CASE p = "absent"
    <3>1. batchType[b] = None
      BY <1>4, <2>2
    <3>2. ~sealed[b] /\ d = c
      BY <1>7, <1>a, <3>1 DEF StaysAsItIs
    <3>3. r = "pending" /\ s = "pending"
      BY <1>1, <1>2, <2>1, <3>2
    <3>4. QED
      BY <1>4, <1>5, <2>1, <3>1, <3>2, <3>3
  <2>3. CASE p = "open"
    BY <1>2, <1>4, <1>5, <1>6, <2>1, <2>3
  <2>4. CASE p = "sealed"
    BY <1>2, <1>4, <1>5, <1>6, <2>1, <2>4
  <2>5. CASE p = "finished"
    <3>1. sealed[b] /\ r \in Terminal
      BY <1>4, <2>5
    <3>2. summary'[b] = summary[b]
      BY <3>1, FrozenStep DEF r
    <3>3. d = c /\ s = r
      BY <3>2 DEF c, d, r, s
    <3>4. QED
      BY <1>4, <1>5, <2>1, <3>3
  <2>6. QED
    BY <1>4, <2>2, <2>3, <2>4, <2>5
<1>8. CASE IsCreated(b)
  <2>1. ~sealed[b] /\ ~sealed'[b] /\ d = Ledger!Zero
    BY <1>8, <1>a DEF IsCreated
  <2>2. QED
    BY <1>2, <1>4, <1>5, <1>8, <2>1 DEF IsCreated
<1>9. CASE GainsMember(b)
  <2>1. d.total = c.total + 1
    BY <1>1, <1>2, <1>9, TotalStep
  <2>2. QED
    BY <1>2, <1>4, <1>5, <1>6, <1>9, <2>1 DEF GainsMember
<1>10. CASE IsSealed(b)
  <2>1. d = c
    <3>1. /\ d.total = c.total /\ d.completed = c.completed
          /\ d.failed = c.failed /\ d.cancelled = c.cancelled
      BY <1>1, <1>2, <1>10 DEF IsSealed
    <3>2. QED
      BY <1>c, <3>1
  <2>2. QED
    BY <1>2, <1>4, <1>5, <1>6, <1>10, <2>1 DEF IsSealed
<1>11. CASE IsBornSealed(b)
  BY <1>2, <1>4, <1>5, <1>6, <1>11 DEF IsBornSealed
<1>12. QED
  BY <1>7, <1>8, <1>9, <1>10, <1>11, BatchShape

\* Polling clients see an open, then a sealed, then a finished batch, with
\* counters that only grow and the outcome they imply: the queue, with its
\* batch rows read through the refinement mapping, implements BatchLedger.
THEOREM LedgerRefined == Spec => KeepsLedger
<1>1. Init => Ledger!Init
  <2> SUFFICES ASSUME Init PROVE Ledger!Init
    OBVIOUS
  <2>1. \A b \in Batch : batchType[b] = None /\ summary[b] = NewSummary
    BY DEF Init
  <2>2. \A b \in Batch : Phase(b) = "absent"
    BY <2>1 DEF Phase
  <2>3. QED
    BY <2>1, <2>2 DEF Ledger!Init, Ledger!Zero, NewSummary
<1>2. ASSUME TypeOK, TypeOK', Structure, Structure', [Next]_vars
      PROVE  Ledger!Next
  BY <1>2, LedgerStep DEF Ledger!Next
<1>3. QED
  BY <1>1, <1>2, TypeCorrect, StructureCorrect, PTL DEF Spec, KeepsLedger, Ledger!Spec
=============================================================================
