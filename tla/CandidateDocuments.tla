-------------------------- MODULE CandidateDocuments --------------------------
(***************************************************************************)
(* The documents of one candidate: how a row is reserved under the         *)
(* capacity lock, uploaded, parsed and finalized by the request that       *)
(* brought it (api/candidates/[id]/documents, candidateDocumentReservation *)
(* and the upload loop of api/public/jobs/[slug]/apply), and what the      *)
(* recruiting worker does for it (processRecruitingTasks): reconciling the *)
(* uploads that never finished, parsing, and following on with the         *)
(* automatic analysis of the application.                                  *)
(*                                                                         *)
(* The durable queue is reduced to what its handlers see of it: the state  *)
(* of the newest task of a kind and document, and the fence of task and    *)
(* attempt.  The tasks of one kind and document are numbered.              *)
(***************************************************************************)
EXTENDS Naturals, FiniteSets

CONSTANTS
    Doc,
    Request,      \* executions of an upload handler
    Planned,      \* per request: the documents it brings
    Apply,        \* the request that submits an application, or None
    Resume,       \* the documents of type resume
    None,
    Capacity,     \* MAX_DOCUMENTS_PER_CANDIDATE
    MaxAttempts,  \* attempts of a task
    MaxTasks,     \* bound: parse tasks of each document
    MaxWork,      \* bound: task handlers that run at once
    Outcome,      \* what a parse comes to: "pending" is one that may be retried
    GraceHolds    \* a request has ended when its upload grace has run out

ParseStatus == {"parsed", "no_text", "failed", "pending"}

ASSUME DocumentsAssumption ==
    /\ IsFiniteSet(Doc)
    /\ Planned \in [Request -> SUBSET Doc]
    /\ \A q, r \in Request : q # r => Planned[q] \cap Planned[r] = {}
    /\ Apply \in Request \cup {None}
    /\ None \notin Request \cup Doc \cup ParseStatus
    /\ Resume \subseteq Doc
    /\ {Capacity, MaxAttempts, MaxWork} \subseteq Nat \ {0}
    /\ MaxTasks \in [Doc -> Nat]
    /\ Outcome \subseteq ParseStatus
    /\ GraceHolds \in BOOLEAN

VARIABLES
    row,       \* the document rows: None, or upload, parse and resets
    objects,   \* documents whose object is in storage
    capacity,  \* the request that holds the candidate's advisory lock, or None
    request,   \* per request: where its handler is
    task,      \* per kind and document: the newest task
    work,      \* the task handlers that run, on the worker or as leftovers
    applied,   \* the application row is there
    analysis   \* the automatic analysis: "none", "queued", "scored", "failed"

docVars == <<row, objects>>
appVars == <<applied, analysis>>
vars == <<docVars, capacity, request, task, work, appVars>>

Task == {"upload", "parse"} \X Doc

Fresh == [upload |-> "pending", parse |-> "pending", resets |-> 0]
NoTask == [status |-> "none", id |-> 0, attempts |-> 0]
Idle == [at |-> "idle", doc |-> None, left |-> {}, found |-> None,
         counted |-> 0, parsed |-> FALSE]
Ended == [Idle EXCEPT !.at = "ended"]

-----------------------------------------------------------------------------
(* Rows and tasks as the handlers see them. *)

Rows == {d \in Doc : row[d] # None}
Attached == IF Apply = None THEN {} ELSE Planned[Apply]
OwnerOf(d) == CHOOSE q \in Request : d \in Planned[q]
Running(q) == request[q].at \notin {"idle", "ended"}

Active(t) == task[t].status \in {"pending", "processing"}

\* enqueueProcessingTask: an active task is reused, else a new one is made.
Queued(t) == IF Active(t) THEN task[t]
             ELSE [status |-> "pending", id |-> task[t].id + 1, attempts |-> 0]

MayQueue(t) == Active(t) \/ task[t].id < MaxTasks[t[2]]

\* How a task ends; its attempts are of no more interest.
Over(t, status) == [task[t] EXCEPT !.status = status, !.attempts = 0]

\* cancelProcessingTasks of a set of targets.
Cancelled(T) == [t \in Task |-> IF t \in T /\ Active(t)
                                THEN Over(t, "cancelled")
                                ELSE task[t]]

TasksOf(D) == {"upload", "parse"} \X D

\* The fence of every completion and failure.
Holds(h) == task[h.task] = [status |-> "processing", id |-> h.id, attempts |-> h.attempt]

Failed(t, retryable) ==
    IF retryable /\ task[t].attempts < MaxAttempts
    THEN [task[t] EXCEPT !.status = "pending"]
    ELSE Over(t, "failed")

\* A deletion from storage may fail: what is left of set S without X.
Deleted(S, X) == {S \ Y : Y \in SUBSET X}

Init ==
    /\ row = [d \in Doc |-> None]
    /\ objects = {}
    /\ capacity = None
    /\ request = [q \in Request |-> Idle]
    /\ task = [t \in Task |-> NoTask]
    /\ work = {}
    /\ applied = FALSE
    /\ analysis = "none"

-----------------------------------------------------------------------------
(* The request that brings documents. *)

\* Mutant: the candidate's lock is not waited for.
CountUnlocked(q) ==
    /\ request[q].at = "idle"
    /\ capacity' = q
    /\ request' = [request EXCEPT ![q].at = "counted", ![q].counted = Cardinality(Rows)]
    /\ UNCHANGED <<docVars, task, work, appVars>>

\* lockCandidateDocumentCapacity and the count, in an open transaction.
Count(q) ==
    /\ request[q].at = "idle"
    /\ capacity = None
    /\ capacity' = q
    /\ request' = [request EXCEPT ![q].at = "counted", ![q].counted = Cardinality(Rows)]
    /\ UNCHANGED <<docVars, task, work, appVars>>

\* The rows and their reconciliation tasks are committed, or the limit is hit.
Reserve(q) ==
    /\ request[q].at = "counted"
    /\ capacity' = None
    /\ IF request[q].counted + Cardinality(Planned[q]) > Capacity
       THEN /\ request' = [request EXCEPT ![q] = Ended]
            /\ UNCHANGED <<row, task, applied>>
       ELSE /\ row' = [d \in Doc |-> IF d \in Planned[q] THEN Fresh ELSE row[d]]
            /\ task' = [t \in Task |-> IF t \in {"upload"} \X Planned[q]
                                       THEN Queued(t) ELSE task[t]]
            /\ applied' = (applied \/ q = Apply)
            /\ request' = [request EXCEPT ![q] = [Idle EXCEPT !.at = "storing",
                                                             !.left = Planned[q]]]
    /\ UNCHANGED <<objects, work, analysis>>

\* uploadToS3 of the next document.
Put(q, d) ==
    /\ request[q].at = "storing"
    /\ d \in request[q].left
    /\ objects' = objects \cup {d}
    /\ request' = [request EXCEPT ![q].at = "stored", ![q].doc = d,
                                  ![q].left = @ \ {d}]
    /\ UNCHANGED <<row, capacity, task, work, appVars>>

\* uploadToS3 throws; storage may hold the object all the same.
PutFails(q, d) ==
    /\ request[q].at = "storing"
    /\ d \in request[q].left
    /\ objects' \in {objects, objects \cup {d}}
    /\ request' = [request EXCEPT ![q].at = "undoing", ![q].left = @ \ {d}]
    /\ UNCHANGED <<row, capacity, task, work, appVars>>

\* Mutant: the objects go although the rows could not be deleted.
UndoObjectsFirst(q) ==
    /\ request[q].at = "undoing"
    /\ objects' \in Deleted(objects, Planned[q] \ request[q].left)
    /\ request' = [request EXCEPT ![q] = Ended]
    /\ \/ /\ row' = [d \in Doc |-> IF d \in Planned[q] THEN None ELSE row[d]]
          /\ task' = Cancelled(TasksOf(Planned[q]))
          /\ applied' = (applied /\ q # Apply)
          /\ analysis' = IF q = Apply THEN "none" ELSE analysis
       \/ UNCHANGED <<row, task, appVars>>
    /\ UNCHANGED <<capacity, work>>

\* rollbackCandidateDocumentUpload and rollbackPublicApplicationSubmission:
\* rows and tasks in one transaction, then the objects tried so far.
Undo(q) ==
    /\ request[q].at = "undoing"
    /\ request' = [request EXCEPT ![q] = Ended]
    /\ \/ /\ row' = [d \in Doc |-> IF d \in Planned[q] THEN None ELSE row[d]]
          /\ task' = Cancelled(TasksOf(Planned[q]))
          /\ objects' \in Deleted(objects, Planned[q] \ request[q].left)
          /\ applied' = (applied /\ q # Apply)
          /\ analysis' = IF q = Apply THEN "none" ELSE analysis
       \/ UNCHANGED <<docVars, task, appVars>>
    /\ UNCHANGED <<capacity, work>>

\* Mutant: a parse that may be retried is not queued again.
ParseUnqueued(q, found) ==
    /\ request[q].at = "stored"
    /\ request' = [request EXCEPT ![q].found = found, ![q].at = "finalizing"]
    /\ UNCHANGED <<docVars, capacity, task, work, appVars>>

\* parseDocumentDetailed of the uploaded bytes.
Parse(q, found) ==
    /\ request[q].at = "stored"
    /\ request' = [request EXCEPT ![q].found = found,
           ![q].at = IF found = "pending" THEN "queueing" ELSE "finalizing"]
    /\ UNCHANGED <<docVars, capacity, task, work, appVars>>

\* A parse to retry is queued before the upload is finalized; the resource is
\* validated under its lock, and without it the handler throws.
QueueParse(q) ==
    /\ request[q].at = "queueing"
    /\ LET t == <<"parse", request[q].doc>>
       IN  IF row[request[q].doc] = None
           THEN /\ request' = [request EXCEPT ![q] = Ended]
                /\ UNCHANGED task
           ELSE /\ MayQueue(t)
                /\ task' = [task EXCEPT ![t] = Queued(t)]
                /\ request' = [request EXCEPT ![q].at = "finalizing"]
    /\ UNCHANGED <<docVars, capacity, work, appVars>>

\* The request goes on with its next document, or past the last one.
Advanced(q) ==
    [request EXCEPT ![q].doc = None, ![q].found = None,
         ![q].parsed = @ \/ (request[q].doc \in Resume /\ request[q].found = "parsed"),
         ![q].at = IF request[q].left # {} THEN "storing"
                   ELSE IF q = Apply THEN "scoring" ELSE "ended"]

\* finalizeCandidateDocumentUpload.  A pending reconciliation task is completed
\* with the row, a claimed one is left alone; a task that ended without the
\* upload, and a row that is gone, make it throw.
Finalize(q) ==
    /\ request[q].at = "finalizing"
    /\ LET d == request[q].doc
           t == <<"upload", d>>
       IN  \/ /\ Active(t) /\ row[d] # None
              /\ row' = [row EXCEPT ![d] =
                     IF @.upload = "pending"
                     THEN [@ EXCEPT !.upload = "completed", !.parse = request[q].found]
                     ELSE @]
              /\ task' = [task EXCEPT ![t] =
                     IF @.status = "pending" THEN Over(t, "completed") ELSE @]
              /\ request' = Advanced(q)
           \/ /\ task[t].status = "completed"
              /\ row[d] # None /\ row[d].upload = "completed"
              /\ request' = Advanced(q)
              /\ UNCHANGED <<row, task>>
           \/ /\ \/ row[d] = None
                 \/ task[t].status \in {"failed", "cancelled"}
                 \/ task[t].status = "completed" /\ row[d].upload = "pending"
              /\ request' = [request EXCEPT ![q] = Ended]
              /\ UNCHANGED <<row, task>>
    /\ UNCHANGED <<objects, capacity, work, appVars>>

\* The application is complete: its analysis is queued once its resume has text.
QueueAnalysis(q) ==
    /\ request[q].at = "scoring"
    /\ request' = [request EXCEPT ![q] = Ended]
    /\ analysis' = IF request[q].parsed /\ applied /\ analysis # "scored"
                   THEN "queued" ELSE analysis
    /\ UNCHANGED <<docVars, capacity, task, work, applied>>

\* The process stops, or the handler throws somewhere else; an open
\* transaction is gone with it.
Crash(q) ==
    /\ Running(q)
    /\ request' = [request EXCEPT ![q] = Ended]
    /\ capacity' = IF capacity = q THEN None ELSE capacity
    /\ UNCHANGED <<docVars, task, work, appVars>>

-----------------------------------------------------------------------------
(* The recruiting worker. *)

Handler(t) == [task |-> t, id |-> task[t].id, attempt |-> task[t].attempts + 1,
               at |-> "claimed", found |-> None, resets |-> 0]

Becomes(h, at) == work' = (work \ {h}) \cup {[h EXCEPT !.at = at]}
Leaves(h) == work' = work \ {h}

Claimable(t) ==
    /\ Active(t)
    /\ GraceHolds /\ t[1] = "upload" => ~Running(OwnerOf(t[2]))

\* claimProcessingTasks: a due task, or one whose lease has run out, is claimed
\* for a new attempt; without attempts left it fails with lease_expired.
Claim(t) ==
    /\ Claimable(t)
    /\ Cardinality(work) < MaxWork
    /\ IF task[t].attempts < MaxAttempts
       THEN /\ task' = [task EXCEPT ![t].status = "processing",
                                    ![t].attempts = @ + 1]
            /\ work' = work \cup {Handler(t)}
       ELSE /\ task' = [task EXCEPT ![t] = Over(t, "failed")]
            /\ UNCHANGED work
    /\ UNCHANGED <<docVars, capacity, request, appVars>>

\* completeProcessingTask or failProcessingTask; a lost fence changes nothing.
EndTask(h, result) ==
    /\ task' = IF Holds(h) THEN [task EXCEPT ![h.task] = result] ELSE task
    /\ Leaves(h)

\* Storage, the parser or the database time out, and the task may be retried.
Fail(h) ==
    /\ EndTask(h, Failed(h.task, TRUE))
    /\ UNCHANGED <<docVars, capacity, request, appVars>>

\* The worker stops: its lease runs out.
Drop(h) ==
    /\ Leaves(h)
    /\ UNCHANGED <<docVars, capacity, request, task, appVars>>

\* processUploadReconciliationTask reads the row, then looks for the object and
\* reads it.  A completed upload only has its parse queued again.
Reconcile(h, found) ==
    /\ h.at = "claimed" /\ h.task[1] = "upload"
    /\ LET d == h.task[2]
       IN  IF row[d] = None
           THEN EndTask(h, Over(h.task, "completed"))
           ELSE /\ UNCHANGED task
                /\ IF row[d].upload = "completed"
                   THEN Becomes(h, IF row[d].parse = "pending" THEN "requeueing" ELSE "leaving")
                   ELSE IF d \notin objects
                   THEN Becomes(h, "missing")
                   ELSE work' = (work \ {h}) \cup
                            {[h EXCEPT !.found = found,
                                       !.at = IF found = "pending" THEN "requeueing" ELSE "read"]}
    /\ UNCHANGED <<docVars, capacity, request, appVars>>

\* The parse is queued: for an upload that is complete, or because this
\* handler's own parse may be retried.  Without its document it throws.
Requeue(h) ==
    /\ h.at = "requeueing"
    /\ LET t == <<"parse", h.task[2]>>
       IN  IF row[h.task[2]] = None
           THEN EndTask(h, Failed(h.task, TRUE))
           ELSE /\ MayQueue(t)
                /\ task' = [task EXCEPT ![t] = Queued(t)]
                /\ Becomes(h, IF h.found = "pending" THEN "writing" ELSE "leaving")
    /\ UNCHANGED <<docVars, capacity, request, appVars>>

Leave(h) ==
    /\ h.at = "leaving"
    /\ EndTask(h, Over(h.task, "completed"))
    /\ UNCHANGED <<docVars, capacity, request, appVars>>

\* Mutant: of the application's documents only the missing one is deleted.
RollbackOne(h) ==
    /\ h.at = "missing"
    /\ Leaves(h)
    /\ LET d == h.task[2]
           targets == TasksOf(IF d \in Attached THEN Rows \cap Attached ELSE {d})
       IN  IF Holds(h)
           THEN /\ row' = [row EXCEPT ![d] = None]
                /\ task' = [Cancelled(targets) EXCEPT ![h.task] = Over(h.task, "completed")]
                /\ applied' = (applied /\ d \notin Attached)
                /\ analysis' = IF d \in Attached THEN "none" ELSE analysis
           ELSE UNCHANGED <<row, task, appVars>>
    /\ UNCHANGED <<objects, capacity, request>>

\* rollbackMissingUpload, fenced: the application with all its documents, or
\* one dashboard document if its upload is still pending; the objects go anyway.
RollbackMissing(h) ==
    /\ h.at = "missing"
    /\ Leaves(h)
    /\ LET d == h.task[2]
           gone == IF d \in Attached THEN Rows \cap Attached ELSE {d}
           dropped == IF d \in Attached THEN gone
                      ELSE {e \in {d} : row[e] # None /\ row[e].upload = "pending"}
           targets == IF d \in Attached THEN TasksOf(gone) ELSE {<<"parse", d>>}
       IN  IF Holds(h)
           THEN /\ row' = [e \in Doc |-> IF e \in dropped THEN None ELSE row[e]]
                /\ task' = [Cancelled(targets) EXCEPT ![h.task] = Over(h.task, "completed")]
                /\ objects' \in Deleted(objects, gone)
                /\ applied' = (applied /\ d \notin Attached)
                /\ analysis' = IF d \in Attached THEN "none" ELSE analysis
           ELSE UNCHANGED <<docVars, task, appVars>>
    /\ UNCHANGED <<capacity, request>>

\* processDocumentParseTask reads the row, then the object.
ParseDocument(h, found) ==
    /\ h.at = "claimed" /\ h.task[1] = "parse"
    /\ LET d == h.task[2]
       IN  IF row[d] = None \/ (row[d].upload = "completed" /\ row[d].parse = "failed")
           THEN EndTask(h, Failed(h.task, FALSE))
           ELSE IF row[d].upload = "pending"
           THEN EndTask(h, Failed(h.task, TRUE))
           ELSE IF row[d].parse \in {"parsed", "no_text"}
           THEN EndTask(h, Over(h.task, "completed"))
           ELSE /\ work' = (work \ {h}) \cup
                       {[h EXCEPT !.at = "read", !.found = found, !.resets = row[d].resets]}
                /\ UNCHANGED task
    /\ UNCHANGED <<docVars, capacity, request, appVars>>

\* shouldEnqueueAutomaticAnalysis: document d as it will be, the others as read.
Ready(d) ==
    /\ d \in Attached /\ applied /\ analysis # "scored"
    /\ \A e \in (Rows \cap Attached) \ {d} : row[e].upload = "completed"
    /\ \/ d \in Resume /\ row[d] # None
       \/ \E e \in (Rows \cap Attached \cap Resume) \ {d} : row[e].parse = "parsed"

\* completeDocumentTaskAfterFollowOn: a text queues the analysis first.
FollowOn(h) ==
    /\ h.at = "read"
    /\ analysis' = IF h.found = "parsed" /\ Ready(h.task[2]) THEN "queued" ELSE analysis
    /\ Becomes(h, "writing")
    /\ UNCHANGED <<docVars, capacity, request, task, applied>>

\* The fenced write of the result, with the end of the task.  A reconciliation
\* completes a pending row only; a parse that failed takes its task with it.
Write(h) ==
    /\ h.at = "writing"
    /\ Leaves(h)
    /\ LET d == h.task[2]
           end == IF h.task[1] = "upload" \/ h.found \in {"parsed", "no_text"}
                  THEN Over(h.task, "completed")
                  ELSE Failed(h.task, h.found = "pending")
           parse == IF h.task[1] = "parse" /\ end.status = "failed" THEN "failed" ELSE h.found
       IN  IF Holds(h)
           THEN /\ row' = IF row[d] # None /\ (h.task[1] = "upload" => row[d].upload = "pending")
                          THEN [row EXCEPT ![d].upload = "completed", ![d].parse = parse]
                          ELSE row
                /\ task' = [task EXCEPT ![h.task] = end]
           ELSE UNCHANGED <<row, task>>
    /\ UNCHANGED <<objects, capacity, request, appVars>>

\* processApplicationAnalysisTask, its attempts and the provider left open.
Analyse ==
    /\ analysis = "queued"
    /\ \/ analysis' = "failed"
       \/ /\ \E d \in Rows \cap Attached \cap Resume : row[d].parse = "parsed"
          /\ analysis' = "scored"
    /\ UNCHANGED <<docVars, capacity, request, task, work, applied>>

-----------------------------------------------------------------------------
(* Recruiters. *)

\* Mutant: only a waiting task is cancelled, a claimed one is reused.
ReparseReusing(d) ==
    /\ row[d] # None /\ row[d].upload = "completed"
    /\ LET t == <<"parse", d>>
       IN  /\ MayQueue(t)
           /\ task' = [task EXCEPT ![t] = Queued(t)]
    /\ row' = [row EXCEPT ![d].parse = "pending", ![d].resets = @ + 1]
    /\ row[d].resets < MaxTasks[d]
    /\ UNCHANGED <<objects, capacity, request, work, appVars>>

\* api/documents/[id]/parse: reset, cancel and queue afresh in one transaction.
Reparse(d) ==
    /\ row[d] # None /\ row[d].upload = "completed"
    /\ task[<<"parse", d>>].id < MaxTasks[d]
    /\ task' = [task EXCEPT ![<<"parse", d>>] =
                   [status |-> "pending", id |-> @.id + 1, attempts |-> 0]]
    /\ row' = [row EXCEPT ![d].parse = "pending", ![d].resets = @ + 1]
    /\ UNCHANGED <<objects, capacity, request, work, appVars>>

\* api/documents/parse-all, for one of the documents it lists.
ParseAll(d) ==
    /\ row[d] # None /\ row[d].upload = "completed" /\ row[d].parse = "pending"
    /\ ~Active(<<"parse", d>>)
    /\ MayQueue(<<"parse", d>>)
    /\ task' = [task EXCEPT ![<<"parse", d>>] = Queued(<<"parse", d>>)]
    /\ UNCHANGED <<docVars, capacity, request, work, appVars>>

\* api/documents/[id] DELETE: tasks and row in one transaction; the object is
\* left to the erasure queue.
Delete(d) ==
    /\ row[d] # None
    /\ row' = [row EXCEPT ![d] = None]
    /\ task' = Cancelled(TasksOf({d}))
    /\ UNCHANGED <<objects, capacity, request, work, appVars>>

-----------------------------------------------------------------------------
RequestStep(q) ==
    \/ Reserve(q)
    \/ \E d \in Doc : Put(q, d) \/ PutFails(q, d)
    \/ Undo(q) \/ QueueParse(q) \/ Finalize(q) \/ QueueAnalysis(q)
    \/ \E found \in Outcome : Parse(q, found)
    \/ Crash(q)

HandlerStep(h) ==
    \/ \E found \in Outcome : Reconcile(h, found) \/ ParseDocument(h, found)
    \/ Requeue(h) \/ Leave(h) \/ RollbackMissing(h) \/ FollowOn(h) \/ Write(h)
    \/ Fail(h) \/ Drop(h)

Next ==
    \/ \E q \in Request : Count(q) \/ RequestStep(q)
    \/ \E t \in Task : Claim(t)
    \/ \E h \in work : HandlerStep(h)
    \/ Analyse
    \/ \E d \in Doc : Reparse(d) \/ ParseAll(d) \/ Delete(d)

\* A request that runs goes on or stops; so does the handler of each task; the
\* worker polls every few seconds.
Fairness ==
    /\ \A q \in Request : WF_vars(RequestStep(q))
    /\ \A t \in Task : WF_vars(Claim(t))
    /\ WF_vars(\E h \in work : HandlerStep(h))

Spec == Init /\ [][Next]_vars /\ Fairness

-----------------------------------------------------------------------------
DocumentRow ==
    [upload : {"pending", "completed"}, parse : ParseStatus, resets : Nat]
TaskRow ==
    [status : {"none", "pending", "processing", "completed", "failed", "cancelled"},
     id : Nat, attempts : 0..MaxAttempts]
RequestState ==
    [at : {"idle", "counted", "storing", "stored", "undoing", "queueing",
           "finalizing", "scoring", "ended"},
     doc : Doc \cup {None}, left : SUBSET Doc, found : ParseStatus \cup {None},
     counted : Nat, parsed : BOOLEAN]
HandlerState ==
    [task : Task, id : Nat, attempt : 1..MaxAttempts,
     at : {"claimed", "requeueing", "leaving", "missing", "read", "writing"},
     found : ParseStatus \cup {None}, resets : Nat]

TypeOK ==
    /\ row \in [Doc -> DocumentRow \cup {None}]
    /\ objects \subseteq Doc
    /\ capacity \in Request \cup {None}
    /\ request \in [Request -> RequestState]
    /\ task \in [Task -> TaskRow]
    /\ work \subseteq HandlerState
    /\ applied \in BOOLEAN
    /\ analysis \in {"none", "queued", "scored", "failed"}

\* However many requests reserve at once, a candidate never has more documents
\* than the limit.
WithinCapacity == Cardinality(Rows) <= Capacity

\* A row that says its upload is complete has its object in storage.
CompletedHasObject ==
    \A d \in Rows : row[d].upload = "completed" => d \in objects

\* A complete upload that waits for its parse has a task that will parse it, or
\* one that ran out of attempts; it does not wait for something nobody does.
PendingParseHasWork ==
    \A d \in Rows :
        row[d].upload = "completed" /\ row[d].parse = "pending"
            => Active(<<"parse", d>>) \/ task[<<"parse", d>>].status = "failed"

\* A handler that may still write its result has read the document after the
\* last manual reset of its parse.
ReadingsAreCurrent ==
    \A h \in work :
        /\ h.task[1] = "parse" /\ h.at \in {"read", "writing"}
        /\ Holds(h) /\ row[h.task[2]] # None
        => h.resets = row[h.task[2]].resets

\* No upload stays in doubt for ever: it is completed or taken back, unless its
\* reconciliation ran out of attempts.
UploadsSettle ==
    \A d \in Doc :
        row[d] # None /\ row[d].upload = "pending"
            ~> row[d] = None \/ row[d].upload = "completed"
               \/ task[<<"upload", d>>].status = "failed"

\* docs/plans/2026-07-16-factory-careers-hardening-design.md: automatic scoring
\* resumes after an interruption.  When nobody works on the application any
\* more and its resume has text, its analysis was queued.  The code violates it:
\* two parses that end at once each read the other as unfinished.
Quiet ==
    /\ ~\E q \in Request : Running(q)
    /\ work = {}
    /\ \A t \in Task : ~Active(t)

AutomaticAnalysisIsQueued ==
    Quiet /\ applied /\ (\A d \in Rows \cap Attached : row[d].upload = "completed")
        /\ (\E d \in Rows \cap Attached \cap Resume : row[d].parse = "parsed")
    => analysis # "none"
=============================================================================
