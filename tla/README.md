# Factory Careers: a verification project

Factory Careers is an applicant tracking system: a Nuxt/Nitro server over
PostgreSQL (Drizzle) and S3-compatible storage. Its core is a set of durable
queues kept in tables, each worked by plugins in one or more server processes,
by request handlers and by administrators' drains, with leases, attempt counts,
row locks and unique indexes as the only coordination. This directory models
those protocols in TLA+, checks them with TLC on small instances, and proves
the most important ones with TLAPS.

Paths below are relative to the repository.

## Inventory

| component | state | operations | what is hard |
|---|---|---|---|
| Processing queue, `server/utils/processingQueue.ts` | `processing_task`, `processing_batch`, `processing_batch_item` | create, enqueue, seal, claim, renew, complete, complete with clean-up, fail, cancel, finalize an upload, discover | tasks shared by batches, leases that run out under a handler, summaries that many writers refresh, lock orders |
| Recruiting worker, `plugins/recruiting-worker.ts`, `utils/processRecruitingTasks.ts` | handlers in memory | cycles over organizations, heartbeats, three handlers | crash and abort of a handler, late outcomes, follow-on work |
| Erasure queue, `utils/documentErasureQueue.ts`, `utils/processDocumentErasures.ts`, migration 0067 | `document_erasure_queue`, objects in storage | bury (trigger), enqueue, claim, erase, complete, fail | lost answers, stale handlers, links set while a handler runs |
| Privacy requests, `utils/privacyRequests.ts`, `api/privacy-requests` | `privacy_request` | submit, verify, review, fulfil, close | completions that race each other, reviews and verifications |
| Documents, `utils/candidateDocumentReservation.ts`, `api/candidates/[id]/documents`, `api/documents`, `utils/processingCascadeCleanup.ts` | `document`, `candidate`, objects | reserve, upload, parse, finalize, roll back, parse again, delete | a limit counted before it is used, an upload that outlives its row, a parse that is overtaken |
| Intake, `api/public/jobs/[slug]/apply.post.ts`, `utils/applicationIntakeRecovery*.ts`, `utils/rollbackPublicApplicationSubmission.ts` | encrypted receipts, `application` | receive, create, store, roll back, replay, expire | every step may fail after the last one succeeded |
| Notification queue, `utils/applicationNotificationQueue.ts` | events, messages, deliveries | fan out, claim, send, complete, cancel, recover | digests that grow while they are sent, repeated sends |
| Candidate e-mail queue, `utils/candidateWorkflowEmailQueue.ts` | queue rows | enqueue, claim, send, complete | repeated sends, uploads that are not done |
| Application status, `api/applications/[id].patch.ts`, `shared/status-transitions.ts` | `application.status` | check, compare and change | two recruiters at once |
| Calendar, `utils/google-calendar.ts`, `api/calendar` | `calendar_integration`, `interview` | connect, refresh, disconnect, watch, notify, synchronize | answers of Google that arrive after the connection changed |
| Sign-in, limits, analysis, chatbot, reports, pages | sessions, memory of one process, provider accounts | | mostly provider I/O and reads |

The processing queue is called by almost everything: handlers and APIs enqueue
and cancel, documents and applications are removed together with the tasks
about them, and the upload of a document is finalized in the transaction that
completes its reconciliation task. The erasure queue is fed by a trigger on
every removed document row and by fulfilments, and it closes privacy requests.
The intake creates an application, its documents, their reconciliation tasks,
its notification event and its acknowledgement in one transaction; from then on
each has a queue of its own, and removing the application cancels or cascades to
all of them. A calendar connection is touched by the renewal plugin, by requests
of its user and by a webhook.

What makes each correct, in short: a batch shows what its tasks show, and ends;
a task has one writer and a bounded number of attempts; nothing settled changes;
a stored object always has a row or a tombstone; a completed tombstone means an
absent object; a privacy request completes exactly when its documents are
erased; a candidate has no more documents than the limit, and each of them
settles; an accepted application is held by a row or a receipt; what is recorded
as delivered was mailed; a candidate gets one mail per rejection, and no
acknowledgement before the files are there; what is stored of a calendar is of
the connection that is stored. `PROJECT.json` lists every component and every
hazard with its line.

## Modules

| module | models |
|---|---|
| `ProcessingQueue` | the queue, one action per transaction, with a clock |
| `BatchLedger` | what the queue promises of a batch: the abstract specification |
| `QueueTransactions` | the same operations split at the locks they take |
| `CandidateDocuments` | documents of a candidate: reservation, upload, parse, reconciliation, resets |
| `ApplicationIntake` | submissions of an application, their receipts, roll-back and replay |
| `DocumentErasure` | documents, objects, tombstones, erasing handlers, privacy requests |
| `ApplicationNotifications` | events, deliveries, digests and their mails |
| `CandidateMail` | the status of an application and the mails to its candidate |
| `GoogleCalendar` | connection, channel and synchronization of one calendar |
| `ProcessingQueueProofs`, `QueueTransactionsProofs`, `DocumentErasureProofs`, `ApplicationIntakeProofs`, `CandidateDocumentsProofs`, `ApplicationNotificationsProofs`, `CandidateMailProofs`, `GoogleCalendarProofs` | theorems about the module each is named after |
| `MC...` | the constants with which TLC checks a module |

The modules share the pattern of the code: a row is claimed with a lease and an
attempt number, its handler works outside any transaction, and every write of
the handler is conditional on the row still being at that attempt. A handler is
a record in a set (`claims`, `handler`, `work`); it may be overtaken, since
a lease may run out at any moment, and it may vanish between any two steps,
which is a crash of its process.

### ProcessingQueue

Tasks and batches are rows that are born with a fresh identity. `status`,
`attempts`, `delay` (until `available_at`) and `lease` (until
`lease_expires_at`) are columns of a task; `item[b]` are the membership rows of
batch `b`; `summary[b]` its status and counters; `claims[w]` the tasks and
attempts that handlers of worker `w` believe they hold. A crashed, paused or
overtaken handler keeps or loses its claim at any time, and everything it does
goes through the fence (`HoldsLease`) as in the code. Every action ends with
`RefreshBatches` where the code calls `refreshBatchesForTask`.

Abstractions: one organization (every query is scoped to one); time in ticks,
one clock; a transaction happens at the instant it holds its locks; a claim
takes any non-empty set of the rows it may take, which covers its limit, its
filters and the rows that SKIP LOCKED skips; result codes and the existence of
the resource are left out; `max_attempts` is a constant. `SettledSinceLookup`
over-approximates the window in which a looked-up task settles before it is
linked.

### QueueTransactions

Sessions run the operations statement by statement: advisory locks of the
resources in sorted order, row locks on tasks, KEY SHARE locks of the foreign
key, row locks on batches, then commit or rollback. A session's own writes are
visible to it alone until it commits. A cancellation may be followed by others
in its transaction (`CancelMore`), as a cascade of a candidate and the roll-back
of an application do: it then takes advisory locks and task rows while it holds
the batch rows of its first one. Leases, attempts and
`completeProcessingTaskWithResourceCleanup` are left to `ProcessingQueue`; the
intermediate refreshes of a batch nobody else can see are left out.

What is composed in one transaction is what the callers compose. `findBatch`
locks an existing batch before its resources, but only
`tests/unit/processing-queue.test.ts` names a batch of an earlier transaction;
the callers in `src/server` enqueue into a batch they have created, whose row
nobody else can see. A cascade cancels applications before documents, and the
keys of the advisory locks sort in that order; what the roll-back cancels again
it holds already, with the application's lock that keeps new tasks of its
documents out. `api/documents/[id]/parse.post.ts` cancels a document's tasks
and then enqueues for the same document, which takes no lock that it does not
hold but those of its new batch and task; the reservations of several documents
are enqueues in a row, of documents that nobody else knows yet. The locks of
other tables (candidates, applications, capacity) are left out, so that
`DeadlocksMeetAtBatches` speaks of the queue's own.

### DocumentErasure

A tombstone (`status`, `attempts`, `leased`, `link`) is created by the trigger
of migration 0067 for every removed document, inside the removing transaction
(`Remove`). `handler[w][k]` is the handler of worker `w` for key `k`: it deletes
the object, then either records a failure or opens the completion transaction,
which updates the tombstone (`CompleteErasure`), locks and reads the request
(`ReconcilePrivacy`) and commits (`CommitErasure`). The transaction is split
because it waits for the request's row lock while it holds the tombstone's, and
a fulfilment takes the two in the other order; `LoseHandler` is also the abort
of a deadlock's victim. A fulfilment is split between its listing of the
documents and the rest (`BeginFulfilment`, `FinishFulfilment`).

Abstractions: a lease runs or is past, so that it may run out at any moment and
`renewDocumentErasureLease`, which nobody calls, changes nothing; retry delays
are left out, a pending tombstone may be claimed at once; a request has at most
one candidate per organization (`candidate_org_email_idx`), so a fulfilment
locks one; deletion of an organization or of a failed application removes rows
as `DeleteDocument` and `DeleteCandidate` do, through the trigger; reviewers and
notes are left out. Storage behaves as `server/utils/s3.ts` uses it: a call
takes effect or not, and its answer may be lost. What the handler takes an
answer for is the code's (`DeleteObject`): absence (`ConfirmAbsence`), an error
(`MeetError`), or a 404 that is about something else, such as a missing bucket,
and passes for absence (`MisreadAbsence`). `misread[k]`, a history, remembers
the last; `ErasedObjectsAreGone` excepts it, and `AbsenceIsProven`, which does
not, is finding 12.

### CandidateDocuments

`row[d]` is the row of a document with its `upload_status` and `parse_status`,
and, as history, the number of manual resets of its parse; `objects` what is
stored; `capacity` the holder of the
candidate's advisory lock. `request[q]` is an upload handler or the apply
handler: it counts the documents and reserves rows under the lock (`Count`,
`Reserve`), and for each document stores the object, parses it and finalizes
(`Put`, `PutFails`, `Parse`, `QueueParse`, `Finalize`), undoes what it reserved
when a step fails (`Undo`), queues the analysis at the end (`QueueAnalysis`), and
may stop anywhere (`Crash`). `work` holds the handlers of tasks: `Reconcile`
looks the object up, then the handler finalizes, queues a parse, leaves the row,
or rolls a missing upload back (`RollbackMissing`); `ParseDocument`, `FollowOn`
and `Write` are the parse with its follow-on. Recruiters reset a parse
(`Reparse`, `ParseAll`) and delete (`Delete`).

Abstractions: the queue, modelled in `ProcessingQueue`, is reduced to the newest
task of a kind and document and to the fence, since a handler sees no more of
it; one candidate; where `task` and `row` change in one transaction of the code
they change in one action. `MaxTasks` bounds the parse tasks of a document and
`MaxWork` the handlers at once. `Analyse` leaves the analysis' own attempts and
its provider open. `GraceHolds` is the assumption that a request has ended when
the upload grace (`delay` of its reconciliation task) is over; without it a
finding below applies.

### ApplicationIntake

A call is one execution of the apply handler, by the applicant or by a replay.
Its steps are the writing of the receipt (`Buffer`), the checks (`Reject`,
`Break`), the transaction (`Create`, `Duplicate`), the uploads (`Store`,
`Finalize`), the roll-back (`Undo`), the deletion of the receipt and the answer
(`Finish`), and `Crash`. Objects are named by the call that made them, as the
keys contain fresh identities. An operator loads a receipt, looks at the
application it made (`Inspect`), removes it if it is partial (`Clear`), posts the
form again and waits (`Post`, `TakeAnswer`, `Settle`), or gives up waiting while
the call goes on (`GiveUp`). The worker reconciles in three steps; receipts
expire and are purged.

Abstractions: one applicant and one job, for the unique index keeps one
application of a candidate for a job; the parse of a document is part of its
finalization; deletion by a recruiter is left to `CandidateDocuments`. Canary
requests, a disabled recovery, and applications without a receipt are not
modelled. A reconciliation has `MaxAttempts` attempts: each claim counts
(`Claim`), and it may complete the document, find its object missing and roll
back, or fail (`FailAttempt`, `FailRollback`); an application whose attempts are
used up stays as it is, which `NothingStaysPartial` admits.

Nothing in the code keeps a replay from starting under a request that still runs,
or beside another replay of the same receipt. Operators in `Hasty` do that, and
`rushed` remembers the receipts they did it to. `AcceptedIsHeld` and
`ReceiptsAreSpent` except those receipts, and no others: `AcceptedIsAlwaysHeld`,
without the exception, is finding 13. The run has no hasty operator, since the
space is then too large for it; the theorems below are for every set of them,
and smaller instances with one or two hasty operators pass. `GraceHolds` is the
same assumption as in `CandidateDocuments`, and `AcceptedIsHeld` and
`ReceiptsAreSpent` need it.

### ApplicationNotifications

`event`, `message` and `delivery` are the tables, `recipient[k]` the preference
of the recipient of a digest. A digest is its dedupe key: recipient, cadence and
slot. Fan-out adds a delivery to the message of its digest while that message is
pending, and to a recovery message of its own afterwards. Before it sends, the
handler looks at the subscription (`Inspect`) and runs two queries at once, one
that counts the pending deliveries and one that lists the first `DetailLimit` of
them by the age of their applications (100 in the code; `Earliest`); in the
model either may come first (`Inspect`, then `ReadRest`), and other transactions
commit in between. `mail[m]` is the
content the provider accepted for the idempotency key of message `m`: the
applications it names, and how many there are;
`KeyIsCompared` is the provider's rule that a key it knows is refused with other
content, on which a repeated send relies. Claims, leases, exhaustion,
cancellation by preference and by leaving, and the deletion of an application
are actions; dates, schedules and the wording of a mail are left out. A mail
accounts for an application that it names, or that is beyond the limit and
counted. An application deleted between the two queries may be named and not
counted; `CompletedWasMailed` and `ReadingsAreComplete` admit that one case.

### CandidateMail

`status` with the table of transitions; a PATCH reads it (`Read`) and writes
(`Patch`), under compare if it changes the status, with the rejection mail in the same transaction.
`mail[k]` is a queue row: number 0 the acknowledgement, whose claim waits until
no upload is pending, the others the rejections of each PATCH. `accepted` is
what the provider took; a repeated send has the same key and content.
`rejections` is a history variable. One application, since rows of two share
nothing; the delay of a rejection is the freedom of its claim to come late. That
the provider remembers a key longer than the retries last is assumed.

### GoogleCalendar

`row` is the integration row: generation, access token, channel and position
(`syncToken`); each token is tagged with the connection it was issued to. A
handler loads the row, calls Google, and writes back under the condition the
code states, for a refresh, a disconnection, the making and stopping of a
channel, and a synchronization: list (`List`), show each answer, save the
position. Without a position, first or after a 410 (`Expired`), a listing asks
for future events only, and leaves out those that are `over` (`EventEnds`).
`confirmed` is a history of what a synchronization has shown, `passed` of what
it has left out for that reason. That a listing after a position tells of every
change since, also of events that are over, is taken from Google.
Abstractions: events are linked to interviews already, each change is a new
answer, a listing is a snapshot and one event a page; the Microsoft provider has
neither channels nor synchronization; the creation and change of events is not
modelled.

## Runs

| run | bounds | shows |
|---|---|---|
| `queue_fences` | 2 resources of two types, 2 tasks, 2 batches, 2 workers, 2 attempts | leases, attempts, stale handlers, cancellation, discovery; every sealed batch finishes |
| `queue_batches` | 2 resources of one type, 3 tasks, 2 batches, 1 worker, 2 attempts | memberships and summaries, and that the queue implements `BatchLedger` |
| `queue_locks` | 2 sessions, 2 tasks, 2 batches, 2 resources, one of them an upload | committed summaries, unique inserts, where deadlocks are left, consistent polls, tasks that stay settled, `BatchLedger` again |
| `documents_uploads` | an application's resume and a recruiter's file for one free place, 2 attempts, 2 parse tasks | the limit holds, a parse that was reset writes nothing |
| `documents_settle` | an application of two documents, 2 attempts | every upload is completed or taken back, a completed one has its object, a pending parse has its task |
| `intake_replay` | two submissions, with one document and with none, and two operators who replay the first, 1 attempt of a reconciliation | an accepted answer is held, receipts are spent rightly, nothing stays partial while attempts are left |
| `erasure_closing` | 2 keys of 2 candidates, 2 requests, 1 worker, 1 visitor, 2 attempts | requests complete exactly with their last erasure |
| `erasure_fence` | 1 key from its upload on, 2 workers, 1 request, 1 visitor, 2 attempts | erased objects are gone, none is forgotten, every tombstone settles |
| `notifications_digest` | 2 applications in one digest that names 1, 2 attempts, 2 handlers | what is recorded as delivered was mailed, nothing is left waiting |
| `mail` | 1 document, 3 changes of the status, 2 attempts, 2 handlers | one mail per rejection, no early acknowledgement, every mail settles |
| `calendar` | 2 connections, 2 channels, 1 refresh, 1 interview, 2 answers, 2 handlers | connections do not mix, a stored position skips nothing but answers on events that were over, a late connection undoes nothing |
| `request_reopened` | 1 key, 1 visitor | finding: a terminal request is reopened |

Why these bounds: sharing needs two batches and two resources; a third task is
the successor of one that settled; two workers and two attempts give a stale
handler next to a current one, and a last attempt. In `QueueTransactions` each
property is about a pair of sessions, or about one cycle of waiting sessions,
and two sessions meet in every pair of operations. For a request two tombstones
are the last and the one before. One place for two requests is the limit at
which a count can be stale; two parse tasks are the one that was overtaken and
its successor, and the bound on tasks stops further resets, not handlers. The
second submission of the intake carries no document, so that both kinds of
completion occur and one submission meets the row of the other; of two replays
the second may start after the first gave up waiting, while its submission goes
on. One attempt is the last one, and a claim that finds nothing is then told
from one that fails; with two and a single submission the run passes as well.
Two applications are one that is in a digest and one that comes late, or one
within the limit of names and one beyond it. Three changes
are two that race for a rejection and one that opens the application again. Two
connections, two channels and two answers give each late write a newer state to
overwrite. The theorems below cover the safety properties for all bounds.

Deadlock is not checked where the system may stop: all rows are settled and no
fresh identities are left, or no cycle finds work; `queue_locks` checks it.
Symmetry is used in safety runs only, over rows and processes; in
`queue_locks` over sessions alone, since rows are locked in the order of their
ids.

### Fairness

In every run with a liveness property a handler or request that runs goes on or
stops: providers and storage are called under time-outs, and a process that dies
loses its handlers. None assumes that a step succeeds: where the code bounds its
attempts, all of them may fail.

- `queue_fences` assumes besides that the worker's interval keeps starting
  cycles (`ClaimSome`: `plugins/recruiting-worker.ts` launches one every five
  seconds and the page of organizations wraps around) and that time passes
  (`Tick`).
- `erasure_fence` assumes the same of erasure cycles, that storage answers (the
  code sets no time-out of its own for `deleteFromS3`), that a fulfilment ends,
  that leases run out, and strong fairness for `ReconcilePrivacy`: PostgreSQL
  queues the waiters for a row lock, so that a handler cannot be overtaken for
  ever by reviews and fulfilments. A failed tombstone counts as settled; the
  request that waits for it stays in review, as the documentation says.
- `documents_settle` and `intake_replay` assume that the worker claims each task
  while it has attempts left and that each attempt ends, well or not. An
  application whose reconciliation has used up its attempts may stay partial.
  Operators need do nothing.
- `notifications_digest` and `mail` assume that processes poll every five
  seconds, each claimable row in the end. A message or a mail that ran out of
  attempts counts as settled.

`calendar` checks safety only: nothing in the code promises that a notification
arrives.

## Findings

The first has a run. The others are stated in a module, as a property that the
code violates (its name is given), or are read from the code. `PROJECT.json`
quotes the documents they disagree with.

1. A verification link overwrites a terminal disposition
   (`request_reopened`): `verify.get.ts` updates by id alone what it read before.
2. A batch can follow a task that is already settled (`LinkedTasksAreActive` of
   `QueueTransactions`), against the comment on `processing_batch_item`.
3. "Batch-first paths never take task row locks" is not what foreign keys and
   claims do (`BatchRowsAreLockedLast`), nor what a transaction does that cancels
   twice. A claim or a cancellation may therefore deadlock with other
   sessions, enqueues among them, and PostgreSQL then aborts one.
   `DeadlocksMeetAtBatches` bounds it: in every deadlock one session waits for a
   batch row that a claim or a cancellation in it holds, so that enqueues and
   outcomes of single tasks alone never deadlock.
4. A request completes while a document of its requester, deleted earlier, is
   still to be erased (`FulfilmentWaitsForErasure`): only documents that still
   have a row are linked.
5. A replay removes a completed application that has no documents and submits it
   anew (`CompletedSurvivesReplay`, with the form `JustNone`).
6. An upload that outlives its grace is deleted by the reconciliation that found
   its object missing before, though it is complete by then
   (`CompletedHasObject` with `GraceHolds` false).
7. The automatic analysis may not be queued when two documents of an application
   end their parse together: each decides from an unlocked read of the other
   (`AutomaticAnalysisIsQueued`).
8. A PATCH that repeats the status it read writes it over a newer one
   (`MovesAreAllowed` of `CandidateMail`).
9. The PATCH of an interview or of a job checks a transition from the status it
   read and updates by id alone, so that a terminal status is left.
10. Two synchronizations of one connection may leave the older answer of a
    candidate in the interview.
11. The "full re-sync" after an expired position is not full: it asks for future
    events only, and an answer on one that is over by then is never shown
    (`ResyncIsFull`).
12. A tombstone completes on any 404, also one that does not prove the absence of
    the object (`AbsenceIsProven`).
13. Replays of one receipt that overlap each other or its request may clear a
    completed application and spend the receipt as well
    (`AcceptedIsAlwaysHeld`, with two operators in `Hasty`).

Seen on the way, and contradicted by no document: an application that is opened
again after a rejection still gets the delayed rejection mail; an
acknowledgement is never sent while an upload stays pending for ever; an answer
given by link is overwritten by a later listing; a new connection forgets the
channel of the old one without stopping it; an event is created in Google before
its id is saved, so that a crash in between leaves an event no interview knows.

## Proofs

`ProcessingQueueProofs` proves, for all sets of tasks,
batches and workers, every finite set of resources and all positive bounds (`QueueAssumption`):
`TypeCorrect`, `MembershipCorrect`, `OneActiveTaskCorrect`, `SummariesCorrect`,
`OneWriterCorrect`, `PendingWorkCorrect`, `DiscoveryCorrect`,
`TerminalTasksCorrect` and `FinishedBatchesCorrect`.

The argument has two inductive invariants over the types. `Structure` joins
membership, uniqueness of active tasks and agreement of summaries: a refresh
restores agreement only for the batches it finds through the membership rows of
the tasks that changed, and a task may be linked only when it exists, so none of
the three is inductive alone. Every step is one of a few forms (`StepForms`:
enqueues, batch steps, task steps followed by a refresh), and the preservation
of agreement is proved once per form. `Fence` says that a claim never carries an
attempt beyond its task's, that no two workers share a task and attempt, and
that waiting tasks have attempts left; `OneWriterPerTask` and
`PendingWorkHasAttempts` follow. The action properties are proved from
`Structure` and the guards of the steps, `CurrentHolderCorrect` (a leased task
completes, fails or returns only by the holder of its latest claim, or fails by
a claim after its last lease) from the fence of each outcome.
`LedgerRefined` maps each step to a step of `BatchLedger` or a stutter: what the
ledger counts of a batch are its summary's numbers, and agreement before and
after a refresh makes it a ledger step.

`QueueTransactionsProofs` proves the same promises where the transactions are
split at their locks, for any number of sessions, any finite sets of
naturals as tasks, batches and resources (`TransactionsAssumption`; ids are
naturals because the code locks in their order): `TransactionsTypeCorrect`,
`InsertsNeverConflictCorrect`, `CommittedSummariesCorrect`, `FinishedPollsCorrect`, `SettledTasksStay`,
`DeadlocksMeetAtBatchesCorrect` and the refinement `TransactionsKeepLedger`. The
invariant has stages, each resting on those before it:

- `Typed` and `Shape` say what a transaction looks like at each statement: which
  locks are still to be taken, what it has drafted, which batches it has counted.
- `Existence`: a batch that is refreshed is committed, one that is being created
  is not, and nobody else creates it.
- `Locks` ties every lock to what its holder has done: who has drafted a task
  holds its row, who has linked one its key share, who has counted a batch the
  batch's row, and an enqueue the resource of each task it has looked up.
  `InsertsNeverConflict` is then the exclusion of advisory locks, with `Rows`: an
  enqueue inserts a task only where no committed one is active, and nobody
  rewrites a settled task.
- `Counts`: a session that has written a task has each batch of that task still to
  refresh, or has counted it as the tasks will be after its commit. That the
  count is still right at the commit, although others commit in between, is
  where the locks on task rows, key shares and batch rows meet, and what
  `CommittedSummariesAgree` needs.
- `LockOrder`: a cancellation keeps the resources of what it cancels, and an
  outcome of one task holds only batch rows below those it still has to lock.

A deadlock in which every session that a batch row keeps waiting waits for the
outcome of a single task is then taken apart: outcomes lock the batches of
their task in the order of their ids, so that they make no cycle among
themselves and nobody waits for a batch row; then nobody waits for a task row,
for an enqueue's and a cancellation's resources differ; and the resources alone
are locked upwards, also across the cancellations of a cascade. The refinement counts the members a commit settles:
the new summary is the old one with as many tasks moved.

`DocumentErasureProofs` proves, for all sets of keys, candidates, requests,
workers and visitors and every positive number of attempts
(`ErasureAssumption`), every safety property the passing runs check on
`DocumentErasure`: `ErasedObjectsStayGone`, `NoObjectIsLost`,
`CompletionMeansErasure` and `LastErasureClosesRequest`; and `ErasureTypeCorrect`
and `SettledTombstonesStay`, which no run checks. Three invariants carry them:

- `Custody`: a handler between its update and its commit is alone on its
  tombstone, which still waits for it, and knows the request the tombstone is
  linked to, even one linked after the claim. Without it a late commit could
  overwrite a settled tombstone.
- `Ownership`: a document is removed exactly when it has a tombstone, and what a
  handler took for erased is stored only as an upload that outlived its row, or
  because its last answer was a 404 about something else.
- `Closing`: links are set once and only to documents that one open fulfilment
  may list (`Links`); what a handler saw under the request's lock stands until it
  commits (`Reconciled`); a visit of the verification link never carries
  "completed" (`Verification`). `CompletedRequestsAreErased` is not inductive
  without them: a handler decides on a request in one step and writes the
  decision in a later one.

`ApplicationIntakeProofs` proves `IntakeTypeCorrect` and, assuming `GraceHolds`,
`AcceptedStaysHeld` and `ReceiptsAreSpentRightly`, for all submissions, forms,
operators, hasty ones among them, and numbers of attempts. `BoundInv`, which
needs no assumption, binds calls, rows and replays to their receipts. `HeldInv`
says, of every receipt that is not `rushed`: the row of a call that uploads
stays, with its documents
as far as the call has brought them; a request that runs still has its receipt,
unless it expired; replays of a receipt come one at a time; an object the
reconciliation found missing stays missing; and once a receipt is spent its
application is complete. `AcceptedIsHeld` alone is not inductive: an answer is
given one step after its receipt is deleted, and what makes that safe was
decided several steps, and several actors, before.

`CandidateDocumentsProofs` proves, for every finite set of documents, all
requests and all bounds (`DocumentsAssumption`), `DocumentsTypeCorrect`,
`CapacityCorrect`, `ReadingsCurrentCorrect`, and, assuming `GraceHolds`,
`ObjectsCorrect` and `ParsesCorrect`:

- `Typed` adds to the types that a handler is never ahead of its task, `Grows`
  that tasks are numbered upwards and that what is over stays over; every fence
  rests on the two.
- `Counted`: who has counted holds the lock, and no row came since. Capacity
  follows, for the sum of a count and a reservation is what the code compares.
- `Untouched` and `Current`: nothing exists of a document before it is reserved,
  and the newest parse task has seen the last reset of its row.
- `Stored` and `Waiting` follow a document from hand to hand: at each stage of
  its request, its handlers and its tasks somebody knows of the object, or has
  the parse to queue. They are not inductive without the grace: finding 6.

`ApplicationNotificationsProofs` proves `NotificationTypeCorrect`,
`PendingCorrect`, `ReadingsCorrect` and, assuming `KeyIsCompared`,
`CompletedCorrect`, for any applications, digests, attempts and handlers. `Fenced`
says that a handler is not ahead of its message; hence what a handler that holds
a message has read accounts for what its write settles, for only pending messages
are joined: between its two queries, and after them, deliveries only leave, with
the applications they announce. `Mailed` says that what the provider took from a
handler is in the mail.

`CandidateMailProofs` proves `MailTypeCorrect`, `RejectionCorrect` and
`AcknowledgementCorrect` for any documents and bounds. `Counted` ties rejection
mails to transitions and to the requests that may still make one, `Received`
every place the acknowledgement may be in to the absence of pending uploads.

`GoogleCalendarProofs` proves `CalendarTypeCorrect`, `LineageCorrect`,
`CoverageCorrect` and `NewerAnswersCorrect` for any events and bounds. `Lineage`
says of what connection each token in the row or in a handler is, `Coverage` that
a synchronization which still counts has shown what it will not be told again,
has it before it, or left it out as over. `Freshness` says that what a
synchronization of the stored connection has listed is no older than what one of
another connection has shown.

Every safety property that a passing run checks is a theorem, and so are the
types of each module. Only model-checked is liveness, which is beyond the prover:
`SealedBatchesFinish`, `TombstonesSettle`, `UploadsSettle`,
`NothingStaysPartial`, `NothingWaitsForEver` and `MailsSettle`. What is proved is
proved of the models: the abstractions named above, and the assumptions
`GraceHolds` and `KeyIsCompared` where a theorem names them, are its limits.

## Not modelled

- Sign-in, SSO and permissions: the protocol is the library's (better-auth).
- Rate windows and concurrency slots: memory of one process, left to the plan.
- Analysis, parsing and the chatbot: their outcome is a choice in
  `CandidateDocuments` and `ProcessingQueue`, their content is text.
- Calendar events of interviews, Microsoft's calendar, the text of invitations.
- Paging over organizations: one organization is modelled, and the fairness of
  the claims assumes that its turn comes.
- Canary submissions and a disabled receipt store.
- Reads, pages, reports, seeds, configuration and start-up. They are most of the
  code by lines: pages and components of the user interface, queries and seed
  data keep no state that concurrent actors change, and there is no protocol in
  them to model.

## Plan

Done: the queue with its ledger and its transactions, erasure and privacy
requests, documents and their worker, intake and replay, notifications, candidate
mail and the Google connection; proofs of every safety property the passing runs
check, and of both refinements. Left, in this order:

1. The creation of calendar events, with the crash between provider and row.
2. Interviews and jobs with their status.
3. Rate windows, concurrency slots and retry delays against reference definitions.
