-------------------------- MODULE ApplicationIntake --------------------------
(***************************************************************************)
(* How a public application is taken in: api/public/jobs/[slug]/apply, its *)
(* encrypted recovery receipts (applicationIntakeRecovery*.ts), an owner's *)
(* replay of a receipt (api/application-intake-recovery/[receiptId]/replay *)
(* and applicationIntakeReplayState.ts), the roll-back of a failed         *)
(* submission, and the worker that reconciles uploads that never finished. *)
(*                                                                         *)
(* One applicant applies to one job, perhaps several times: the unique     *)
(* index of (organization, candidate, job) leaves room for one application *)
(* row.  A call is one execution of the apply handler: the call of a       *)
(* submission keeps a receipt of its own, the call an operator's replay    *)
(* makes is bound to the receipt that is replayed.                         *)
(***************************************************************************)
EXTENDS Naturals, FiniteSets

CONSTANTS
    Submission,  \* the applicant's requests; each names its receipt as well
    Operator,    \* executions of the replay handler
    Form,        \* per submission: the documents its form carries
    Asked,       \* per operator: the receipt its replay asks for
    None,
    MaxAttempts, \* processing_task.max_attempts of a reconciliation
    Hasty,       \* a bound: the operators that do not wait for a request or for
                 \* another replay of their receipt to end
    GraceHolds   \* a request has ended when its upload grace has run out

Call == Submission \cup Operator
Doc == UNION {Form[s] : s \in Submission}

Row == [by : Call, receipt : Submission,
        docs : UNION {[Form[s] -> {"pending", "completed"}] : s \in Submission}]

Accepted == {"created", "delayed"}   \* 201 and 202
Refused == {"rejected", "failed"}    \* 4xx, and 5xx without a receipt

ASSUME IntakeAssumption ==
    /\ Submission \cap Operator = {}
    /\ None \notin Call \cup Doc \cup Row \cup Accepted \cup Refused
    /\ DOMAIN Form = Submission
    /\ Asked \in [Operator -> Submission]
    /\ MaxAttempts \in Nat \ {0}
    /\ Hasty \subseteq Operator
    /\ GraceHolds \in BOOLEAN

VARIABLES
    application, \* the application row with its document rows, or None
    objects,     \* stored document objects, each named by its call and document
    receipts,    \* submissions whose encrypted receipt is in storage
    expired,     \* submissions whose receipt is past its expires_at
    call,        \* per call: where the apply handler is
    answer,      \* per call: what it answered, None before
    replay,      \* per operator: where the replay handler is
    rushed,      \* history: receipts that an operator loaded while their request
                 \* or another replay of them was running
    probe,       \* the reconciliation that has seen a missing object, or None
    attempts     \* per document of the row: attempt_count of its reconciliation

callVars == <<call, answer>>
storeVars == <<receipts, expired>>
replayVars == <<replay, rushed>>
workVars == <<probe, attempts>>
vars == <<application, objects, storeVars, callVars, replayVars, workVars>>

Idle == [at |-> "idle", receipt |-> None, doc |-> None, left |-> {}]
Ended == [Idle EXCEPT !.at = "ended"]
AtRest == [at |-> "idle", receipt |-> None, target |-> None, keys |-> {}]
Over == [AtRest EXCEPT !.at = "ended"]

-----------------------------------------------------------------------------
(* What the handlers read. *)

Running(c) == call[c].at \notin {"idle", "ended"}

FormOf(c) == Form[call[c].receipt]

Completed(app) == \A d \in DOMAIN app.docs : app.docs[d] = "completed"

BoundTo(s) == application # None /\ application.receipt = s

\* The row of call c: another call may have replaced it by its own.
HasRow(c) == application # None /\ application.by = c

Busy(o) == replay[o].at \notin {"idle", "ended"}

End(c, result) ==
    /\ call' = [call EXCEPT ![c] = Ended]
    /\ answer' = [answer EXCEPT ![c] = result]

\* A deletion from storage may fail: what is left of set S without X.
Deleted(S, X) == {S \ Y : Y \in SUBSET X}

Init ==
    /\ application = None
    /\ objects = {}
    /\ receipts = {}
    /\ expired = {}
    /\ call = [c \in Call |-> Idle]
    /\ answer = [c \in Call |-> None]
    /\ replay = [o \in Operator |-> AtRest]
    /\ rushed = {}
    /\ probe = None
    /\ attempts = [d \in Doc |-> 0]

-----------------------------------------------------------------------------
(* The apply handler. *)

\* createApplicationIntakeReceipt, before the first database read.
Buffer(s) ==
    /\ call[s].at = "idle"
    /\ call' = [call EXCEPT ![s] = [Idle EXCEPT !.at = "buffered", !.receipt = s]]
    /\ receipts' = receipts \cup {s}
    /\ UNCHANGED <<application, objects, expired, answer, replayVars, workVars>>

\* The receipt cannot be stored: 503, nothing is kept.
BufferFails(s) ==
    /\ call[s].at = "idle"
    /\ End(s, "failed")
    /\ UNCHANGED <<application, objects, storeVars, replayVars, workVars>>

\* The job is gone, an answer is missing, the document limit is reached: 4xx.
\* A submission takes its receipt back with it; that deletion may fail.
Reject(c) ==
    /\ call[c].at = "buffered"
    /\ End(c, "rejected")
    /\ receipts' \in (IF c \in Submission THEN Deleted(receipts, {c}) ELSE {receipts})
    /\ UNCHANGED <<application, objects, expired, replayVars, workVars>>

\* An error that is no 4xx.  A submission that holds a receipt answers 202.
Break(c) ==
    /\ call[c].at \in {"buffered", "storing", "finalizing", "finishing"}
    /\ End(c, IF c \in Submission THEN "delayed" ELSE "failed")
    /\ UNCHANGED <<application, objects, storeVars, replayVars, workVars>>

\* createPublicApplication: the row, its pending documents and their
\* reconciliation tasks in one transaction.
Create(c) ==
    /\ call[c].at = "buffered"
    /\ application = None
    /\ application' = [by |-> c, receipt |-> call[c].receipt,
                       docs |-> [d \in FormOf(c) |-> "pending"]]
    /\ call' = [call EXCEPT ![c].left = FormOf(c),
                            ![c].at = IF FormOf(c) = {} THEN "finishing" ELSE "storing"]
    /\ attempts' = [d \in Doc |-> 0]
    /\ UNCHANGED <<objects, storeVars, answer, replayVars, probe>>

\* The unique index turns the insert into DuplicatePublicApplicationError: 409.
Duplicate(c) ==
    /\ call[c].at = "buffered"
    /\ application # None
    /\ End(c, "rejected")
    /\ receipts' \in (IF c \in Submission THEN Deleted(receipts, {c}) ELSE {receipts})
    /\ UNCHANGED <<application, objects, expired, replayVars, workVars>>

\* uploadToS3 of the next planned document, outside any transaction.
Store(c, d) ==
    /\ call[c].at = "storing"
    /\ d \in call[c].left
    /\ objects' = objects \cup {<<c, d>>}
    /\ call' = [call EXCEPT ![c].at = "finalizing", ![c].doc = d,
                            ![c].left = call[c].left \ {d}]
    /\ UNCHANGED <<application, storeVars, answer, replayVars, workVars>>

\* uploadToS3 throws; storage may hold the object all the same.
StoreFails(c, d) ==
    /\ call[c].at = "storing"
    /\ d \in call[c].left
    /\ objects' \in {objects, objects \cup {<<c, d>>}}
    /\ call' = [call EXCEPT ![c].at = "undoing", ![c].left = call[c].left \ {d}]
    /\ UNCHANGED <<application, storeVars, answer, replayVars, workVars>>

\* finalizeCandidateDocumentUpload; without its row it throws, which is Break.
\* A document the reconciliation completed first is accepted.
Finalize(c) ==
    /\ call[c].at = "finalizing"
    /\ HasRow(c)
    /\ application' = [application EXCEPT !.docs[call[c].doc] = "completed"]
    /\ call' = [call EXCEPT ![c].doc = None,
                            ![c].at = IF call[c].left = {} THEN "finishing" ELSE "storing"]
    /\ UNCHANGED <<objects, storeVars, answer, replayVars, workVars>>

\* Mutant: the receipt is deleted although the roll-back follows an upload
\* that failed.
UndoAndForget(c) ==
    /\ call[c].at = "undoing"
    /\ application' = IF HasRow(c) THEN None ELSE application
    /\ objects' \in Deleted(objects, {c} \X (FormOf(c) \ call[c].left))
    /\ End(c, IF c \in Submission THEN "delayed" ELSE "failed")
    /\ receipts' = receipts \ {c}
    /\ UNCHANGED <<expired, replayVars, workVars>>

\* rollbackPublicApplicationSubmission after a failed upload: the rows in one
\* transaction, then the objects tried so far; the error that follows is a 5xx.
Undo(c) ==
    /\ call[c].at = "undoing"
    /\ \/ /\ application' = IF HasRow(c) THEN None ELSE application
          /\ objects' \in Deleted(objects, {c} \X (FormOf(c) \ call[c].left))
       \/ UNCHANGED <<application, objects>>
    /\ End(c, IF c \in Submission THEN "delayed" ELSE "failed")
    /\ UNCHANGED <<storeVars, replayVars, workVars>>

\* Every document is completed: the receipt goes, which may fail; 201.
Finish(c) ==
    /\ call[c].at = "finishing"
    /\ End(c, "created")
    /\ receipts' \in (IF c \in Submission THEN Deleted(receipts, {c}) ELSE {receipts})
    /\ UNCHANGED <<application, objects, expired, replayVars, workVars>>

\* The process stops: no answer, and nothing more of this call.
Crash(c) ==
    /\ Running(c)
    /\ call' = [call EXCEPT ![c] = Ended]
    /\ UNCHANGED <<application, objects, storeVars, answer, replayVars, workVars>>

-----------------------------------------------------------------------------
(* An operator replays a receipt. *)

\* Nothing keeps an operator from replaying a receipt whose request still runs,
\* or that another operator is replaying.
InUse(s) == Running(s) \/ \E o \in Operator : Busy(o) /\ replay[o].receipt = s

\* loadOwnedApplicationIntakeReceipt and the 410 of an expired one.
Load(o) ==
    /\ replay[o].at = "idle"
    /\ Asked[o] \in receipts \ expired
    /\ InUse(Asked[o]) => o \in Hasty
    /\ replay' = [replay EXCEPT ![o].at = "loaded", ![o].receipt = Asked[o]]
    /\ rushed' = IF InUse(Asked[o]) THEN rushed \cup {Asked[o]} ELSE rushed
    /\ UNCHANGED <<application, objects, storeVars, callVars, workVars>>

\* prepareApplicationIntakeReplay looks the receipt's application up: an
\* application without documents counts as one that was never completed.
Inspect(o) ==
    /\ replay[o].at = "loaded"
    /\ LET done == /\ DOMAIN application.docs # {}
                   /\ Completed(application)
       IN  IF BoundTo(replay[o].receipt)
           THEN replay' = [replay EXCEPT ![o].at = IF done THEN "settling" ELSE "clearing",
                                         ![o].target = application.by,
                                         ![o].keys = DOMAIN application.docs]
           ELSE replay' = [replay EXCEPT ![o].at = "ready"]
    /\ UNCHANGED <<application, objects, storeVars, callVars, rushed, workVars>>

\* The roll-back of what a former call left: rows, then objects.  If either
\* fails the replay throws; only a clean sweep lets it go on.
Clear(o) ==
    /\ replay[o].at = "clearing"
    /\ LET keys == {replay[o].target} \X replay[o].keys
       IN  \/ /\ application' = IF HasRow(replay[o].target) THEN None ELSE application
              /\ objects' \in Deleted(objects, keys)
              /\ replay' = [replay EXCEPT ![o] =
                     IF objects' \cap keys = {}
                     THEN [AtRest EXCEPT !.at = "ready", !.receipt = replay[o].receipt]
                     ELSE Over]
           \/ /\ replay' = [replay EXCEPT ![o] = Over]
              /\ UNCHANGED <<application, objects>>
    /\ UNCHANGED <<storeVars, callVars, rushed, workVars>>

\* replayApplicationIntakeEnvelope posts the envelope to the apply handler.
Post(o) ==
    /\ replay[o].at = "ready"
    /\ replay' = [replay EXCEPT ![o].at = "posted"]
    /\ call' = [call EXCEPT ![o] = [Idle EXCEPT !.at = "buffered",
                                                !.receipt = replay[o].receipt]]
    /\ UNCHANGED <<application, objects, storeVars, answer, rushed, workVars>>

\* Mutant: a 409 is taken to say that the application is there already.
TakeDuplicate(o) ==
    /\ replay[o].at = "posted"
    /\ answer[o] # None
    /\ IF answer[o] \in {"created", "rejected"}
       THEN replay' = [replay EXCEPT ![o].at = "settling"]
       ELSE replay' = [replay EXCEPT ![o] = Over]
    /\ UNCHANGED <<application, objects, storeVars, callVars, rushed, workVars>>

\* Only a 201 completes the replay.
TakeAnswer(o) ==
    /\ replay[o].at = "posted"
    /\ answer[o] # None
    /\ IF answer[o] = "created"
       THEN replay' = [replay EXCEPT ![o].at = "settling"]
       ELSE replay' = [replay EXCEPT ![o] = Over]
    /\ UNCHANGED <<application, objects, storeVars, callVars, rushed, workVars>>

\* The receipt is spent; its deletion may fail.
Settle(o) ==
    /\ replay[o].at = "settling"
    /\ receipts' \in Deleted(receipts, {replay[o].receipt})
    /\ replay' = [replay EXCEPT ![o] = Over]
    /\ UNCHANGED <<application, objects, expired, callVars, rushed, workVars>>

\* 30 s without an answer, or the process stops: the posted call goes on.
GiveUp(o) ==
    /\ Busy(o)
    /\ replay' = [replay EXCEPT ![o] = Over]
    /\ UNCHANGED <<application, objects, storeVars, callVars, rushed, workVars>>

-----------------------------------------------------------------------------
(* The recruiting worker reconciles uploads; retention. *)

Eligible == GraceHolds => ~Running(application.by)

\* claimTasks hands out the reconciliation of a document that is pending: the
\* claim counts as an attempt, and there are MaxAttempts of them.
Claim(d) ==
    /\ application # None
    /\ d \in DOMAIN application.docs
    /\ application.docs[d] = "pending"
    /\ attempts[d] < MaxAttempts
    /\ attempts' = [attempts EXCEPT ![d] = attempts[d] + 1]

\* Mutant: a claim that finds no object does not count.
SeeMissingUncounted(d) ==
    /\ probe = None
    /\ application # None
    /\ d \in DOMAIN application.docs
    /\ application.docs[d] = "pending"
    /\ attempts[d] < MaxAttempts
    /\ Eligible
    /\ <<application.by, d>> \notin objects
    /\ probe' = application.by
    /\ UNCHANGED <<application, objects, storeVars, callVars, replayVars, attempts>>

\* processUploadReconciliationTask finds the object of a pending document.
Reconcile(d) ==
    /\ Claim(d) /\ Eligible
    /\ <<application.by, d>> \in objects
    /\ application' = [application EXCEPT !.docs[d] = "completed"]
    /\ UNCHANGED <<objects, storeVars, callVars, replayVars, probe>>

\* It finds no object; what it does about it is a later transaction.
SeeMissing(d) ==
    /\ probe = None
    /\ Claim(d) /\ Eligible
    /\ <<application.by, d>> \notin objects
    /\ probe' = application.by
    /\ UNCHANGED <<application, objects, storeVars, callVars, replayVars>>

\* The attempt fails: it came too early, the store or the parser did not answer,
\* or the worker stopped and its lease ran out.
FailAttempt(d) ==
    /\ Claim(d)
    /\ UNCHANGED <<application, objects, storeVars, callVars, replayVars, probe>>

\* rollbackMissingUpload: the application and all its documents go, whatever
\* became of the upload since.  The roll-backs cancel its task, then it is
\* stale; finalizeCandidateDocumentUpload leaves a claimed task alone.
RollbackMissing ==
    /\ probe # None
    /\ probe' = None
    /\ IF HasRow(probe)
       THEN /\ application' = None
            /\ objects' \in Deleted(objects, {probe} \X DOMAIN application.docs)
       ELSE UNCHANGED <<application, objects>>
    /\ UNCHANGED <<storeVars, callVars, replayVars, attempts>>

\* That transaction fails, or the worker stops before it.
FailRollback ==
    /\ probe # None
    /\ probe' = None
    /\ UNCHANGED <<application, objects, storeVars, callVars, replayVars, attempts>>

Expire(s) ==
    /\ s \in receipts \ expired
    /\ expired' = expired \cup {s}
    /\ UNCHANGED <<application, objects, receipts, callVars, replayVars, workVars>>

\* purgeExpiredApplicationIntakeReceipts; a deletion that fails changes nothing.
Purge(s) ==
    /\ s \in receipts \cap expired
    /\ receipts' = receipts \ {s}
    /\ UNCHANGED <<application, objects, expired, callVars, replayVars, workVars>>

-----------------------------------------------------------------------------
CallStep(c) ==
    \/ Reject(c) \/ Break(c) \/ Create(c) \/ Duplicate(c)
    \/ \E d \in Doc : Store(c, d) \/ StoreFails(c, d)
    \/ Finalize(c) \/ Undo(c) \/ Finish(c) \/ Crash(c)

ReplayStep(o) ==
    \/ Load(o) \/ Inspect(o) \/ Clear(o) \/ Post(o) \/ TakeAnswer(o) \/ Settle(o) \/ GiveUp(o)

ReconcileStep ==
    \/ RollbackMissing \/ FailRollback
    \/ \E d \in Doc : Reconcile(d) \/ SeeMissing(d) \/ FailAttempt(d)

Next ==
    \/ \E s \in Submission : Buffer(s) \/ BufferFails(s)
    \/ \E c \in Call : CallStep(c)
    \/ \E o \in Operator : ReplayStep(o)
    \/ ReconcileStep
    \/ \E s \in Submission : Expire(s) \/ Purge(s)

\* A call that runs goes on or stops; the worker polls, and each attempt ends:
\* that it ends well is not assumed.
Fairness ==
    /\ \A c \in Call : WF_vars(CallStep(c))
    /\ WF_vars(ReconcileStep)

Spec == Init /\ [][Next]_vars /\ Fairness

-----------------------------------------------------------------------------
CallState == [at : {"idle", "buffered", "storing", "finalizing", "undoing",
                    "finishing", "ended"},
              receipt : Submission \cup {None},
              doc : Doc \cup {None},
              left : SUBSET Doc]
ReplayState == [at : {"idle", "loaded", "clearing", "ready", "posted",
                      "settling", "ended"},
                receipt : Submission \cup {None},
                target : Call \cup {None},
                keys : SUBSET Doc]

StateOK ==
    /\ application \in Row \cup {None}
    /\ objects \subseteq Call \X Doc
    /\ receipts \subseteq Submission
    /\ expired \subseteq Submission
    /\ call \in [Call -> CallState]
    /\ answer \in [Call -> {None} \cup Accepted \cup Refused]
    /\ replay \in [Operator -> ReplayState]
    /\ probe \in Call \cup {None}

TypeOK ==
    /\ StateOK
    /\ rushed \subseteq Submission
    /\ attempts \in [Doc -> 0..MaxAttempts]

\* An applicant who was told "received" (201 or 202) is never forgotten: until
\* the receipt expires there is an application bound to the submission, or the
\* receipt an operator can replay.  Only replays of that very receipt that
\* overlap its request or each other can break this (AcceptedIsAlwaysHeld);
\* those of other receipts of the applicant cannot.
AcceptedIsHeld ==
    \A s \in Submission :
        answer[s] \in Accepted /\ s \notin expired \cup rushed
            => BoundTo(s) \/ s \in receipts

\* A receipt leaves storage only when it has expired, when the submission is
\* refused to the applicant, or when its application is complete: docs/CLI.md,
\* "only after completion or a verified already-completed application"; with
\* the same exception.
ReceiptsAreSpent ==
    [][\A s \in receipts \ receipts' :
           \/ s \in expired \cup rushed
           \/ answer'[s] = "rejected"
           \/ BoundTo(s) /\ Completed(application)]_vars

\* The reconciliation of document d has used up its attempts.
GivenUp(d) == attempts[d] = MaxAttempts /\ probe = None

\* A call that stops half-way leaves no half an application: the worker
\* completes its documents or takes it back, unless every attempt at each
\* document that is still pending failed.
NothingStaysPartial ==
    (application # None /\ ~Completed(application))
        ~> \/ application = None
           \/ \A d \in DOMAIN application.docs :
                  application.docs[d] = "pending" => GivenUp(d)

\* docs/CLI.md, "only after completion or a verified already-completed
\* application", whatever operators do.  The code violates it: a replay checks
\* and clears without a lock, and may find its own application cleared by
\* another replay when it deletes the receipt.
AcceptedIsAlwaysHeld ==
    \A s \in Submission :
        answer[s] \in Accepted /\ s \notin expired => BoundTo(s) \/ s \in receipts

\* docs/operations/PRODUCTION-RUNBOOK.md: a replay "accepts a fully completed
\* application" and removes only a partial one.  The code violates it with a
\* Form without documents (JustNone): no document, not completed.
CompletedSurvivesReplay ==
    [][\A s \in Submission, o \in Operator :
           answer[s] = "created" /\ BoundTo(s) /\ Completed(application)
               => ~(replay[o].at = "clearing" /\ replay'[o].at = "ready")]_vars
=============================================================================
