--------------------------- MODULE DocumentErasure ---------------------------
(***************************************************************************)
(* Private documents and their erasure: document rows and the objects they *)
(* own in storage (uploads, deletions, the delete trigger of migration     *)
(* 0067), the tombstones of server/utils/documentErasureQueue.ts, the      *)
(* handlers of processDocumentErasures.ts that erase the objects, and the  *)
(* privacy requests that wait for them (privacyRequests.ts and the         *)
(* handlers under api/privacy-requests).                                   *)
(*                                                                         *)
(* Transactions that wait for each other are split at the locks they take: *)
(* the privacy_request row and the tombstone row.  The others are one      *)
(* action.  A lease is either running or past: it may run out at any time. *)
(***************************************************************************)
EXTENDS Naturals

CONSTANTS
    Key,         \* storage keys, one per document row
    Candidate,   \* candidate rows
    Owner,       \* per key: the candidate of its document
    Stored,      \* keys of documents that are uploaded before the behaviour
    Request,     \* privacy requests
    Requester,   \* per request: the candidates with the requester's email, at
                 \* most one in each organization that may fulfil the request
    Worker,      \* processes that run erasure cycles: plugins and admin drains
    Visitor,     \* concurrent visits of a verification link
    Decision,    \* statuses reviewers set: of in_review, denied, cancelled
    MaxAttempts, \* document_erasure_queue.max_attempts
    None

Settled == {"completed", "failed"}
TombstoneStatus == {"pending", "processing"} \cup Settled
Terminal == {"completed", "denied", "cancelled"}
RequestStatus == {"submitted", "verified", "in_review"} \cup Terminal

ASSUME ErasureAssumption ==
    /\ Owner \in [Key -> Candidate]
    /\ Requester \in [Request -> SUBSET Candidate]
    /\ Stored \subseteq Key
    /\ Decision \subseteq {"in_review", "denied", "cancelled"}
    /\ MaxAttempts \in Nat \ {0}
    /\ None \notin Candidate \cup Request \cup TombstoneStatus \cup RequestStatus

VARIABLES
    candidate, \* per candidate: whether its row exists
    document,  \* per key: "new", then "owned" by a row, then "removed"
    upload,    \* per key: where the handler that uploads it is
    object,    \* per key: whether storage holds the object
    stray,     \* per key: history, the object arrived after its row was removed
    misread,   \* per key: history, a 404 about something else passed for its absence
    status,    \* per key: the status of its tombstone, None without one
    attempts,  \* per key: attempt_count of the tombstone
    leased,    \* per key: whether its lease still runs
    link,      \* per key: privacy_request_id of the tombstone
    handler,   \* per worker and key: the handler of a claimed tombstone
    rstatus,   \* per request: its status, None before it is submitted
    verified,  \* per request: whether verified_at is set
    visit,     \* per request and visitor: the status it read, None when done
    fulfilling,\* per request: the candidate its open fulfilment locks, or None
    listing,   \* per request: the documents its open fulfilment found
    promised   \* per request: history, the documents of its fulfilments

storageVars == <<candidate, document, upload, object, stray, misread>>
tombstoneVars == <<status, attempts, leased, link>>
requestVars == <<rstatus, verified, visit, fulfilling, listing, promised>>
vars == <<storageVars, tombstoneVars, handler, requestVars>>

Idle == [at |-> "idle", attempt |-> 0, request |-> None, outcome |-> None]

-----------------------------------------------------------------------------
(* Locks, the fence, and what the statements read. *)

\* Mutant: the request row is read without FOR UPDATE.
ReadWithoutLock(r) == fulfilling[r] = None

\* Nobody holds the row lock of request r.
RequestIsFree(r) ==
    /\ fulfilling[r] = None
    /\ \A w \in Worker, k \in Key :
           handler[w][k].at = "reconciled" => handler[w][k].request # r

\* A handler locks its tombstone from its update to its commit.
LocksRow(w, k) == handler[w][k].at \in {"completing", "reconciled"}

RowIsFree(k) == \A w \in Worker : ~LocksRow(w, k)

\* The rows of candidate c are locked by a fulfilment.
CandidateIsFree(c) == \A r \in Request : fulfilling[r] # c

\* Mutant: the fence compares the attempt only.
SameAttempt(k, a) == attempts[k] = a

\* The condition of every update by a claimed handler.
HoldsLease(k, a) == status[k] = "processing" /\ attempts[k] = a /\ leased[k]

Exhausted(k) ==
    /\ status[k] = "processing" /\ ~leased[k]
    /\ attempts[k] >= MaxAttempts
    /\ RowIsFree(k)

\* Mutant: leases that ran out are claimed again without end.
ClaimableForever(k) ==
    /\ \/ status[k] = "pending"
       \/ status[k] = "processing" /\ ~leased[k]
    /\ RowIsFree(k)

\* Mutant: a lease that ran out is not claimed again.
ClaimableOnce(k) ==
    /\ attempts[k] < MaxAttempts
    /\ status[k] = "pending"
    /\ RowIsFree(k)

Claimable(k) ==
    /\ attempts[k] < MaxAttempts
    /\ \/ status[k] = "pending"
       \/ status[k] = "processing" /\ ~leased[k]
    /\ RowIsFree(k)

DocumentsOf(c) == {k \in Key : Owner[k] = c /\ document[k] = "owned"}

\* Mutant: an existing tombstone keeps its missing privacy request.
KeepLink(K, r) ==
    link' = [k \in Key |-> IF k \in K /\ status[k] = None THEN r ELSE link[k]]

\* enqueueDocumentErasure on conflict: only a missing privacy request is set.
AdoptLink(K, r) ==
    link' = [k \in Key |-> IF k \in K /\ link[k] = None THEN r ELSE link[k]]

\* Rows for the keys K that have none: enqueueDocumentErasure, and the
\* trigger document_enqueue_erasure_after_delete for every removed document.
Bury(K) ==
    status' = [k \in Key |->
                  IF k \in K /\ status[k] = None THEN "pending" ELSE status[k]]

\* Mutant: a removed document leaves no tombstone.
RemoveOnly(K) ==
    /\ document' = [k \in Key |-> IF k \in K THEN "removed" ELSE document[k]]
    /\ UNCHANGED status

\* Remove the document rows K: the trigger buries them.
Remove(K) ==
    /\ document' = [k \in Key |-> IF k \in K THEN "removed" ELSE document[k]]
    /\ Bury(K)

\* The privacy request a completion is reconciled with: the link that the
\* update returned, else the one that was claimed.
LinkOf(w, k) == IF link[k] # None THEN link[k] ELSE handler[w][k].request

\* The tombstones request r still waits for, k counted as completed.
Unfinished(r, k) == {j \in Key \ {k} : link[j] = r /\ status[j] # "completed"}

Step(w, k, h) == handler' = [handler EXCEPT ![w][k] = h]

-----------------------------------------------------------------------------
Init ==
    /\ candidate = [c \in Candidate |-> TRUE]
    /\ document = [k \in Key |-> IF k \in Stored THEN "owned" ELSE "new"]
    /\ upload = [k \in Key |-> IF k \in Stored THEN "ended" ELSE "none"]
    /\ object = [k \in Key |-> k \in Stored]
    /\ stray = [k \in Key |-> FALSE]
    /\ misread = [k \in Key |-> FALSE]
    /\ status = [k \in Key |-> None]
    /\ attempts = [k \in Key |-> 0]
    /\ leased = [k \in Key |-> FALSE]
    /\ link = [k \in Key |-> None]
    /\ handler = [w \in Worker |-> [k \in Key |-> Idle]]
    /\ rstatus = [r \in Request |-> None]
    /\ verified = [r \in Request |-> FALSE]
    /\ visit = [r \in Request |-> [v \in Visitor |-> None]]
    /\ fulfilling = [r \in Request |-> None]
    /\ listing = [r \in Request |-> {}]
    /\ promised = [r \in Request |-> {}]

(* Documents: api/candidates/[id]/documents, documentDeletion.ts *)

\* reserveCandidateDocument: the insert waits for a lock on its candidate.
ReserveDocument(k) ==
    /\ document[k] = "new"
    /\ candidate[Owner[k]] /\ CandidateIsFree(Owner[k])
    /\ document' = [document EXCEPT ![k] = "owned"]
    /\ upload' = [upload EXCEPT ![k] = "running"]
    /\ UNCHANGED <<candidate, object, stray, misread, tombstoneVars, handler, requestVars>>

\* uploadToS3 stores the object; its answer may still be an error.
PutObject(k) ==
    /\ upload[k] = "running"
    /\ object' = [object EXCEPT ![k] = TRUE]
    /\ stray' = [stray EXCEPT ![k] = document[k] = "removed"]
    /\ \E next \in {"ended", "failed"} : upload' = [upload EXCEPT ![k] = next]
    /\ UNCHANGED <<candidate, document, misread, tombstoneVars, handler, requestVars>>

\* uploadToS3 fails, or its process stops.
LoseUpload(k) ==
    /\ upload[k] = "running"
    /\ \E next \in {"ended", "failed"} : upload' = [upload EXCEPT ![k] = next]
    /\ UNCHANGED <<candidate, document, object, stray, misread, tombstoneVars, handler, requestVars>>

\* rollbackCandidateDocumentUpload: first the row, unless that fails ...
DeleteReservedDocument(k) ==
    /\ upload[k] = "failed"
    /\ \/ /\ document[k] = "owned" /\ Remove({k})
          /\ upload' = [upload EXCEPT ![k] = "cleanup"]
       \/ /\ document[k] = "removed" /\ UNCHANGED <<document, status>>
          /\ upload' = [upload EXCEPT ![k] = "cleanup"]
       \/ /\ UNCHANGED <<document, status>>
          /\ upload' = [upload EXCEPT ![k] = "ended"]
    /\ UNCHANGED <<candidate, object, stray, misread, attempts, leased, link, handler, requestVars>>

\* ... then the object, a failure of which is logged.
DeleteStorageObject(k) ==
    /\ upload[k] = "cleanup"
    /\ \E kept \in {FALSE, object[k]} : object' = [object EXCEPT ![k] = kept]
    /\ upload' = [upload EXCEPT ![k] = "ended"]
    /\ UNCHANGED <<candidate, document, stray, misread, tombstoneVars, handler, requestVars>>

DeleteDocument(k) ==
    /\ document[k] = "owned"
    /\ Remove({k})
    /\ UNCHANGED <<candidate, upload, object, stray, misread, attempts, leased, link,
                   handler, requestVars>>

\* api/candidates/[id].delete.ts: the documents go with their candidate.
DeleteCandidate(c) ==
    /\ candidate[c] /\ CandidateIsFree(c)
    /\ candidate' = [candidate EXCEPT ![c] = FALSE]
    /\ Remove(DocumentsOf(c))
    /\ UNCHANGED <<upload, object, stray, misread, attempts, leased, link, handler, requestVars>>

(* Privacy requests: api/privacy-requests *)

SubmitRequest(r) ==
    /\ rstatus[r] = None
    /\ rstatus' = [rstatus EXCEPT ![r] = "submitted"]
    /\ UNCHANGED <<storageVars, tombstoneVars, handler, verified, visit, fulfilling,
                   listing, promised>>

\* verify.get.ts reads the request by its token ...
ReadForVerification(r, v) ==
    /\ rstatus[r] # None /\ ~verified[r]
    /\ visit[r][v] = None
    /\ visit' = [visit EXCEPT ![r][v] = rstatus[r]]
    /\ UNCHANGED <<storageVars, tombstoneVars, handler, rstatus, verified, fulfilling,
                   listing, promised>>

\* ... and writes back a status it derives from what it read.
VerifyRequest(r, v) ==
    /\ visit[r][v] # None
    /\ RequestIsFree(r)
    /\ rstatus' = [rstatus EXCEPT ![r] =
                      IF visit[r][v] = "submitted" THEN "verified" ELSE visit[r][v]]
    /\ verified' = [verified EXCEPT ![r] = TRUE]
    /\ visit' = [visit EXCEPT ![r][v] = None]
    /\ UNCHANGED <<storageVars, tombstoneVars, handler, fulfilling, listing, promised>>

\* [id].patch.ts: its update is conditional on the status it checked.
PatchRequest(r, next) ==
    /\ rstatus[r] \in RequestStatus \ Terminal
    /\ RequestIsFree(r)
    /\ rstatus' = [rstatus EXCEPT ![r] = next]
    /\ UNCHANGED <<storageVars, tombstoneVars, handler, verified, visit, fulfilling,
                   listing, promised>>

\* deleteCandidatePersonalDataForPrivacyRequest: lock the request and the
\* candidate, check them, list the documents ...
BeginFulfilment(r, c) ==
    /\ rstatus[r] \in RequestStatus \ Terminal
    /\ verified[r]
    /\ RequestIsFree(r)
    /\ c \in Requester[r] /\ candidate[c] /\ CandidateIsFree(c)
    /\ fulfilling' = [fulfilling EXCEPT ![r] = c]
    /\ listing' = [listing EXCEPT ![r] = DocumentsOf(c)]
    /\ UNCHANGED <<storageVars, tombstoneVars, handler, rstatus, verified, visit,
                   promised>>

\* ... then enqueue their erasure, delete the candidate, reconcile, commit.
FinishFulfilment(r) ==
    LET keys == listing[r]
    IN  /\ fulfilling[r] # None
        /\ \A k \in keys : RowIsFree(k)
        /\ AdoptLink(keys, r)
        /\ Remove(keys)
        /\ candidate' = [candidate EXCEPT ![fulfilling[r]] = FALSE]
        /\ rstatus' = [rstatus EXCEPT ![r] =
                          IF \A k \in Key : link'[k] = r => status'[k] = "completed"
                          THEN "completed" ELSE "in_review"]
        /\ fulfilling' = [fulfilling EXCEPT ![r] = None]
        /\ listing' = [listing EXCEPT ![r] = {}]
        /\ promised' = [promised EXCEPT ![r] = @ \cup keys]
        /\ UNCHANGED <<upload, object, stray, misread, attempts, leased, handler,
                       verified, visit>>

AbortFulfilment(r) ==
    /\ fulfilling[r] # None
    /\ fulfilling' = [fulfilling EXCEPT ![r] = None]
    /\ listing' = [listing EXCEPT ![r] = {}]
    /\ UNCHANGED <<storageVars, tombstoneVars, handler, rstatus, verified, visit,
                   promised>>

(* Erasure cycles: documentErasureQueue.ts, processDocumentErasures.ts *)

\* claimDocumentErasures, at the start of a cycle: cycles do not overlap.
ClaimErasures(w, E, C) ==
    /\ E \cup C # {}
    /\ \A k \in Key : handler[w][k] = Idle
    /\ \A k \in E : Exhausted(k)
    /\ \A k \in C : Claimable(k)
    /\ status' = [k \in Key |-> IF k \in E THEN "failed"
                                ELSE IF k \in C THEN "processing" ELSE status[k]]
    /\ attempts' = [k \in Key |-> IF k \in C THEN attempts[k] + 1 ELSE attempts[k]]
    /\ leased' = [k \in Key |-> k \in C \/ leased[k]]
    /\ handler' = [handler EXCEPT ![w] = [k \in Key |->
           IF k \in C THEN [at |-> "deleting", attempt |-> attempts[k] + 1,
                            request |-> link[k], outcome |-> None]
           ELSE Idle]]
    /\ UNCHANGED <<link, storageVars, requestVars>>

LeaseRunsOut(k) ==
    /\ leased[k]
    /\ leased' = [leased EXCEPT ![k] = FALSE]
    /\ UNCHANGED <<status, attempts, link, handler, storageVars, requestVars>>

\* The answer says that the object is gone.
ConfirmAbsence(w, k) ==
    /\ object' = [object EXCEPT ![k] = FALSE]
    /\ misread' = [misread EXCEPT ![k] = FALSE]
    /\ Step(w, k, [handler[w][k] EXCEPT !.at = "erased"])

\* The answer is an error; the object may be gone all the same.
MeetError(w, k, next) ==
    /\ \E kept \in {FALSE, object[k]} : object' = [object EXCEPT ![k] = kept]
    /\ Step(w, k, [handler[w][k] EXCEPT !.at = next])
    /\ UNCHANGED misread

\* isMissingDocumentObject: any 404 passes for absence, also one that says
\* that the bucket is missing and nothing of the object.
MisreadAbsence(w, k) ==
    /\ misread' = [misread EXCEPT ![k] = object[k]]
    /\ Step(w, k, [handler[w][k] EXCEPT !.at = "erased"])
    /\ UNCHANGED object

\* Mutant: an error that is no 404 is taken for absence too.
ErrorAsAbsence(w, k) ==
    /\ handler[w][k].at = "deleting"
    /\ ConfirmAbsence(w, k) \/ MisreadAbsence(w, k) \/ MeetError(w, k, "erased")
    /\ UNCHANGED <<candidate, document, upload, stray, tombstoneVars, requestVars>>

\* deleteFromS3, and what processDocumentErasureCycle takes its answer for.
DeleteObject(w, k) ==
    /\ handler[w][k].at = "deleting"
    /\ ConfirmAbsence(w, k) \/ MisreadAbsence(w, k) \/ MeetError(w, k, "error")
    /\ UNCHANGED <<candidate, document, upload, stray, tombstoneVars, requestVars>>

\* recordDocumentErasureFailure: a stale lease changes nothing.
RecordFailure(w, k) ==
    LET a == handler[w][k].attempt
    IN  /\ handler[w][k].at = "error"
        /\ RowIsFree(k)
        /\ IF HoldsLease(k, a)
           THEN /\ status' = [status EXCEPT ![k] =
                                 IF a >= MaxAttempts THEN "failed" ELSE "pending"]
                /\ leased' = [leased EXCEPT ![k] = FALSE]
           ELSE UNCHANGED <<status, leased>>
        /\ Step(w, k, Idle)
        /\ UNCHANGED <<attempts, link, storageVars, requestVars>>

\* completeDocumentErasure, the update in the completion transaction.
CompleteErasure(w, k) ==
    /\ handler[w][k].at = "erased"
    /\ RowIsFree(k)
    /\ IF HoldsLease(k, handler[w][k].attempt)
       THEN Step(w, k, [handler[w][k] EXCEPT !.at = "completing",
                                             !.request = LinkOf(w, k)])
       ELSE Step(w, k, Idle)
    /\ UNCHANGED <<storageVars, tombstoneVars, requestVars>>

\* reconcilePrivacyRequestErasureCompletionInTransaction: lock, then look.
ReconcilePrivacy(w, k) ==
    LET r == handler[w][k].request
    IN  /\ handler[w][k].at = "completing" /\ r # None
        /\ RequestIsFree(r)
        /\ Step(w, k, [handler[w][k] EXCEPT !.at = "reconciled",
               !.outcome = IF rstatus[r] \in Terminal THEN rstatus[r]
                           ELSE IF Unfinished(r, k) = {} THEN "completed"
                           ELSE "in_review"])
        /\ UNCHANGED <<storageVars, tombstoneVars, requestVars>>

CommitErasure(w, k) ==
    LET h == handler[w][k]
    IN  /\ \/ h.at = "reconciled"
           \/ h.at = "completing" /\ h.request = None
        /\ status' = [status EXCEPT ![k] = "completed"]
        /\ leased' = [leased EXCEPT ![k] = FALSE]
        /\ rstatus' = IF h.request = None THEN rstatus
                      ELSE [rstatus EXCEPT ![h.request] = h.outcome]
        /\ Step(w, k, Idle)
        /\ UNCHANGED <<attempts, link, storageVars, verified, visit,
                       fulfilling, listing, promised>>

\* A process stops, or a transaction fails: what is not committed is gone.
LoseHandler(w, k) ==
    /\ handler[w][k] # Idle
    /\ Step(w, k, Idle)
    /\ UNCHANGED <<storageVars, tombstoneVars, requestVars>>

-----------------------------------------------------------------------------
ClaimSome(w) == \E E, C \in SUBSET Key : ClaimErasures(w, E, C)

EndFulfilment(r) == FinishFulfilment(r) \/ AbortFulfilment(r)

\* What a running handler does next, on its own.
HandlerStep(w, k) ==
    DeleteObject(w, k) \/ RecordFailure(w, k) \/ CompleteErasure(w, k)
    \/ CommitErasure(w, k)

Next ==
    \/ \E k \in Key :
           \/ ReserveDocument(k) \/ PutObject(k) \/ LoseUpload(k)
           \/ DeleteReservedDocument(k) \/ DeleteStorageObject(k)
           \/ DeleteDocument(k)
           \/ LeaseRunsOut(k)
    \/ \E c \in Candidate : DeleteCandidate(c)
    \/ \E r \in Request :
           \/ SubmitRequest(r)
           \/ \E v \in Visitor : ReadForVerification(r, v) \/ VerifyRequest(r, v)
           \/ \E next \in Decision : PatchRequest(r, next)
           \/ \E c \in Candidate : BeginFulfilment(r, c)
           \/ EndFulfilment(r)
    \/ \E w \in Worker : ClaimSome(w)
    \/ \E w \in Worker, k \in Key :
           HandlerStep(w, k) \/ ReconcilePrivacy(w, k) \/ LoseHandler(w, k)

Spec == Init /\ [][Next]_vars

\* Cycles start on every interval, storage answers, transactions end, leases
\* run out; PostgreSQL queues who waits for a row lock.
Fairness ==
    /\ WF_vars(\E w \in Worker : ClaimSome(w))
    /\ \A w \in Worker, k \in Key :
           WF_vars(HandlerStep(w, k)) /\ SF_vars(ReconcilePrivacy(w, k))
    /\ \A r \in Request : WF_vars(EndFulfilment(r))
    /\ \A k \in Key : WF_vars(LeaseRunsOut(k))

FairSpec == Spec /\ Fairness

-----------------------------------------------------------------------------
Handler == [at : {"idle", "deleting", "erased", "error", "completing", "reconciled"},
            attempt : 0..MaxAttempts, request : Request \cup {None},
            outcome : RequestStatus \cup {None}]

\* Rows, handlers and requests are well formed: the checks of the schema.
TypeOK ==
    /\ candidate \in [Candidate -> BOOLEAN]
    /\ document \in [Key -> {"new", "owned", "removed"}]
    /\ upload \in [Key -> {"none", "running", "failed", "cleanup", "ended"}]
    /\ object \in [Key -> BOOLEAN]
    /\ stray \in [Key -> BOOLEAN] /\ misread \in [Key -> BOOLEAN]
    /\ status \in [Key -> TombstoneStatus \cup {None}]
    /\ attempts \in [Key -> 0..MaxAttempts]
    /\ leased \in [Key -> BOOLEAN]
    /\ link \in [Key -> Request \cup {None}]
    /\ handler \in [Worker -> [Key -> Handler]]
    /\ rstatus \in [Request -> RequestStatus \cup {None}]
    /\ verified \in [Request -> BOOLEAN]
    /\ visit \in [Request -> [Visitor -> RequestStatus \cup {None}]]
    /\ fulfilling \in [Request -> Candidate \cup {None}]
    /\ listing \in [Request -> SUBSET Key]
    /\ promised \in [Request -> SUBSET Key]

\* "Privacy requests remain in_review until every linked tombstone reaches
\* confirmed completion": a completed request has no unfinished tombstone
\* among the documents its fulfilment listed, not even those that someone
\* else deleted while the fulfilment waited.
CompletedRequestsAreErased ==
    \A r \in Request : rstatus[r] = "completed" =>
        \A k \in promised[r] : status[k] = "completed"

\* A completed tombstone means an absent object, whatever retries, lost
\* answers and stale handlers came before.  Two ways are left in which the
\* object can survive: an upload that was still running when its document was
\* deleted, and a 404 that was about something else (AbsenceIsProven).
ErasedObjectsAreGone ==
    \A k \in Key : status[k] = "completed" /\ object[k] => stray[k] \/ misread[k]

\* "NoSuchBucket is deliberately excluded" (server/utils/s3.ts:159, and
\* tests/unit/s3-object-presence.test.ts:80 on "failures that do not prove
\* absence"): a tombstone completes on a proof of absence only.  The code
\* violates it: the erasure takes every 404 for one.
AbsenceIsProven == \A k \in Key : status[k] = "completed" => ~misread[k]

\* A stored object always has a document row or a tombstone, so that it can
\* be found and erased: the delete and the tombstone are one transaction.
ObjectsAreAccountedFor ==
    \A k \in Key : object[k] => document[k] = "owned" \/ status[k] # None

Outstanding(r) == {k \in Key : link[k] = r /\ status[k] # "completed"}

\* The transaction that completes the last tombstone of a request closes the
\* request, although completions run concurrently and the link may have been
\* set after the tombstone was claimed: no request waits for nothing.
LastTombstoneCloses ==
    [][\A r \in Request :
          Outstanding(r) # {} /\ Outstanding(r)' = {} => rstatus'[r] \in Terminal]_vars

\* A tombstone that is completed, or failed at its last attempt, stays so:
\* a handler that lost its lease cannot record another outcome.
SettledTombstonesAreFinal ==
    [][\A k \in Key : status[k] \in Settled => status'[k] = status[k]]_vars

\* Every tombstone is completed or failed in the end: leases that run out are
\* claimed again, and the attempts are bounded.
TombstonesSettle == \A k \in Key : status[k] # None ~> status[k] \in Settled

\* "Privacy request has a terminal disposition" (privacyRequests.ts:32, and
\* the tests that reject reopening one): nothing leaves a terminal status.
TerminalDispositionsAreFinal ==
    [][\A r \in Request : rstatus[r] \in Terminal => rstatus'[r] = rstatus[r]]_vars

\* "Privacy requests cannot become completed while any erasure is unfinished
\* or failed" (plans/015-durable-private-document-erasure.md:229): when a
\* request completes, no document of its requester is still to be erased, not
\* even one that was deleted before its candidate was.  The code violates it:
\* such a tombstone has no link.
FulfilmentWaitsForErasure ==
    [][\A r \in Request : rstatus[r] # "completed" /\ rstatus'[r] = "completed" =>
          \A k \in Key : Owner[k] \in Requester[r] /\ document'[k] = "removed"
                         => status'[k] = "completed"]_vars
=============================================================================
