----------------------------- MODULE CandidateMail -----------------------------
(***************************************************************************)
(* The status of an application and the mails its candidate gets           *)
(* (api/applications/[id].patch.ts, candidateWorkflowEmailQueue.ts).       *)
(*                                                                         *)
(* A public application is stored with its documents and with a mail that  *)
(* acknowledges it; a transition to rejected is stored with a mail that    *)
(* rejects it.  The queue sends a mail under an idempotency key of its     *)
(* own, the acknowledgement only once the documents are uploaded.          *)
(*                                                                         *)
(* Recruiters read the status and write it later.  Every process may run   *)
(* a cycle of the queue, and a lease that has run out does not stop the    *)
(* handler that had it.  One application: rows of another one share        *)
(* nothing with its rows.                                                  *)
(***************************************************************************)
EXTENDS Naturals, FiniteSets

CONSTANTS
    Doc,           \* the documents the application brings
    MaxAttempts,
    MaxPatches,    \* bound: executions of the PATCH handler
    MaxWork        \* bound: handlers of mails at once

ASSUME MailAssumption ==
    /\ MaxAttempts \in Nat \ {0}
    /\ {MaxPatches, MaxWork} \subseteq Nat

VARIABLES
    status,      \* of the application; "none" before it is there, then "gone"
    uploads,     \* its documents whose upload is pending
    mail,        \* per mail: status and attempts, "none" while it is not there
    accepted,    \* mails the provider has accepted
    patches,     \* PATCH requests that have read the status
    patched,     \* how many there were
    rejections,  \* history: how often the application became rejected
    work         \* the handlers of claimed mails

vars == <<status, uploads, mail, accepted, patches, patched, rejections, work>>

Status == {"new", "screening", "interview", "offer", "hired", "rejected"}

APPLICATION_STATUS_TRANSITIONS == [
    new       |-> {"screening", "interview", "rejected"},
    screening |-> {"interview", "offer", "rejected"},
    interview |-> {"offer", "rejected"},
    offer     |-> {"hired", "rejected"},
    hired     |-> {},
    rejected  |-> {"new"} ]

\* A mail is named by its dedupe key: one acknowledgement, and a rejection for
\* each PATCH that writes one.
Acknowledgement == 0
Key == 0..MaxPatches

NoMail == [status |-> "none", attempts |-> 0]
Pending == [status |-> "pending", attempts |-> 0]
Active(k) == mail[k].status \in {"pending", "processing"}

Holds(h) == mail[h.key] = [status |-> "processing", attempts |-> h.attempt]
Leaves(h) == work' = work \ {h}

Init ==
    /\ status = "none"
    /\ uploads = {}
    /\ mail = [k \in Key |-> NoMail]
    /\ accepted = {}
    /\ patches = {}
    /\ patched = 0
    /\ rejections = 0
    /\ work = {}

-----------------------------------------------------------------------------
(* The application. *)

\* createPublicApplication: application, documents and, if it is configured,
\* the acknowledgement.
Submit ==
    /\ status = "none"
    /\ status' = "new"
    /\ uploads' = Doc
    /\ mail' \in {mail, [mail EXCEPT ![Acknowledgement] = Pending]}
    /\ UNCHANGED <<accepted, patches, patched, rejections, work>>

\* The request or the reconciliation completes an upload.
Uploaded(d) ==
    /\ d \in uploads
    /\ uploads' = uploads \ {d}
    /\ UNCHANGED <<status, mail, accepted, patches, patched, rejections, work>>

\* A rollback of the application, or the deletion of its candidate: documents
\* and mails cascade.
Remove ==
    /\ status \in Status
    /\ status' = "gone"
    /\ uploads' = {}
    /\ mail' = [k \in Key |-> NoMail]
    /\ UNCHANGED <<accepted, patches, patched, rejections, work>>

\* PATCH: the wanted status is checked against the status that was read, and a
\* rejection is prepared if the settings want one.
Read(to, mails) ==
    /\ status \in Status
    /\ patched < MaxPatches
    /\ to = status \/ to \in APPLICATION_STATUS_TRANSITIONS[status]
    /\ mails => to = "rejected" /\ status # "rejected"
    /\ patched' = patched + 1
    /\ patches' = patches \cup {[id |-> patched', from |-> status, to |-> to, mails |-> mails]}
    /\ UNCHANGED <<status, uploads, mail, accepted, rejections, work>>

\* Mutant: the status is written whatever it has become since it was read.
PatchLate(p) ==
    /\ patches' = patches \ {p}
    /\ IF status \in Status
       THEN /\ status' = p.to
            /\ mail' = IF p.mails THEN [mail EXCEPT ![p.id] = Pending] ELSE mail
            /\ rejections' = IF p.to = "rejected" /\ status # "rejected"
                             THEN rejections + 1 ELSE rejections
       ELSE UNCHANGED <<status, mail, rejections>>
    /\ UNCHANGED <<uploads, accepted, patched, work>>

\* The transaction: a new status is written over the one that was read only, an
\* unchanged one over any; the rejection is queued with it.
Patch(p) ==
    /\ patches' = patches \ {p}
    /\ IF status \in Status /\ (p.to # p.from => status = p.from)
       THEN /\ status' = p.to
            /\ mail' = IF p.mails THEN [mail EXCEPT ![p.id] = Pending] ELSE mail
            /\ rejections' = IF p.to = "rejected" /\ status # "rejected"
                             THEN rejections + 1 ELSE rejections
       ELSE UNCHANGED <<status, mail, rejections>>
    /\ UNCHANGED <<uploads, accepted, patched, work>>

-----------------------------------------------------------------------------
(* The queue. *)

\* Mutant: only what is pending is claimed.
ClaimPending(k) ==
    /\ mail[k].status = "pending"
    /\ k = Acknowledgement => uploads = {}
    /\ Cardinality(work) < MaxWork
    /\ mail' = [mail EXCEPT ![k] = [status |-> "processing", attempts |-> @.attempts + 1]]
    /\ work' = work \cup {[key |-> k, attempt |-> mail[k].attempts + 1, at |-> "claimed"]}
    /\ UNCHANGED <<status, uploads, accepted, patches, patched, rejections>>

\* Mutant: the acknowledgement does not wait for the documents.
ClaimEarly(k) ==
    /\ Active(k)
    /\ mail[k].attempts < MaxAttempts
    /\ Cardinality(work) < MaxWork
    /\ mail' = [mail EXCEPT ![k] = [status |-> "processing", attempts |-> @.attempts + 1]]
    /\ work' = work \cup {[key |-> k, attempt |-> mail[k].attempts + 1, at |-> "claimed"]}
    /\ UNCHANGED <<status, uploads, accepted, patches, patched, rejections>>

\* claimCandidateWorkflowEmails: a due mail or one whose lease ran out, the
\* acknowledgement once no upload of the application is pending.
Claim(k) ==
    /\ Active(k)
    /\ mail[k].attempts < MaxAttempts
    /\ k = Acknowledgement => uploads = {}
    /\ Cardinality(work) < MaxWork
    /\ mail' = [mail EXCEPT ![k] = [status |-> "processing", attempts |-> @.attempts + 1]]
    /\ work' = work \cup {[key |-> k, attempt |-> mail[k].attempts + 1, at |-> "claimed"]}
    /\ UNCHANGED <<status, uploads, accepted, patches, patched, rejections>>

\* A lease that ran out on the last attempt ends the mail: lease_expired.
Exhaust(k) ==
    /\ mail[k].status = "processing"
    /\ mail[k].attempts >= MaxAttempts
    /\ mail' = [mail EXCEPT ![k].status = "failed"]
    /\ UNCHANGED <<status, uploads, accepted, patches, patched, rejections, work>>

\* The provider accepts the mail, or knows its key already.
Send(h) ==
    /\ h.at = "claimed"
    /\ accepted' = accepted \cup {h.key}
    /\ work' = (work \ {h}) \cup {[h EXCEPT !.at = "sent"]}
    /\ UNCHANGED <<status, uploads, mail, patches, patched, rejections>>

\* The mail is completed by the attempt that still has it.
Record(h) ==
    /\ h.at = "sent"
    /\ mail' = IF Holds(h) THEN [mail EXCEPT ![h.key].status = "completed"] ELSE mail
    /\ Leaves(h)
    /\ UNCHANGED <<status, uploads, accepted, patches, patched, rejections>>

\* getCandidateWorkflowEmailFailureOutcome, after the provider failed, though it
\* may have accepted the mail, or after the recording failed.
Retry(h) ==
    /\ accepted' \in {accepted, accepted \cup {h.key}}
    /\ mail' = IF Holds(h)
               THEN [mail EXCEPT ![h.key].status =
                         IF h.attempt < MaxAttempts THEN "pending" ELSE "failed"]
               ELSE mail
    /\ Leaves(h)
    /\ UNCHANGED <<status, uploads, patches, patched, rejections>>

\* The process stops.
Drop(h) ==
    /\ Leaves(h)
    /\ UNCHANGED <<status, uploads, mail, accepted, patches, patched, rejections>>

HandlerStep(h) == Send(h) \/ Record(h) \/ Retry(h) \/ Drop(h)

Next ==
    \/ Submit \/ Remove
    \/ \E d \in Doc : Uploaded(d)
    \/ \E to \in Status, mails \in BOOLEAN : Read(to, mails)
    \/ \E p \in patches : Patch(p)
    \/ \E k \in Key : Claim(k) \/ Exhaust(k)
    \/ \E h \in work : HandlerStep(h)

\* Every process polls every five seconds; a handler goes on or stops.
Fairness ==
    /\ \A k \in Key : WF_vars(Claim(k)) /\ WF_vars(Exhaust(k))
    /\ WF_vars(\E h \in work : HandlerStep(h))

Spec == Init /\ [][Next]_vars /\ Fairness

-----------------------------------------------------------------------------
TypeOK ==
    /\ status \in Status \cup {"none", "gone"}
    /\ uploads \subseteq Doc
    /\ mail \in [Key -> [status : {"none", "pending", "processing", "completed", "failed"},
                         attempts : 0..MaxAttempts]]
    /\ accepted \subseteq Key
    /\ patched \in 0..MaxPatches
    /\ patches \subseteq [id : 1..patched, from : Status, to : Status, mails : BOOLEAN]
    /\ rejections \in Nat
    /\ work \subseteq [key : Key, attempt : 1..MaxAttempts, at : {"claimed", "sent"}]

Rejections == {k \in 1..MaxPatches : mail[k] # NoMail}

\* However many recruiters reject an application at once, it gets one mail for
\* each time it became rejected, and none for a rejection that lost.
OneMailPerRejection == Cardinality(Rejections) <= rejections

\* A candidate is told that the application was received only when it is there
\* to stay: no document of it waits for its upload any more.
AcknowledgedIsUploaded == Acknowledgement \in accepted => uploads = {}

\* Every mail is sent or given up, the acknowledgement once the uploads are done.
MailsSettle ==
    \A k \in Key :
        (Active(k) /\ (k = Acknowledgement => uploads = {})) ~> ~Active(k)

\* shared/status-transitions.ts, "single source of truth": an application moves
\* along the table.  A PATCH that repeats the status it has read writes it over
\* whatever the status has become, so the code violates it.
MovesAreAllowed ==
    [][status' # status /\ {status, status'} \subseteq Status
           => status' \in APPLICATION_STATUS_TRANSITIONS[status]]_vars
=============================================================================
