------------------------ MODULE DocumentErasureProofs ------------------------
(***************************************************************************)
(* Theorems about document erasure, for every set of keys, candidates,     *)
(* requests, workers and visitors and every positive MaxAttempts.          *)
(*                                                                         *)
(* Custody is about row locks: one handler completes a tombstone, and it   *)
(* knows the privacy request.  Ownership is about rows, tombstones and     *)
(* objects.  Closing is about privacy requests and rests on Custody.       *)
(***************************************************************************)
EXTENDS DocumentErasure, TLAPS

\* A handler that locks its tombstone is alone, and the tombstone waits for
\* it; the request it will reconcile is the one the tombstone is linked to.
Custody ==
    /\ \A w \in Worker, k \in Key : LocksRow(w, k) =>
           /\ status[k] = "processing"
           /\ link[k] # None => handler[w][k].request = link[k]
    /\ \A v, w \in Worker, k \in Key : LocksRow(v, k) /\ LocksRow(w, k) => v = w

\* The handler takes its object for gone.
HasErased(w, k) == handler[w][k].at \in {"erased", "completing", "reconciled"}

\* Tombstones belong to removed rows, handlers to tombstones, objects to rows
\* that were written; what a handler erased has come back astray, or its 404 was
\* about something else.
Ownership ==
    /\ \A k \in Key : document[k] = "removed" <=> status[k] # None
    /\ \A k \in Key : object[k] \/ upload[k] = "running" => document[k] # "new"
    /\ \A r \in Request : \A k \in listing[r] : document[k] # "new"
    /\ \A w \in Worker, k \in Key : handler[w][k].at # "idle" => status[k] # None
    /\ \A w \in Worker, k \in Key : HasErased(w, k) /\ object[k]
           => stray[k] \/ misread[k]
    /\ ErasedObjectsAreGone

\* A link is set once, by a fulfilment of a verified request, to a document
\* that only this fulfilment may list.
Links ==
    /\ \A k \in Key : link[k] # None =>
           document[k] = "removed" /\ verified[link[k]]
    /\ \A r \in Request : \A k \in listing[r] :
           link[k] = None /\ Owner[k] = fulfilling[r]
    /\ \A q, r \in Request : fulfilling[q] = fulfilling[r] /\ fulfilling[r] # None
           => q = r
    /\ \A r \in Request : fulfilling[r] # None => verified[r]
    /\ \A r \in Request : \A k \in promised[r] : link[k] = r

\* What a handler that reconciled its request saw of the other tombstones.
Stands(w, k) ==
    LET r == handler[w][k].request
        outcome == handler[w][k].outcome
    IN  /\ r # None /\ fulfilling[r] = None
        /\ outcome \in Terminal \cup {"in_review"}
        /\ outcome = "completed" => \A j \in promised[r] \ {k} : status[j] = "completed"
        /\ outcome = "in_review" =>
               \E j \in Key \ {k} : link[j] = r /\ status[j] # "completed"

\* A handler that reconciled a request holds its lock: what it saw still
\* stands.
Reconciled ==
    /\ \A w \in Worker, k \in Key : handler[w][k].request # None =>
           verified[handler[w][k].request]
    /\ \A w \in Worker, k \in Key : handler[w][k].at = "reconciled" => Stands(w, k)
    /\ \A v, w \in Worker, j, k \in Key :
           /\ handler[v][j].at = "reconciled" /\ handler[w][k].at = "reconciled"
           /\ handler[v][j].request = handler[w][k].request
           => v = w /\ j = k

\* A verification cannot complete a request: it reads unverified ones only.
Verification ==
    /\ \A r \in Request : rstatus[r] = "completed" => verified[r]
    /\ \A r \in Request, v \in Visitor : visit[r][v] # "completed"

Closing == Links /\ Reconciled /\ Verification /\ CompletedRequestsAreErased

-----------------------------------------------------------------------------
(* Type correctness. *)

LEMMA InitType == Init => TypeOK
  BY ErasureAssumption DEF Init, TypeOK, Idle, Handler

LEMMA IdleType ==
    /\ Idle \in Handler /\ Idle.at = "idle" /\ Idle.request = None
    /\ Idle.at \notin {"completing", "reconciled"}
  BY ErasureAssumption DEF Idle, Handler

LEMMA HandlerType == ASSUME TypeOK, NEW w \in Worker, NEW k \in Key
                     PROVE  handler[w][k] \in Handler
  BY DEF TypeOK

\* A step of one handler to a well-formed state keeps them all well formed.
LEMMA StepType ==
    ASSUME TypeOK, NEW w \in Worker, NEW k \in Key, NEW h \in Handler, Step(w, k, h)
    PROVE  handler' \in [Worker -> [Key -> Handler]]
  BY DEF TypeOK, Step

\* A deletion whose answer is an error may have taken effect or not.
LEMMA LostAnswer ==
    ASSUME TypeOK, NEW k \in Key, NEW kept \in {FALSE, object[k]},
           object' = [object EXCEPT ![k] = kept]
    PROVE  /\ object' \in [Key -> BOOLEAN]
           /\ \A j \in Key : object'[j] => object[j]
<1>1. object \in [Key -> BOOLEAN]
  BY DEF TypeOK
<1>2. CASE kept = FALSE
  BY <1>1, <1>2
<1>3. CASE kept = object[k]
  <2>1. object' = object
    BY <1>1, <1>3, Zenon
  <2>2. QED
    BY <1>1, <2>1
<1>4. QED
  BY <1>2, <1>3, Zenon

\* Whatever the answer, the handler goes on as erased or as failed.
LEMMA DeletionForm ==
    ASSUME NEW w \in Worker, NEW k \in Key, DeleteObject(w, k)
    PROVE  \E at \in {"erased", "error"} :
               Step(w, k, [handler[w][k] EXCEPT !.at = at])
  BY DEF DeleteObject, ConfirmAbsence, MisreadAbsence, MeetError

\* Every row, handler and request the system ever holds is well formed; in
\* particular a tombstone is never attempted more than MaxAttempts times.
THEOREM ErasureTypeCorrect == Spec => []TypeOK
<1>1. TypeOK /\ [Next]_vars => TypeOK'
  <2> SUFFICES ASSUME TypeOK, [Next]_vars PROVE TypeOK'
    OBVIOUS
  <2> USE ErasureAssumption
  <2>1. ASSUME NEW k \in Key, ReserveDocument(k) PROVE TypeOK'
    BY <2>1 DEF ReserveDocument, TypeOK, tombstoneVars, requestVars
  <2>2. ASSUME NEW k \in Key, PutObject(k) PROVE TypeOK'
    BY <2>2 DEF PutObject, TypeOK, tombstoneVars, requestVars
  <2>3. ASSUME NEW k \in Key, LoseUpload(k) PROVE TypeOK'
    BY <2>3 DEF LoseUpload, TypeOK, tombstoneVars, requestVars
  <2>4. ASSUME NEW k \in Key, DeleteReservedDocument(k) PROVE TypeOK'
    <3>1. /\ document' \in [Key -> {"new", "owned", "removed"}]
          /\ status' \in [Key -> TombstoneStatus \cup {None}]
      BY <2>4 DEF DeleteReservedDocument, Remove, Bury, TypeOK, TombstoneStatus
    <3>2. upload' \in [Key -> {"none", "running", "failed", "cleanup", "ended"}]
      <4>1. \E next \in {"cleanup", "ended"} : upload' = [upload EXCEPT ![k] = next]
        BY <2>4 DEF DeleteReservedDocument
      <4>2. QED
        BY <4>1 DEF TypeOK
    <3>3. QED
      BY <2>4, <3>1, <3>2 DEF DeleteReservedDocument, TypeOK, requestVars
  <2>5. ASSUME NEW k \in Key, DeleteStorageObject(k) PROVE TypeOK'
    <3>1. object' \in [Key -> BOOLEAN]
      BY <2>5, LostAnswer DEF DeleteStorageObject
    <3>2. QED
      BY <2>5, <3>1 DEF DeleteStorageObject, TypeOK, tombstoneVars, requestVars
  <2>6. ASSUME NEW k \in Key, DeleteDocument(k) PROVE TypeOK'
    BY <2>6 DEF DeleteDocument, Remove, Bury, TypeOK, requestVars, TombstoneStatus
  <2>7. ASSUME NEW c \in Candidate, DeleteCandidate(c) PROVE TypeOK'
    BY <2>7 DEF DeleteCandidate, Remove, Bury, TypeOK, requestVars, TombstoneStatus
  <2>8. ASSUME NEW r \in Request, SubmitRequest(r) PROVE TypeOK'
    BY <2>8 DEF SubmitRequest, TypeOK, storageVars, tombstoneVars, RequestStatus
  <2>9. ASSUME NEW r \in Request, NEW v \in Visitor, ReadForVerification(r, v)
        PROVE  TypeOK'
    BY <2>9 DEF ReadForVerification, TypeOK, storageVars, tombstoneVars
  <2>10. ASSUME NEW r \in Request, NEW v \in Visitor, VerifyRequest(r, v)
         PROVE  TypeOK'
    BY <2>10 DEF VerifyRequest, TypeOK, storageVars, tombstoneVars, RequestStatus
  <2>11. ASSUME NEW r \in Request, NEW next \in Decision, PatchRequest(r, next)
         PROVE  TypeOK'
    BY <2>11 DEF PatchRequest, TypeOK, storageVars, tombstoneVars, RequestStatus,
                 Terminal
  <2>12. ASSUME NEW r \in Request, NEW c \in Candidate, BeginFulfilment(r, c)
         PROVE  TypeOK'
    BY <2>12 DEF BeginFulfilment, DocumentsOf, TypeOK, storageVars, tombstoneVars
  <2>13. ASSUME NEW r \in Request, FinishFulfilment(r) PROVE TypeOK'
    BY <2>13 DEF FinishFulfilment, AdoptLink, Remove, Bury, TypeOK, RequestStatus,
                 Terminal, TombstoneStatus
  <2>14. ASSUME NEW r \in Request, AbortFulfilment(r) PROVE TypeOK'
    BY <2>14 DEF AbortFulfilment, TypeOK, storageVars, tombstoneVars
  <2>15. ASSUME NEW w \in Worker, NEW E \in SUBSET Key, NEW C \in SUBSET Key,
                ClaimErasures(w, E, C)
         PROVE  TypeOK'
    <3>1. \A k \in C : attempts[k] + 1 \in 0..MaxAttempts
      BY <2>15 DEF ClaimErasures, Claimable, TypeOK
    <3>2. handler' \in [Worker -> [Key -> Handler]]
      BY <2>15, <3>1 DEF ClaimErasures, TypeOK, Handler, Idle
    <3>3. QED
      BY <2>15, <3>1, <3>2 DEF ClaimErasures, TypeOK, storageVars, requestVars,
                               TombstoneStatus, Settled
  <2>16. ASSUME NEW k \in Key, LeaseRunsOut(k) PROVE TypeOK'
    BY <2>16 DEF LeaseRunsOut, TypeOK, storageVars, requestVars
  <2>17. ASSUME NEW w \in Worker, NEW k \in Key, DeleteObject(w, k) PROVE TypeOK'
    <3>1. handler[w][k] \in Handler
      BY HandlerType
    <3>2. /\ [handler[w][k] EXCEPT !.at = "erased"] \in Handler
          /\ [handler[w][k] EXCEPT !.at = "error"] \in Handler
      BY <3>1 DEF Handler
    <3>3. handler' \in [Worker -> [Key -> Handler]]
      BY <2>17, <3>2, StepType, DeletionForm
    <3>4. /\ object' \in [Key -> BOOLEAN]
          /\ misread' \in [Key -> BOOLEAN]
      <4>1. CASE ConfirmAbsence(w, k)
        BY <4>1 DEF ConfirmAbsence, TypeOK
      <4>2. CASE MisreadAbsence(w, k)
        BY <4>2 DEF MisreadAbsence, TypeOK
      <4>3. CASE MeetError(w, k, "error")
        BY <4>3, LostAnswer DEF MeetError, TypeOK
      <4>4. QED
        BY <2>17, <4>1, <4>2, <4>3 DEF DeleteObject
    <3>5. UNCHANGED <<candidate, document, upload, stray, tombstoneVars, requestVars>>
      BY <2>17 DEF DeleteObject
    <3>6. QED
      BY <3>3, <3>4, <3>5 DEF TypeOK, tombstoneVars, requestVars
  <2>18. ASSUME NEW w \in Worker, NEW k \in Key, RecordFailure(w, k) PROVE TypeOK'
    <3>1. handler' \in [Worker -> [Key -> Handler]]
      BY <2>18, StepType, IdleType DEF RecordFailure
    <3>2. status' \in [Key -> TombstoneStatus \cup {None}]
      <4>1. \/ status' = status
            \/ \E s \in {"failed", "pending"} : status' = [status EXCEPT ![k] = s]
        BY <2>18 DEF RecordFailure
      <4>2. QED
        BY <4>1 DEF TypeOK, TombstoneStatus, Settled
    <3>3. leased' \in [Key -> BOOLEAN]
      <4>1. leased' = leased \/ leased' = [leased EXCEPT ![k] = FALSE]
        BY <2>18 DEF RecordFailure
      <4>2. QED
        BY <4>1 DEF TypeOK
    <3>4. QED
      BY <2>18, <3>1, <3>2, <3>3 DEF RecordFailure, TypeOK, storageVars, requestVars
  <2>19. ASSUME NEW w \in Worker, NEW k \in Key, CompleteErasure(w, k) PROVE TypeOK'
    <3>1. LinkOf(w, k) \in Request \cup {None}
      BY DEF LinkOf, TypeOK, Handler
    <3>2. [handler[w][k] EXCEPT !.at = "completing", !.request = LinkOf(w, k)]
              \in Handler
      BY <3>1, HandlerType DEF Handler
    <3>3. handler' \in [Worker -> [Key -> Handler]]
      BY <2>19, <3>2, StepType, IdleType DEF CompleteErasure
    <3>4. QED
      BY <2>19, <3>3 DEF CompleteErasure, TypeOK, storageVars, tombstoneVars, requestVars
  <2>20. ASSUME NEW w \in Worker, NEW k \in Key, ReconcilePrivacy(w, k) PROVE TypeOK'
    <3> DEFINE r == handler[w][k].request
               outcome == IF rstatus[r] \in Terminal THEN rstatus[r]
                          ELSE IF Unfinished(r, k) = {} THEN "completed"
                          ELSE "in_review"
    <3>1. outcome \in RequestStatus
      BY DEF Terminal, RequestStatus
    <3>2. [handler[w][k] EXCEPT !.at = "reconciled", !.outcome = outcome] \in Handler
      BY <3>1, HandlerType DEF Handler
    <3>3. handler' \in [Worker -> [Key -> Handler]]
      BY <2>20, <3>2, StepType DEF ReconcilePrivacy
    <3>4. QED
      BY <2>20, <3>3 DEF ReconcilePrivacy, TypeOK, storageVars, tombstoneVars, requestVars
  <2>21. ASSUME NEW w \in Worker, NEW k \in Key, CommitErasure(w, k) PROVE TypeOK'
    <3>1. handler' \in [Worker -> [Key -> Handler]]
      BY <2>21, StepType, IdleType DEF CommitErasure
    <3>2. handler[w][k].request \in Request \cup {None}
          /\ handler[w][k].outcome \in RequestStatus \cup {None}
      BY DEF TypeOK, Handler
    <3>3. QED
      BY <2>21, <3>1, <3>2 DEF CommitErasure, TypeOK, storageVars, TombstoneStatus, Settled
  <2>22. ASSUME NEW w \in Worker, NEW k \in Key, LoseHandler(w, k) PROVE TypeOK'
    <3>1. handler' \in [Worker -> [Key -> Handler]]
      BY <2>22, StepType, IdleType DEF LoseHandler
    <3>2. QED
      BY <2>22, <3>1 DEF LoseHandler, TypeOK, storageVars, tombstoneVars, requestVars
  <2>23. CASE UNCHANGED vars
    BY <2>23 DEF vars, TypeOK, storageVars, tombstoneVars, requestVars
  <2>24. QED
    BY <2>1, <2>2, <2>3, <2>4, <2>5, <2>6, <2>7, <2>8, <2>9, <2>10, <2>11, <2>12,
       <2>13, <2>14, <2>15, <2>16, <2>17, <2>18, <2>19, <2>20, <2>21, <2>22, <2>23
       DEF Next, ClaimSome, EndFulfilment, HandlerStep
<1>2. QED
  BY <1>1, InitType, PTL DEF Spec
-----------------------------------------------------------------------------
(* Custody of tombstones. *)

LEMMA InitCustody == Init => Custody
  BY DEF Init, Custody, LocksRow, Idle

\* Removing document rows changes no tombstone that exists.
LEMMA RemoveKeepsTombstones ==
    ASSUME TypeOK, NEW K \in SUBSET Key, Remove(K)
    PROVE  \A k \in Key : status[k] # None => status'[k] = status[k]
  BY DEF Remove, Bury, TypeOK

\* A handler that takes a step without its tombstone's lock, or gives it up,
\* leaves the other handlers' locks alone.
LEMMA CustodyReleased ==
    ASSUME TypeOK, Custody, NEW w \in Worker, NEW k \in Key, NEW h \in Handler,
           h.at \notin {"completing", "reconciled"}, Step(w, k, h),
           link' = link, \A j \in Key : j # k => status'[j] = status[j],
           status' = status \/ LocksRow(w, k) \/ RowIsFree(k)
    PROVE  Custody'
  BY ErasureAssumption DEF TypeOK, Custody, LocksRow, RowIsFree, Step, Handler

LEMMA CustodyStep == ASSUME TypeOK, Custody, [Next]_vars PROVE Custody'
<1>1. CASE UNCHANGED <<status, link, handler>>
  BY <1>1 DEF Custody, LocksRow
<1>2. ASSUME NEW K \in SUBSET Key, Remove(K), UNCHANGED <<link, handler>> PROVE Custody'
  <2>1. \A w \in Worker, k \in Key : LocksRow(w, k) => status'[k] = "processing"
    BY <1>2, RemoveKeepsTombstones, ErasureAssumption
       DEF Custody, TombstoneStatus
  <2>2. QED
    BY <1>2, <2>1 DEF Custody, LocksRow
<1>3. ASSUME NEW r \in Request, FinishFulfilment(r) PROVE Custody'
  <2>1. Remove(listing[r]) /\ handler' = handler /\ listing[r] \in SUBSET Key
    BY <1>3 DEF FinishFulfilment, TypeOK
  <2>2. \A w \in Worker, k \in Key : LocksRow(w, k) => status'[k] = "processing"
    BY <2>1, RemoveKeepsTombstones, ErasureAssumption
       DEF Custody, TombstoneStatus
  <2>3. \A w \in Worker, k \in Key : LocksRow(w, k) => link'[k] = link[k]
    BY <1>3 DEF FinishFulfilment, RowIsFree, AdoptLink, TypeOK
  <2>4. QED
    BY <2>1, <2>2, <2>3 DEF Custody, LocksRow
<1>4. ASSUME NEW w \in Worker, NEW E \in SUBSET Key, NEW C \in SUBSET Key,
             ClaimErasures(w, E, C)
      PROVE  Custody'
  <2>1. \A k \in E \cup C : RowIsFree(k)
    BY <1>4 DEF ClaimErasures, Exhausted, Claimable
  <2>2. \A k \in Key : handler'[w][k].at \in {"deleting", "idle"}
    BY <1>4 DEF ClaimErasures, Idle, TypeOK
  <2>3. \A v \in Worker : v # w => handler'[v] = handler[v]
    BY <1>4 DEF ClaimErasures, TypeOK
  <2>4. \A k \in Key : k \notin E \cup C => status'[k] = status[k]
    BY <1>4 DEF ClaimErasures, TypeOK
  <2>5. link' = link
    BY <1>4 DEF ClaimErasures
  <2>6. \A v \in Worker, k \in Key : LocksRow(v, k)' =>
            LocksRow(v, k) /\ v # w /\ k \notin E \cup C
    BY <2>1, <2>2, <2>3 DEF LocksRow, RowIsFree
  <2>7. QED
    BY <2>3, <2>4, <2>5, <2>6 DEF Custody
<1>5. ASSUME NEW w \in Worker, NEW k \in Key, DeleteObject(w, k) PROVE Custody'
  <2>1. \E at \in {"erased", "error"} :
            Step(w, k, [handler[w][k] EXCEPT !.at = at])
    BY <1>5, DeletionForm
  <2>2. PICK at \in {"erased", "error"} : Step(w, k, [handler[w][k] EXCEPT !.at = at])
    BY <2>1
  <2>3. [handler[w][k] EXCEPT !.at = at] \in Handler
        /\ [handler[w][k] EXCEPT !.at = at].at = at
    BY HandlerType DEF Handler
  <2>4. link' = link /\ status' = status
    BY <1>5 DEF DeleteObject, tombstoneVars
  <2> DEFINE h == [handler[w][k] EXCEPT !.at = at]
  <2>5. h \in Handler /\ h.at \notin {"completing", "reconciled"} /\ Step(w, k, h)
    BY <2>2, <2>3
  <2> HIDE DEF h
  <2>6. QED
    BY <2>4, <2>5, CustodyReleased
<1>6. ASSUME NEW w \in Worker, NEW k \in Key, RecordFailure(w, k) PROVE Custody'
  <2>1. \A j \in Key : j # k => status'[j] = status[j]
    BY <1>6 DEF RecordFailure, TypeOK
  <2>2. Step(w, k, Idle) /\ link' = link /\ RowIsFree(k)
    BY <1>6 DEF RecordFailure
  <2>3. QED
    BY <2>1, <2>2, CustodyReleased, IdleType
<1>7. ASSUME NEW w \in Worker, NEW k \in Key, CompleteErasure(w, k) PROVE Custody'
  <2>1. UNCHANGED <<status, link>> /\ RowIsFree(k)
    BY <1>7 DEF CompleteErasure, tombstoneVars
  <2>2. CASE Step(w, k, Idle)
    BY <2>1, <2>2, CustodyReleased, IdleType
  <2>3. CASE /\ HoldsLease(k, handler[w][k].attempt)
             /\ Step(w, k, [handler[w][k] EXCEPT !.at = "completing",
                                                 !.request = LinkOf(w, k)])
    <3>1. handler'[w][k].request = LinkOf(w, k)
      BY <2>3, HandlerType DEF Step, TypeOK, Handler
    <3>2. \A v \in Worker, j \in Key : <<v, j>> # <<w, k>> =>
              handler'[v][j] = handler[v][j]
      BY <2>3 DEF Step, TypeOK
    <3>3. status[k] = "processing"
      BY <2>3 DEF HoldsLease
    <3>4. QED
      BY <2>1, <3>1, <3>2, <3>3 DEF Custody, LocksRow, RowIsFree, LinkOf
  <2>4. QED
    BY <1>7, <2>2, <2>3 DEF CompleteErasure
<1>8. ASSUME NEW w \in Worker, NEW k \in Key, ReconcilePrivacy(w, k) PROVE Custody'
  <2>1. UNCHANGED <<status, link>> /\ LocksRow(w, k)
    BY <1>8 DEF ReconcilePrivacy, tombstoneVars, LocksRow
  <2>2. handler'[w][k].request = handler[w][k].request
    BY <1>8, HandlerType DEF ReconcilePrivacy, Step, TypeOK, Handler
  <2>3. \A v \in Worker, j \in Key : <<v, j>> # <<w, k>> =>
            handler'[v][j] = handler[v][j]
    BY <1>8 DEF ReconcilePrivacy, Step, TypeOK
  <2>4. QED
    BY <2>1, <2>2, <2>3 DEF Custody, LocksRow
<1>9. ASSUME NEW w \in Worker, NEW k \in Key, CommitErasure(w, k) PROVE Custody'
  <2>1. \A j \in Key : j # k => status'[j] = status[j]
    BY <1>9 DEF CommitErasure, TypeOK
  <2>2. Step(w, k, Idle) /\ link' = link /\ LocksRow(w, k)
    BY <1>9 DEF CommitErasure, LocksRow
  <2>3. QED
    BY <2>1, <2>2, CustodyReleased, IdleType
<1>10. ASSUME NEW w \in Worker, NEW k \in Key, LoseHandler(w, k) PROVE Custody'
  <2>1. Step(w, k, Idle) /\ UNCHANGED <<status, link>>
    BY <1>10 DEF LoseHandler, tombstoneVars
  <2>2. QED
    BY <2>1, CustodyReleased, IdleType
<1>11. ASSUME NEW k \in Key,
              DeleteReservedDocument(k) \/ DeleteDocument(k)
       PROVE  Custody'
  <2>1. {k} \in SUBSET Key
    OBVIOUS
  <2>2. QED
    BY <1>1, <1>2, <1>11, <2>1 DEF DeleteReservedDocument, DeleteDocument
<1>12. ASSUME NEW c \in Candidate, DeleteCandidate(c) PROVE Custody'
  <2>1. DocumentsOf(c) \in SUBSET Key
    BY DEF DocumentsOf
  <2>2. QED
    BY <1>2, <1>12, <2>1 DEF DeleteCandidate
<1>13. ASSUME NEW k \in Key,
              \/ ReserveDocument(k) \/ PutObject(k) \/ LoseUpload(k)
              \/ DeleteStorageObject(k) \/ LeaseRunsOut(k)
       PROVE  UNCHANGED <<status, link, handler>>
  BY <1>13 DEF ReserveDocument, PutObject, LoseUpload, DeleteStorageObject,
               LeaseRunsOut, tombstoneVars
<1>14. ASSUME NEW r \in Request,
              \/ SubmitRequest(r) \/ AbortFulfilment(r)
              \/ \E v \in Visitor : ReadForVerification(r, v) \/ VerifyRequest(r, v)
              \/ \E next \in Decision : PatchRequest(r, next)
              \/ \E c \in Candidate : BeginFulfilment(r, c)
       PROVE  UNCHANGED <<status, link, handler>>
  BY <1>14 DEF SubmitRequest, AbortFulfilment, ReadForVerification, VerifyRequest,
               PatchRequest, BeginFulfilment, tombstoneVars
<1>15. CASE UNCHANGED vars
  BY <1>1, <1>15 DEF vars, tombstoneVars
<1>16. QED
  BY <1>1, <1>3, <1>4, <1>5, <1>6, <1>7, <1>8, <1>9, <1>10, <1>11, <1>12, <1>13,
     <1>14, <1>15 DEF Next, ClaimSome, EndFulfilment, HandlerStep

\* Custody holds in every reachable state.
LEMMA CustodyCorrect == Spec => []Custody
<1>1. TypeOK /\ Custody /\ [Next]_vars => Custody'
  BY CustodyStep
<1>2. QED
  BY <1>1, InitCustody, ErasureTypeCorrect, PTL DEF Spec

-----------------------------------------------------------------------------
(* Settled tombstones. *)

\* Only a handler that holds the lease, a claim of a tombstone that waits, or
\* the commit of the handler that locks the row changes a tombstone.
LEMMA SettledStep ==
    ASSUME TypeOK, Custody, [Next]_vars
    PROVE  \A k \in Key : status[k] \in Settled => status'[k] = status[k]
<1> DEFINE Final == \A k \in Key : status[k] \in Settled => status'[k] = status[k]
<1>1. CASE status' = status
  BY <1>1
<1>2. ASSUME NEW K \in SUBSET Key, Remove(K) PROVE Final
  BY <1>2, RemoveKeepsTombstones, ErasureAssumption DEF Settled, TombstoneStatus
<1>3. ASSUME NEW w \in Worker, NEW E \in SUBSET Key, NEW C \in SUBSET Key,
             ClaimErasures(w, E, C)
      PROVE  Final
  <2>1. \A k \in E \cup C : status[k] \notin Settled
    BY <1>3 DEF ClaimErasures, Exhausted, Claimable, Settled
  <2>2. QED
    BY <1>3, <2>1 DEF ClaimErasures
<1>4. ASSUME NEW w \in Worker, NEW k \in Key, RecordFailure(w, k) PROVE Final
  BY <1>4 DEF RecordFailure, HoldsLease, Settled, TypeOK
<1>5. ASSUME NEW w \in Worker, NEW k \in Key, CommitErasure(w, k) PROVE Final
  <2>1. status[k] = "processing"
    BY <1>5 DEF CommitErasure, Custody, LocksRow
  <2>2. QED
    BY <1>5, <2>1 DEF CommitErasure, Settled, TypeOK
<1>6. ASSUME NEW w \in Worker, NEW k \in Key,
             \/ DeleteObject(w, k) \/ CompleteErasure(w, k)
             \/ ReconcilePrivacy(w, k) \/ LoseHandler(w, k)
      PROVE  status' = status
  BY <1>6 DEF DeleteObject, CompleteErasure, ReconcilePrivacy, LoseHandler,
              tombstoneVars
<1>7. ASSUME NEW k \in Key,
             \/ ReserveDocument(k) \/ PutObject(k) \/ LoseUpload(k)
             \/ DeleteStorageObject(k) \/ LeaseRunsOut(k)
      PROVE  status' = status
  BY <1>7 DEF ReserveDocument, PutObject, LoseUpload, DeleteStorageObject,
              LeaseRunsOut, tombstoneVars
<1>8. ASSUME NEW r \in Request,
             \/ SubmitRequest(r) \/ AbortFulfilment(r)
             \/ \E v \in Visitor : ReadForVerification(r, v) \/ VerifyRequest(r, v)
             \/ \E next \in Decision : PatchRequest(r, next)
             \/ \E c \in Candidate : BeginFulfilment(r, c)
      PROVE  status' = status
  BY <1>8 DEF SubmitRequest, AbortFulfilment, ReadForVerification, VerifyRequest,
              PatchRequest, BeginFulfilment, tombstoneVars
<1>9. ASSUME NEW k \in Key, DeleteReservedDocument(k) \/ DeleteDocument(k) PROVE Final
  <2>1. {k} \in SUBSET Key
    OBVIOUS
  <2>2. QED
    BY <1>1, <1>2, <1>9, <2>1 DEF DeleteReservedDocument, DeleteDocument
<1>10. ASSUME NEW c \in Candidate, DeleteCandidate(c) PROVE Final
  <2>1. DocumentsOf(c) \in SUBSET Key
    BY DEF DocumentsOf
  <2>2. QED
    BY <1>2, <1>10, <2>1 DEF DeleteCandidate
<1>11. ASSUME NEW r \in Request, FinishFulfilment(r) PROVE Final
  <2>1. Remove(listing[r]) /\ listing[r] \in SUBSET Key
    BY <1>11 DEF FinishFulfilment, TypeOK
  <2>2. QED
    BY <1>2, <2>1
<1>12. CASE UNCHANGED vars
  BY <1>1, <1>12 DEF vars, tombstoneVars
<1>13. QED
  BY <1>1, <1>3, <1>4, <1>5, <1>6, <1>7, <1>8, <1>9, <1>10, <1>11, <1>12
     DEF Next, ClaimSome, EndFulfilment, HandlerStep

\* A completed tombstone, and one that failed for good, stays so: a handler
\* that lost its lease, or a repeated deletion, records nothing over it.
THEOREM SettledTombstonesStay == Spec => SettledTombstonesAreFinal
<1>1. TypeOK /\ Custody /\ [Next]_vars
      => [\A k \in Key : status[k] \in Settled => status'[k] = status[k]]_vars
  BY SettledStep
<1>2. QED
  BY <1>1, ErasureTypeCorrect, CustodyCorrect, PTL
     DEF Spec, SettledTombstonesAreFinal

-----------------------------------------------------------------------------
(* Ownership of objects. *)

LEMMA InitOwnership == Init => Ownership
<1> SUFFICES ASSUME Init PROVE Ownership
  OBVIOUS
<1>1. /\ \A k \in Key : status[k] = None /\ document[k] \in {"new", "owned"}
      /\ \A w \in Worker, k \in Key : handler[w][k].at = "idle"
      /\ \A r \in Request : listing[r] = {}
  BY DEF Init, Idle
<1>2. \A k \in Key : object[k] \/ upload[k] = "running" => document[k] # "new"
  <2>1. SUFFICES ASSUME NEW k \in Key, object[k] \/ upload[k] = "running"
                 PROVE  document[k] # "new"
    OBVIOUS
  <2>2. /\ object[k] = (k \in Stored)
        /\ upload[k] = IF k \in Stored THEN "ended" ELSE "none"
        /\ document[k] = IF k \in Stored THEN "owned" ELSE "new"
    BY DEF Init
  <2>3. k \in Stored
    BY <2>1, <2>2
  <2>4. QED
    BY <2>2, <2>3
<1>3. "completed" # None
  BY ErasureAssumption DEF TombstoneStatus, Settled
<1>4. QED
  BY <1>1, <1>2, <1>3 DEF Ownership, HasErased, ErasedObjectsAreGone

\* Removing rows that were written buries exactly them.
LEMMA OwnershipRemoved ==
    ASSUME TypeOK, Ownership, NEW K \in SUBSET Key, Remove(K),
           \A k \in K : document[k] # "new",
           \A k \in Key : upload'[k] = "running" => upload[k] = "running",
           UNCHANGED <<object, stray, misread, handler>>,
           \A r \in Request : listing'[r] \in SUBSET listing[r]
    PROVE  Ownership'
<1>1. /\ \A k \in K : document'[k] = "removed" /\ status'[k] # None
      /\ \A k \in Key \ K : document'[k] = document[k] /\ status'[k] = status[k]
  BY ErasureAssumption DEF Remove, Bury, TombstoneStatus, TypeOK
<1>2. \A k \in Key : document[k] # "new" => document'[k] # "new"
  BY <1>1
<1>3. \A k \in Key : status'[k] = "completed" => status[k] = "completed"
  BY ErasureAssumption DEF Remove, Bury, TypeOK
<1>4. (\A k \in Key : document[k] = "removed" <=> status[k] # None)'
  BY <1>1 DEF Ownership
<1>5. (\A k \in Key : object[k] \/ upload[k] = "running" => document[k] # "new")'
  BY <1>2 DEF Ownership
<1>6. (\A r \in Request : \A k \in listing[r] : document[k] # "new")'
  BY <1>2 DEF Ownership, TypeOK
<1>7. (\A w \in Worker, k \in Key : handler[w][k].at # "idle" => status[k] # None)'
  BY <1>1 DEF Ownership
<1>8. QED
  BY <1>3, <1>4, <1>5, <1>6, <1>7 DEF Ownership, HasErased, ErasedObjectsAreGone

\* Steps that only take or keep what others have leave ownership alone.
LEMMA OwnershipKept ==
    ASSUME TypeOK, Ownership, UNCHANGED <<document, status, handler, stray, misread>>,
           \A k \in Key : object'[k] => object[k],
           \A k \in Key : upload'[k] = "running" => upload[k] = "running",
           \A r \in Request : \A k \in listing'[r] : document[k] # "new"
    PROVE  Ownership'
  BY DEF Ownership, HasErased, ErasedObjectsAreGone

\* A handler that stops, or moves on without a new object, leaves it too.
LEMMA OwnershipHandled ==
    ASSUME TypeOK, Ownership, NEW w \in Worker, NEW k \in Key, NEW h \in Handler,
           Step(w, k, h), UNCHANGED <<document, upload, stray, listing>>,
           \A j \in Key : misread[j] /\ object'[j] => misread'[j],
           h.at # "idle" => handler[w][k].at # "idle",
           h.at \in {"erased", "completing", "reconciled"}
               => HasErased(w, k) \/ ~object'[k] \/ misread'[k],
           \A j \in Key : object'[j] => object[j],
           \A j \in Key : status'[j] = None <=> status[j] = None,
           \A j \in Key : status'[j] = "completed" =>
               status[j] = "completed" \/ (j = k /\ HasErased(w, k))
    PROVE  Ownership'
<1>1. \A v \in Worker, j \in Key :
          handler'[v][j] = IF v = w /\ j = k THEN h ELSE handler[v][j]
  BY DEF Step, TypeOK
<1>2. (\A v \in Worker, j \in Key : handler[v][j].at # "idle" => status[j] # None)'
  BY <1>1 DEF Ownership
<1>3. (\A v \in Worker, j \in Key : HasErased(v, j) /\ object[j]
                                         => stray[j] \/ misread[j])'
  BY <1>1 DEF Ownership, HasErased
<1>4. (\A j \in Key : status[j] = "completed" /\ object[j] => stray[j] \/ misread[j])'
  BY DEF Ownership, ErasedObjectsAreGone
<1>5. QED
  BY <1>2, <1>3, <1>4 DEF Ownership, ErasedObjectsAreGone

LEMMA OwnershipStep ==
    ASSUME TypeOK, Custody, Ownership, [Next]_vars PROVE Ownership'
<1>1. ASSUME NEW k \in Key, ReserveDocument(k) PROVE Ownership'
  BY <1>1, ErasureAssumption
     DEF ReserveDocument, Ownership, HasErased, ErasedObjectsAreGone, TypeOK,
         tombstoneVars, requestVars
<1>2. ASSUME NEW k \in Key, PutObject(k) PROVE Ownership'
  <2>1. UNCHANGED <<document, status, handler, listing, misread>>
    BY <1>2 DEF PutObject, tombstoneVars, requestVars
  <2>2. \A j \in Key : j # k => object'[j] = object[j] /\ stray'[j] = stray[j]
                                /\ upload'[j] = upload[j]
    BY <1>2 DEF PutObject, TypeOK
  <2>3. (document[k] = "removed") = stray'[k] /\ document[k] # "new"
    BY <1>2 DEF PutObject, TypeOK, Ownership
  <2>4. \A w \in Worker : HasErased(w, k) => status[k] # None
    BY DEF Ownership, HasErased
  <2>5. status[k] = "completed" => status[k] # None
    BY ErasureAssumption DEF TombstoneStatus, Settled
  <2>6. (\A w \in Worker, j \in Key : HasErased(w, j) /\ object[j]
                                        => stray[j] \/ misread[j])'
    BY <2>1, <2>2, <2>3, <2>4 DEF Ownership, HasErased
  <2>7. (\A j \in Key : status[j] = "completed" /\ object[j] => stray[j] \/ misread[j])'
    BY <2>1, <2>2, <2>3, <2>5 DEF Ownership, ErasedObjectsAreGone
  <2>8. (\A j \in Key : object[j] \/ upload[j] = "running" => document[j] # "new")'
    BY <2>1, <2>2, <2>3 DEF Ownership
  <2>9. QED
    BY <2>1, <2>6, <2>7, <2>8 DEF Ownership, ErasedObjectsAreGone
<1>3. ASSUME NEW k \in Key, LoseUpload(k) PROVE Ownership'
  BY <1>3, OwnershipKept DEF LoseUpload, Ownership, TypeOK, tombstoneVars, requestVars
<1>4. ASSUME NEW k \in Key, DeleteReservedDocument(k) PROVE Ownership'
  <2>1. /\ UNCHANGED <<object, stray, misread, handler, listing>>
        /\ \A j \in Key : upload'[j] = "running" => upload[j] = "running"
    BY <1>4 DEF DeleteReservedDocument, TypeOK, requestVars
  <2>2. CASE document[k] = "owned" /\ Remove({k})
    <3>1. {k} \in SUBSET Key /\ \A j \in {k} : document[j] # "new"
      BY <2>2
    <3>2. \A r \in Request : listing'[r] \in SUBSET listing[r]
      BY <2>1
    <3>3. QED
      BY <2>1, <2>2, <3>1, <3>2, OwnershipRemoved
  <2>3. CASE UNCHANGED <<document, status>>
    BY <2>1, <2>3, OwnershipKept DEF Ownership
  <2>4. QED
    BY <1>4, <2>2, <2>3 DEF DeleteReservedDocument
<1>5. ASSUME NEW k \in Key, DeleteStorageObject(k) PROVE Ownership'
  <2>1. \A j \in Key : object'[j] => object[j]
    BY <1>5, LostAnswer DEF DeleteStorageObject
  <2>2. /\ UNCHANGED <<document, status, handler, stray, misread, listing>>
        /\ \A j \in Key : upload'[j] = "running" => upload[j] = "running"
    BY <1>5 DEF DeleteStorageObject, TypeOK, tombstoneVars, requestVars
  <2>3. QED
    BY <2>1, <2>2, OwnershipKept DEF Ownership
<1>6. ASSUME NEW k \in Key, DeleteDocument(k) PROVE Ownership'
  <2>1. /\ Remove({k}) /\ UNCHANGED <<object, stray, misread, handler, listing, upload>>
        /\ {k} \in SUBSET Key /\ \A j \in {k} : document[j] # "new"
    BY <1>6 DEF DeleteDocument, requestVars
  <2>2. \A r \in Request : listing'[r] \in SUBSET listing[r]
    BY <2>1
  <2>3. QED
    BY <2>1, <2>2, OwnershipRemoved
<1>7. ASSUME NEW c \in Candidate, DeleteCandidate(c) PROVE Ownership'
  <2>1. /\ Remove(DocumentsOf(c))
        /\ UNCHANGED <<object, stray, misread, handler, listing, upload>>
        /\ DocumentsOf(c) \in SUBSET Key
        /\ \A k \in DocumentsOf(c) : document[k] # "new"
    BY <1>7 DEF DeleteCandidate, DocumentsOf, requestVars
  <2>2. \A r \in Request : listing'[r] \in SUBSET listing[r]
    BY <2>1
  <2>3. QED
    BY <2>1, <2>2, OwnershipRemoved
<1>8. ASSUME NEW r \in Request,
             \/ SubmitRequest(r)
             \/ \E v \in Visitor : ReadForVerification(r, v) \/ VerifyRequest(r, v)
             \/ \E next \in Decision : PatchRequest(r, next)
      PROVE  Ownership'
  <2>1. UNCHANGED <<document, status, handler, stray, misread, object, upload, listing>>
    BY <1>8 DEF SubmitRequest, ReadForVerification, VerifyRequest, PatchRequest,
                storageVars, tombstoneVars
  <2>2. QED
    BY <2>1, OwnershipKept DEF Ownership
<1>9. ASSUME NEW r \in Request, NEW c \in Candidate, BeginFulfilment(r, c)
      PROVE  Ownership'
  <2>1. UNCHANGED <<document, status, handler, stray, misread, object, upload>>
    BY <1>9 DEF BeginFulfilment, storageVars, tombstoneVars
  <2>2. \A q \in Request : \A k \in listing'[q] : document[k] # "new"
    BY <1>9 DEF BeginFulfilment, DocumentsOf, Ownership, TypeOK
  <2>3. QED
    BY <2>1, <2>2, OwnershipKept
<1>10. ASSUME NEW r \in Request, FinishFulfilment(r) PROVE Ownership'
  <2>1. /\ Remove(listing[r]) /\ UNCHANGED <<object, stray, misread, handler, upload>>
        /\ listing[r] \in SUBSET Key
        /\ \A k \in listing[r] : document[k] # "new"
    BY <1>10 DEF FinishFulfilment, TypeOK, Ownership
  <2>2. \A q \in Request : listing'[q] \in SUBSET listing[q]
    BY <1>10 DEF FinishFulfilment, TypeOK
  <2>3. QED
    BY <2>1, <2>2, OwnershipRemoved
<1>11. ASSUME NEW r \in Request, AbortFulfilment(r) PROVE Ownership'
  <2>1. UNCHANGED <<document, status, handler, stray, misread, object, upload>>
    BY <1>11 DEF AbortFulfilment, storageVars, tombstoneVars
  <2>2. \A q \in Request : \A k \in listing'[q] : document[k] # "new"
    BY <1>11 DEF AbortFulfilment, Ownership, TypeOK
  <2>3. QED
    BY <2>1, <2>2, OwnershipKept
<1>12. ASSUME NEW w \in Worker, NEW E \in SUBSET Key, NEW C \in SUBSET Key,
              ClaimErasures(w, E, C)
       PROVE  Ownership'
  <2>1. \A k \in E \cup C : status[k] \in {"pending", "processing"}
    BY <1>12 DEF ClaimErasures, Exhausted, Claimable
  <2>2. \A k \in Key : /\ status'[k] = None <=> status[k] = None
                       /\ status'[k] = "completed" => status[k] = "completed"
    BY <1>12, <2>1, ErasureAssumption DEF ClaimErasures, TombstoneStatus, Settled
  <2>3. \A v \in Worker, k \in Key :
            \/ handler'[v][k] = handler[v][k]
            \/ handler'[v][k].at = "deleting" /\ k \in C
            \/ handler'[v][k].at = "idle"
    BY <1>12, IdleType DEF ClaimErasures, TypeOK
  <2>4. \A k \in C : status[k] # None
    BY <2>1, ErasureAssumption DEF TombstoneStatus
  <2>5. UNCHANGED <<document, object, stray, misread, upload, listing>>
    BY <1>12 DEF ClaimErasures, storageVars, requestVars
  <2>6. QED
    BY <2>2, <2>3, <2>4, <2>5 DEF Ownership, HasErased, ErasedObjectsAreGone
<1>13. ASSUME NEW k \in Key, LeaseRunsOut(k) PROVE Ownership'
  <2>1. UNCHANGED <<document, status, handler, stray, misread, object, upload, listing>>
    BY <1>13 DEF LeaseRunsOut, storageVars, requestVars
  <2>2. QED
    BY <2>1, OwnershipKept DEF Ownership
<1>14. ASSUME NEW w \in Worker, NEW k \in Key, DeleteObject(w, k) PROVE Ownership'
  <2>1. UNCHANGED <<document, status, stray, upload, listing>>
        /\ handler[w][k].at = "deleting"
    BY <1>14 DEF DeleteObject, tombstoneVars, requestVars
  <2>2. \A h \in Handler : \A at \in {"erased", "error"} :
            [h EXCEPT !.at = at] \in Handler /\ [h EXCEPT !.at = at].at = at
    BY DEF Handler
  <2> DEFINE erased == [handler[w][k] EXCEPT !.at = "erased"]
             error == [handler[w][k] EXCEPT !.at = "error"]
  <2>3. /\ erased \in Handler /\ erased.at = "erased"
        /\ error \in Handler /\ error.at = "error"
    BY <2>2, HandlerType
  <2> /\ \A j \in Key : status'[j] = None <=> status[j] = None
      /\ \A j \in Key : status'[j] = "completed" => status[j] = "completed"
      /\ handler[w][k].at # "idle"
    BY <2>1
  <2>4. CASE ConfirmAbsence(w, k)
    <3>1. /\ ~object'[k] /\ \A j \in Key : object'[j] => object[j]
          /\ \A j \in Key : misread[j] /\ object'[j] => misread'[j]
      BY <2>4 DEF ConfirmAbsence, TypeOK
    <3>2. Step(w, k, erased)
      BY <2>4 DEF ConfirmAbsence
    <3> HIDE DEF erased
    <3>3. QED
      BY <2>1, <2>3, <3>1, <3>2, OwnershipHandled
  <2>5. CASE MisreadAbsence(w, k)
    <3>1. /\ misread'[k] = object[k] /\ object' = object
          /\ \A j \in Key : j # k => misread'[j] = misread[j]
      BY <2>5 DEF MisreadAbsence, TypeOK
    <3>2. Step(w, k, erased)
      BY <2>5 DEF MisreadAbsence
    <3>3. /\ \A j \in Key : object'[j] => object[j]
          /\ \A j \in Key : misread[j] /\ object'[j] => misread'[j]
          /\ ~object'[k] \/ misread'[k]
      BY <3>1
    <3> HIDE DEF erased
    <3>4. QED
      BY <2>1, <2>3, <3>2, <3>3, OwnershipHandled
  <2>6. CASE MeetError(w, k, "error")
    <3>1. /\ \A j \in Key : object'[j] => object[j]
          /\ misread' = misread
      BY <2>6, LostAnswer DEF MeetError
    <3>2. error.at \notin {"erased", "completing", "reconciled"}
      BY <2>3
    <3>3. Step(w, k, error)
      BY <2>6 DEF MeetError
    <3> HIDE DEF error
    <3>4. QED
      BY <2>1, <2>3, <3>1, <3>2, <3>3, OwnershipHandled
  <2>7. QED
    BY <1>14, <2>4, <2>5, <2>6 DEF DeleteObject
<1>15. ASSUME NEW w \in Worker, NEW k \in Key,
              RecordFailure(w, k) \/ LoseHandler(w, k)
       PROVE  Ownership'
  <2>1. /\ UNCHANGED <<document, object, stray, misread, upload, listing>>
        /\ Step(w, k, Idle)
    BY <1>15 DEF RecordFailure, LoseHandler, storageVars, requestVars
  <2>2. \A j \in Key : /\ status'[j] = None <=> status[j] = None
                       /\ status'[j] = "completed" => status[j] = "completed"
    BY <1>15, ErasureAssumption DEF RecordFailure, LoseHandler, HoldsLease,
       tombstoneVars, TypeOK, TombstoneStatus, Settled
  <2>3. QED
    BY <2>1, <2>2, IdleType, OwnershipHandled
<1>16. ASSUME NEW w \in Worker, NEW k \in Key, CompleteErasure(w, k) PROVE Ownership'
  <2>1. UNCHANGED <<document, object, stray, misread, upload, listing, status>>
        /\ HasErased(w, k)
    BY <1>16 DEF CompleteErasure, storageVars, tombstoneVars, requestVars, HasErased
  <2> DEFINE h == [handler[w][k] EXCEPT !.at = "completing", !.request = LinkOf(w, k)]
  <2>2. h \in Handler
    <3>1. LinkOf(w, k) \in Request \cup {None}
      BY DEF LinkOf, TypeOK, Handler
    <3>2. QED
      BY <3>1, HandlerType DEF Handler
  <2>3. CASE Step(w, k, Idle)
    BY <2>1, <2>3, IdleType, OwnershipHandled
  <2>4. CASE Step(w, k, h)
    <3>1. handler[w][k].at # "idle"
      BY <2>1 DEF HasErased
    <3> HIDE DEF h
    <3>2. QED
      BY <2>1, <2>2, <2>4, <3>1, OwnershipHandled
  <2>5. QED
    BY <1>16, <2>3, <2>4 DEF CompleteErasure
<1>17. ASSUME NEW w \in Worker, NEW k \in Key, ReconcilePrivacy(w, k) PROVE Ownership'
  <2>1. UNCHANGED <<document, object, stray, misread, upload, listing, status>>
        /\ HasErased(w, k)
    BY <1>17 DEF ReconcilePrivacy, storageVars, tombstoneVars, requestVars, HasErased
  <2>2. \E outcome \in RequestStatus :
            Step(w, k, [handler[w][k] EXCEPT !.at = "reconciled", !.outcome = outcome])
    BY <1>17 DEF ReconcilePrivacy, Terminal, RequestStatus
  <2>3. PICK outcome \in RequestStatus :
            Step(w, k, [handler[w][k] EXCEPT !.at = "reconciled", !.outcome = outcome])
    BY <2>2
  <2> DEFINE h == [handler[w][k] EXCEPT !.at = "reconciled", !.outcome = outcome]
  <2>4. h \in Handler /\ Step(w, k, h)
    BY <2>3, HandlerType DEF Handler
  <2>5. handler[w][k].at # "idle"
    BY <2>1 DEF HasErased
  <2> HIDE DEF h
  <2>6. QED
    BY <2>1, <2>4, <2>5, OwnershipHandled
<1>18. ASSUME NEW w \in Worker, NEW k \in Key, CommitErasure(w, k) PROVE Ownership'
  <2>1. UNCHANGED <<document, object, stray, misread, upload, listing>>
        /\ HasErased(w, k) /\ LocksRow(w, k) /\ Step(w, k, Idle)
    BY <1>18 DEF CommitErasure, storageVars, HasErased, LocksRow
  <2>2. status[k] # None
    BY <2>1 DEF Ownership, HasErased
  <2>3. /\ status'[k] = "completed" /\ "completed" # None
        /\ \A j \in Key : j # k => status'[j] = status[j]
    BY <1>18, ErasureAssumption DEF CommitErasure, TypeOK, TombstoneStatus, Settled
  <2>4. QED
    BY <2>1, <2>2, <2>3, IdleType, OwnershipHandled
<1>19. CASE UNCHANGED vars
  <2>1. UNCHANGED <<document, status, handler, stray, misread, object, upload, listing>>
    BY <1>19 DEF vars, storageVars, tombstoneVars, requestVars
  <2>2. QED
    BY <2>1, OwnershipKept DEF Ownership
<1>20. QED
  BY <1>1, <1>2, <1>3, <1>4, <1>5, <1>6, <1>7, <1>8, <1>9, <1>10, <1>11, <1>12,
     <1>13, <1>14, <1>15, <1>16, <1>17, <1>18, <1>19
     DEF Next, ClaimSome, EndFulfilment, HandlerStep

\* Ownership holds in every reachable state.
LEMMA OwnershipCorrect == Spec => []Ownership
<1>1. TypeOK /\ Custody /\ Ownership /\ [Next]_vars => Ownership'
  BY OwnershipStep
<1>2. QED
  BY <1>1, InitOwnership, ErasureTypeCorrect, CustodyCorrect, PTL DEF Spec

\* A completed tombstone means an absent object, unless an upload that was
\* running when its document was removed stored it afterwards.
THEOREM ErasedObjectsStayGone == Spec => []ErasedObjectsAreGone
<1>1. Ownership => ErasedObjectsAreGone
  BY DEF Ownership
<1>2. QED
  BY <1>1, OwnershipCorrect, PTL

\* Every stored object has a document row or a tombstone.
THEOREM NoObjectIsLost == Spec => []ObjectsAreAccountedFor
<1>1. TypeOK /\ Ownership => ObjectsAreAccountedFor
  BY DEF Ownership, TypeOK, ObjectsAreAccountedFor
<1>2. QED
  BY <1>1, ErasureTypeCorrect, OwnershipCorrect, PTL

-----------------------------------------------------------------------------
(* Closing of privacy requests. *)

LEMMA InitClosing == Init => Closing
<1> SUFFICES ASSUME Init PROVE Closing
  OBVIOUS
<1>1. /\ \A k \in Key : link[k] = None
      /\ \A w \in Worker, k \in Key : handler[w][k].at = "idle"
                                      /\ handler[w][k].request = None
      /\ \A r \in Request : /\ listing[r] = {} /\ promised[r] = {}
                            /\ fulfilling[r] = None /\ rstatus[r] = None
                            /\ \A v \in Visitor : visit[r][v] = None
  BY DEF Init, Idle
<1>2. "completed" # None
  BY ErasureAssumption DEF RequestStatus, Terminal
<1>3. QED
  BY <1>1, <1>2 DEF Closing, Links, Reconciled, Verification,
                    CompletedRequestsAreErased

\* Only the fulfilment of a verified request sets links, and it keeps those
\* that are set.
LEMMA LinksStay ==
    ASSUME TypeOK, [Next]_vars
    PROVE  /\ \A k \in Key : link[k] # None => link'[k] = link[k]
           /\ \A r \in Request : verified[r] => verified'[r]
<1> DEFINE Kept == /\ \A k \in Key : link[k] # None => link'[k] = link[k]
                   /\ \A r \in Request : verified[r] => verified'[r]
<1>1. CASE UNCHANGED <<link, verified>>
  BY <1>1
<1>2. ASSUME NEW r \in Request, FinishFulfilment(r) PROVE Kept
  BY <1>2 DEF FinishFulfilment, AdoptLink
<1>3. ASSUME NEW r \in Request, NEW v \in Visitor, VerifyRequest(r, v) PROVE Kept
  BY <1>3 DEF VerifyRequest, TypeOK, tombstoneVars
<1>4. ASSUME NEW k \in Key,
             \/ ReserveDocument(k) \/ PutObject(k) \/ LoseUpload(k)
             \/ DeleteReservedDocument(k) \/ DeleteStorageObject(k)
             \/ DeleteDocument(k) \/ LeaseRunsOut(k)
      PROVE  UNCHANGED <<link, verified>>
  BY <1>4 DEF ReserveDocument, PutObject, LoseUpload, DeleteReservedDocument,
              DeleteStorageObject, DeleteDocument, LeaseRunsOut, tombstoneVars,
              requestVars
<1>5. ASSUME NEW c \in Candidate, DeleteCandidate(c) PROVE UNCHANGED <<link, verified>>
  BY <1>5 DEF DeleteCandidate, requestVars
<1>6. ASSUME NEW r \in Request,
             \/ SubmitRequest(r) \/ AbortFulfilment(r)
             \/ \E v \in Visitor : ReadForVerification(r, v)
             \/ \E next \in Decision : PatchRequest(r, next)
             \/ \E c \in Candidate : BeginFulfilment(r, c)
      PROVE  UNCHANGED <<link, verified>>
  BY <1>6 DEF SubmitRequest, AbortFulfilment, ReadForVerification, PatchRequest,
              BeginFulfilment, tombstoneVars
<1>7. ASSUME NEW w \in Worker, ClaimSome(w) PROVE UNCHANGED <<link, verified>>
  BY <1>7 DEF ClaimSome, ClaimErasures, requestVars
<1>8. ASSUME NEW w \in Worker, NEW k \in Key,
             HandlerStep(w, k) \/ ReconcilePrivacy(w, k) \/ LoseHandler(w, k)
      PROVE  UNCHANGED <<link, verified>>
  BY <1>8 DEF HandlerStep, DeleteObject, RecordFailure, CompleteErasure,
              CommitErasure, ReconcilePrivacy, LoseHandler, tombstoneVars, requestVars
<1>9. CASE UNCHANGED vars
  BY <1>1, <1>9 DEF vars, tombstoneVars, requestVars
<1>10. QED
  BY <1>1, <1>2, <1>3, <1>4, <1>5, <1>6, <1>7, <1>8, <1>9 DEF Next, EndFulfilment

\* Only the commit of its handler completes a tombstone.
LEMMA CompletedByCommit ==
    ASSUME TypeOK, [Next]_vars, NEW k \in Key, status'[k] = "completed"
    PROVE  status[k] = "completed" \/ \E w \in Worker : CommitErasure(w, k)
<1> DEFINE Goal == status[k] = "completed" \/ \E w \in Worker : CommitErasure(w, k)
<1>1. CASE status' = status
  BY <1>1
<1>2. ASSUME NEW K \in SUBSET Key, Remove(K) PROVE Goal
  BY <1>2 DEF Remove, Bury
<1>3. ASSUME NEW w \in Worker, ClaimSome(w) PROVE Goal
  BY <1>3 DEF ClaimSome, ClaimErasures
<1>4. ASSUME NEW w \in Worker, NEW j \in Key, RecordFailure(w, j) PROVE Goal
  BY <1>4 DEF RecordFailure, TypeOK
<1>5. ASSUME NEW w \in Worker, NEW j \in Key, CommitErasure(w, j) PROVE Goal
  <2>1. CASE j = k
    BY <1>5, <2>1
  <2>2. CASE j # k
    BY <1>5, <2>2 DEF CommitErasure, TypeOK
  <2>3. QED
    BY <2>1, <2>2
<1>6. ASSUME NEW w \in Worker, NEW j \in Key,
             \/ DeleteObject(w, j) \/ CompleteErasure(w, j)
             \/ ReconcilePrivacy(w, j) \/ LoseHandler(w, j)
      PROVE  status' = status
  BY <1>6 DEF DeleteObject, CompleteErasure, ReconcilePrivacy, LoseHandler,
              tombstoneVars
<1>7. ASSUME NEW j \in Key,
             \/ ReserveDocument(j) \/ PutObject(j) \/ LoseUpload(j)
             \/ DeleteStorageObject(j) \/ LeaseRunsOut(j)
      PROVE  status' = status
  BY <1>7 DEF ReserveDocument, PutObject, LoseUpload, DeleteStorageObject,
              LeaseRunsOut, tombstoneVars
<1>8. ASSUME NEW r \in Request,
             \/ SubmitRequest(r) \/ AbortFulfilment(r)
             \/ \E v \in Visitor : ReadForVerification(r, v) \/ VerifyRequest(r, v)
             \/ \E next \in Decision : PatchRequest(r, next)
             \/ \E c \in Candidate : BeginFulfilment(r, c)
      PROVE  status' = status
  BY <1>8 DEF SubmitRequest, AbortFulfilment, ReadForVerification, VerifyRequest,
              PatchRequest, BeginFulfilment, tombstoneVars
<1>9. ASSUME NEW j \in Key, DeleteReservedDocument(j) \/ DeleteDocument(j) PROVE Goal
  <2>1. {j} \in SUBSET Key
    OBVIOUS
  <2>2. QED
    BY <1>1, <1>2, <1>9, <2>1 DEF DeleteReservedDocument, DeleteDocument
<1>10. ASSUME NEW c \in Candidate, DeleteCandidate(c) PROVE Goal
  <2>1. DocumentsOf(c) \in SUBSET Key
    BY DEF DocumentsOf
  <2>2. QED
    BY <1>2, <1>10, <2>1 DEF DeleteCandidate
<1>11. ASSUME NEW r \in Request, FinishFulfilment(r) PROVE Goal
  <2>1. Remove(listing[r]) /\ listing[r] \in SUBSET Key
    BY <1>11 DEF FinishFulfilment, TypeOK
  <2>2. QED
    BY <1>2, <2>1
<1>12. CASE UNCHANGED vars
  BY <1>1, <1>12 DEF vars, tombstoneVars
<1>13. QED
  BY <1>1, <1>3, <1>4, <1>5, <1>6, <1>7, <1>8, <1>9, <1>10, <1>11, <1>12
     DEF Next, EndFulfilment, HandlerStep

\* A handler that reconciled is new to it or as it was, and the request a
\* handler knows is the one it knew or the link of its tombstone.
LEMMA HandlerOrigin ==
    ASSUME TypeOK, [Next]_vars, NEW w \in Worker, NEW k \in Key
    PROVE  /\ handler'[w][k].at = "reconciled" =>
                  handler'[w][k] = handler[w][k] \/ ReconcilePrivacy(w, k)
           /\ handler'[w][k].request # None =>
                  handler'[w][k].request \in {handler[w][k].request, link[k]}
<1> DEFINE Goal == /\ handler'[w][k].at = "reconciled" =>
                          handler'[w][k] = handler[w][k] \/ ReconcilePrivacy(w, k)
                   /\ handler'[w][k].request # None =>
                          handler'[w][k].request \in {handler[w][k].request, link[k]}
<1>1. CASE handler'[w][k] = handler[w][k] \/ handler'[w][k] = Idle
  BY <1>1, IdleType
<1>2. ASSUME NEW v \in Worker, ClaimSome(v) PROVE Goal
  <2>1. PICK E \in SUBSET Key, C \in SUBSET Key : ClaimErasures(v, E, C)
    BY <1>2 DEF ClaimSome
  <2>2. \/ handler'[w][k] = handler[w][k] \/ handler'[w][k] = Idle
        \/ handler'[w][k].at = "deleting" /\ handler'[w][k].request = link[k]
    BY <2>1 DEF ClaimErasures, TypeOK
  <2>3. QED
    BY <1>1, <2>2
<1>3. ASSUME NEW v \in Worker, NEW j \in Key,
             HandlerStep(v, j) \/ ReconcilePrivacy(v, j) \/ LoseHandler(v, j)
      PROVE  Goal
  <2>1. CASE <<v, j>> # <<w, k>>
    <3>1. \E h : Step(v, j, h)
      BY <1>3, DeletionForm
         DEF HandlerStep, RecordFailure, CompleteErasure, CommitErasure,
             ReconcilePrivacy, LoseHandler
    <3>2. handler'[w][k] = handler[w][k]
      BY <2>1, <3>1 DEF Step, TypeOK
    <3>3. QED
      BY <1>1, <3>2
  <2>2. CASE v = w /\ j = k
    <3>1. CASE \E at \in {"erased", "error"} :
                   Step(w, k, [handler[w][k] EXCEPT !.at = at])
      BY <3>1, HandlerType DEF Step, TypeOK, Handler
    <3>2. CASE Step(w, k, Idle)
      BY <1>1, <3>2 DEF Step, TypeOK
    <3>3. CASE Step(w, k, [handler[w][k] EXCEPT !.at = "completing",
                                                !.request = LinkOf(w, k)])
      BY <3>3, HandlerType DEF Step, TypeOK, Handler, LinkOf
    <3>4. CASE ReconcilePrivacy(w, k)
      BY <3>4, HandlerType DEF ReconcilePrivacy, Step, TypeOK, Handler
    <3>5. QED
      BY <1>3, <2>2, <3>1, <3>2, <3>3, <3>4, DeletionForm
         DEF HandlerStep, RecordFailure, CompleteErasure, CommitErasure, LoseHandler
  <2>3. QED
    BY <2>1, <2>2
<1>4. ASSUME NEW j \in Key,
             \/ ReserveDocument(j) \/ PutObject(j) \/ LoseUpload(j)
             \/ DeleteReservedDocument(j) \/ DeleteStorageObject(j)
             \/ DeleteDocument(j) \/ LeaseRunsOut(j)
      PROVE  handler' = handler
  BY <1>4 DEF ReserveDocument, PutObject, LoseUpload, DeleteReservedDocument,
              DeleteStorageObject, DeleteDocument, LeaseRunsOut
<1>5. ASSUME NEW c \in Candidate, DeleteCandidate(c) PROVE handler' = handler
  BY <1>5 DEF DeleteCandidate
<1>6. ASSUME NEW r \in Request,
             \/ SubmitRequest(r) \/ EndFulfilment(r)
             \/ \E v \in Visitor : ReadForVerification(r, v) \/ VerifyRequest(r, v)
             \/ \E next \in Decision : PatchRequest(r, next)
             \/ \E c \in Candidate : BeginFulfilment(r, c)
      PROVE  handler' = handler
  BY <1>6 DEF SubmitRequest, EndFulfilment, FinishFulfilment, AbortFulfilment,
              ReadForVerification, VerifyRequest, PatchRequest, BeginFulfilment
<1>7. CASE UNCHANGED vars
  BY <1>1, <1>7 DEF vars
<1>8. QED
  BY <1>1, <1>2, <1>3, <1>4, <1>5, <1>6, <1>7 DEF Next

\* While a handler that reconciled request r has not committed, no fulfilment
\* of r begins, and none of r was open to end.
LEMMA ReconciledRequestStays ==
    ASSUME TypeOK, [Next]_vars, NEW r \in Request, fulfilling[r] = None,
           NEW w \in Worker, NEW k \in Key, handler[w][k].at = "reconciled",
           handler[w][k].request = r
    PROVE  fulfilling'[r] = None /\ promised'[r] = promised[r]
<1> DEFINE Goal == fulfilling'[r] = None /\ promised'[r] = promised[r]
<1>1. CASE UNCHANGED <<fulfilling, promised>>
  BY <1>1
<1>2. ASSUME NEW q \in Request, NEW c \in Candidate, BeginFulfilment(q, c) PROVE Goal
  <2>1. q # r
    BY <1>2 DEF BeginFulfilment, RequestIsFree
  <2>2. QED
    BY <1>2, <2>1 DEF BeginFulfilment, TypeOK
<1>3. ASSUME NEW q \in Request, EndFulfilment(q) PROVE Goal
  BY <1>3 DEF EndFulfilment, FinishFulfilment, AbortFulfilment, TypeOK
<1>4. ASSUME NEW j \in Key,
             \/ ReserveDocument(j) \/ PutObject(j) \/ LoseUpload(j)
             \/ DeleteReservedDocument(j) \/ DeleteStorageObject(j)
             \/ DeleteDocument(j) \/ LeaseRunsOut(j)
      PROVE  UNCHANGED <<fulfilling, promised>>
  BY <1>4 DEF ReserveDocument, PutObject, LoseUpload, DeleteReservedDocument,
              DeleteStorageObject, DeleteDocument, LeaseRunsOut, requestVars
<1>5. ASSUME NEW c \in Candidate, DeleteCandidate(c)
      PROVE  UNCHANGED <<fulfilling, promised>>
  BY <1>5 DEF DeleteCandidate, requestVars
<1>6. ASSUME NEW q \in Request,
             \/ SubmitRequest(q)
             \/ \E v \in Visitor : ReadForVerification(q, v) \/ VerifyRequest(q, v)
             \/ \E next \in Decision : PatchRequest(q, next)
      PROVE  UNCHANGED <<fulfilling, promised>>
  BY <1>6 DEF SubmitRequest, ReadForVerification, VerifyRequest, PatchRequest
<1>7. ASSUME NEW v \in Worker, ClaimSome(v) PROVE UNCHANGED <<fulfilling, promised>>
  BY <1>7 DEF ClaimSome, ClaimErasures, requestVars
<1>8. ASSUME NEW v \in Worker, NEW j \in Key,
             HandlerStep(v, j) \/ ReconcilePrivacy(v, j) \/ LoseHandler(v, j)
      PROVE  UNCHANGED <<fulfilling, promised>>
  BY <1>8 DEF HandlerStep, DeleteObject, RecordFailure, CompleteErasure,
              CommitErasure, ReconcilePrivacy, LoseHandler, requestVars
<1>9. CASE UNCHANGED vars
  BY <1>1, <1>9 DEF vars, requestVars
<1>10. QED
  BY <1>1, <1>2, <1>3, <1>4, <1>5, <1>6, <1>7, <1>8, <1>9 DEF Next

\* A removed document stays removed.
LEMMA RemovedStays ==
    ASSUME TypeOK, [Next]_vars, NEW k \in Key, document[k] = "removed"
    PROVE  document'[k] = "removed"
<1>1. CASE document' = document
  BY <1>1
<1>2. ASSUME NEW K, Remove(K) PROVE document'[k] = "removed"
  BY <1>2 DEF Remove
<1>3. ASSUME NEW j \in Key, ReserveDocument(j) PROVE document'[k] = "removed"
  BY <1>3 DEF ReserveDocument, TypeOK
<1>4. ASSUME NEW j \in Key,
             \/ PutObject(j) \/ LoseUpload(j) \/ DeleteReservedDocument(j)
             \/ DeleteStorageObject(j) \/ DeleteDocument(j) \/ LeaseRunsOut(j)
      PROVE  document' = document \/ \E K : Remove(K)
  BY <1>4 DEF PutObject, LoseUpload, DeleteReservedDocument, DeleteStorageObject,
              DeleteDocument, LeaseRunsOut, storageVars
<1>5. ASSUME NEW c \in Candidate, DeleteCandidate(c) PROVE \E K : Remove(K)
  BY <1>5 DEF DeleteCandidate
<1>6. ASSUME NEW r \in Request,
             \/ SubmitRequest(r) \/ EndFulfilment(r)
             \/ \E v \in Visitor : ReadForVerification(r, v) \/ VerifyRequest(r, v)
             \/ \E next \in Decision : PatchRequest(r, next)
             \/ \E c \in Candidate : BeginFulfilment(r, c)
      PROVE  document' = document \/ \E K : Remove(K)
  BY <1>6 DEF SubmitRequest, EndFulfilment, FinishFulfilment, AbortFulfilment,
              ReadForVerification, VerifyRequest, PatchRequest, BeginFulfilment,
              storageVars
<1>7. ASSUME NEW w \in Worker, ClaimSome(w) PROVE document' = document
  BY <1>7 DEF ClaimSome, ClaimErasures, storageVars
<1>8. ASSUME NEW w \in Worker, NEW j \in Key,
             HandlerStep(w, j) \/ ReconcilePrivacy(w, j) \/ LoseHandler(w, j)
      PROVE  document' = document
  BY <1>8 DEF HandlerStep, DeleteObject, RecordFailure, CompleteErasure,
              CommitErasure, ReconcilePrivacy, LoseHandler, storageVars
<1>9. CASE UNCHANGED vars
  BY <1>1, <1>9 DEF vars, storageVars
<1>10. QED
  BY <1>1, <1>2, <1>3, <1>4, <1>5, <1>6, <1>7, <1>8, <1>9 DEF Next

LEMMA LinksStep == ASSUME TypeOK, Links, [Next]_vars PROVE Links'
<1>1. CASE UNCHANGED <<link, listing, fulfilling, promised>>
  BY <1>1, RemovedStays, LinksStay, ErasureAssumption DEF Links, TypeOK
<1>2. ASSUME NEW r \in Request, NEW c \in Candidate, BeginFulfilment(r, c) PROVE Links'
  <2>1. /\ UNCHANGED <<document, link, verified, promised>>
        /\ \A q \in Request : q # r =>
               fulfilling'[q] = fulfilling[q] /\ listing'[q] = listing[q]
        /\ fulfilling'[r] = c /\ listing'[r] = DocumentsOf(c)
        /\ verified[r] /\ \A q \in Request : fulfilling[q] # c
    BY <1>2 DEF BeginFulfilment, CandidateIsFree, TypeOK, storageVars, tombstoneVars
  <2>2. \A k \in DocumentsOf(c) : link[k] = None /\ Owner[k] = c
    BY DEF DocumentsOf, Links
  <2>3. QED
    BY <2>1, <2>2 DEF Links
<1>3. ASSUME NEW r \in Request, FinishFulfilment(r) PROVE Links'
  <2>1. /\ UNCHANGED verified
        /\ \A q \in Request : q # r => /\ fulfilling'[q] = fulfilling[q]
                                       /\ listing'[q] = listing[q]
                                       /\ promised'[q] = promised[q]
        /\ fulfilling'[r] = None /\ listing'[r] = {}
        /\ promised'[r] = promised[r] \cup listing[r]
        /\ fulfilling[r] # None
    BY <1>3 DEF FinishFulfilment, TypeOK
  <2>2. \A k \in Key : link'[k] = IF k \in listing[r] THEN r ELSE link[k]
    BY <1>3 DEF FinishFulfilment, AdoptLink, Links
  <2>3. \A k \in listing[r] : document'[k] = "removed"
    BY <1>3 DEF FinishFulfilment, Remove, TypeOK
  <2>4. \A q \in Request : \A k \in listing[q] : q # r => k \notin listing[r]
    <3> SUFFICES ASSUME NEW q \in Request, NEW k \in listing[q], k \in listing[r]
                 PROVE  q = r
      OBVIOUS
    <3>1. Owner[k] = fulfilling[q] /\ Owner[k] = fulfilling[r]
      BY DEF Links
    <3>2. QED
      BY <2>1, <3>1 DEF Links
  <2>5. (\A k \in Key : link[k] # None => document[k] = "removed" /\ verified[link[k]])'
    BY <2>1, <2>2, <2>3, RemovedStays DEF Links
  <2>6. (\A q \in Request : \A k \in listing[q] :
             link[k] = None /\ Owner[k] = fulfilling[q])'
    <3> SUFFICES ASSUME NEW q \in Request, NEW k \in listing'[q]
                 PROVE  link'[k] = None /\ Owner[k] = fulfilling'[q]
      OBVIOUS
    <3>1. q # r /\ k \in listing[q] /\ k \in Key
      BY <2>1 DEF TypeOK
    <3>2. QED
      BY <3>1, <2>1, <2>2, <2>4 DEF Links
  <2>7. (\A p, q \in Request :
             fulfilling[p] = fulfilling[q] /\ fulfilling[q] # None => p = q)'
    BY <2>1 DEF Links
  <2>8. (\A q \in Request : fulfilling[q] # None => verified[q])'
    BY <2>1 DEF Links
  <2>9. (\A q \in Request : \A k \in promised[q] : link[k] = q)'
    <3> SUFFICES ASSUME NEW q \in Request, NEW k \in promised'[q]
                 PROVE  link'[k] = q
      OBVIOUS
    <3>1. k \in Key /\ (k \in promised[q] \/ (q = r /\ k \in listing[r]))
      BY <2>1 DEF TypeOK
    <3>2. CASE k \in listing[r]
      <4>1. link[k] = None /\ None \notin Request
        BY <3>2, ErasureAssumption DEF Links
      <4>2. QED
        BY <2>2, <3>1, <3>2, <4>1 DEF Links
    <3>3. CASE k \notin listing[r]
      BY <2>2, <3>1, <3>3 DEF Links
    <3>4. QED
      BY <3>2, <3>3
  <2>10. QED
    BY <2>5, <2>6, <2>7, <2>8, <2>9 DEF Links
<1>4. ASSUME NEW r \in Request, AbortFulfilment(r) PROVE Links'
  <2>1. /\ UNCHANGED <<document, link, verified, promised>>
        /\ \A q \in Request : q # r =>
               fulfilling'[q] = fulfilling[q] /\ listing'[q] = listing[q]
        /\ fulfilling'[r] = None /\ listing'[r] = {}
    BY <1>4 DEF AbortFulfilment, TypeOK, storageVars, tombstoneVars
  <2>2. QED
    BY <2>1 DEF Links
<1>5. ASSUME NEW k \in Key,
             \/ ReserveDocument(k) \/ PutObject(k) \/ LoseUpload(k)
             \/ DeleteReservedDocument(k) \/ DeleteStorageObject(k)
             \/ DeleteDocument(k) \/ LeaseRunsOut(k)
      PROVE  UNCHANGED <<link, listing, fulfilling, promised>>
  BY <1>5 DEF ReserveDocument, PutObject, LoseUpload, DeleteReservedDocument,
              DeleteStorageObject, DeleteDocument, LeaseRunsOut, tombstoneVars,
              requestVars
<1>6. ASSUME NEW c \in Candidate, DeleteCandidate(c)
      PROVE  UNCHANGED <<link, listing, fulfilling, promised>>
  BY <1>6 DEF DeleteCandidate, requestVars
<1>7. ASSUME NEW r \in Request,
             \/ SubmitRequest(r)
             \/ \E v \in Visitor : ReadForVerification(r, v) \/ VerifyRequest(r, v)
             \/ \E next \in Decision : PatchRequest(r, next)
      PROVE  UNCHANGED <<link, listing, fulfilling, promised>>
  BY <1>7 DEF SubmitRequest, ReadForVerification, VerifyRequest, PatchRequest,
              tombstoneVars
<1>8. ASSUME NEW w \in Worker, ClaimSome(w)
      PROVE  UNCHANGED <<link, listing, fulfilling, promised>>
  BY <1>8 DEF ClaimSome, ClaimErasures, requestVars
<1>9. ASSUME NEW w \in Worker, NEW k \in Key,
             HandlerStep(w, k) \/ ReconcilePrivacy(w, k) \/ LoseHandler(w, k)
      PROVE  UNCHANGED <<link, listing, fulfilling, promised>>
  BY <1>9 DEF HandlerStep, DeleteObject, RecordFailure, CompleteErasure,
              CommitErasure, ReconcilePrivacy, LoseHandler, tombstoneVars, requestVars
<1>10. CASE UNCHANGED vars
  BY <1>1, <1>10 DEF vars, tombstoneVars, requestVars
<1>11. QED
  BY <1>1, <1>2, <1>3, <1>4, <1>5, <1>6, <1>7, <1>8, <1>9, <1>10
     DEF Next, EndFulfilment

LEMMA ReconciledStep ==
    ASSUME TypeOK, Custody, Closing, [Next]_vars PROVE Reconciled'
<1>1. ASSUME NEW w \in Worker, NEW k \in Key, handler'[w][k].request # None
      PROVE  verified'[handler'[w][k].request]
  <2>1. handler'[w][k].request \in {handler[w][k].request, link[k]}
    BY <1>1, HandlerOrigin
  <2>2. verified[handler'[w][k].request]
    BY <1>1, <2>1 DEF Closing, Links, Reconciled
  <2>3. handler'[w][k].request \in Request
    BY <1>1, <2>1 DEF TypeOK, Handler
  <2>4. QED
    BY <2>2, <2>3, LinksStay
<1>2. ASSUME NEW w \in Worker, NEW k \in Key, ReconcilePrivacy(w, k)
      PROVE  Stands(w, k)'
  <2> DEFINE r == handler[w][k].request
             outcome == IF rstatus[r] \in Terminal THEN rstatus[r]
                        ELSE IF Unfinished(r, k) = {} THEN "completed"
                        ELSE "in_review"
  <2>1. r \in Request /\ r # None /\ fulfilling[r] = None
    BY <1>2 DEF ReconcilePrivacy, RequestIsFree, TypeOK, Handler
  <2>2. handler'[w][k].request = r /\ handler'[w][k].outcome = outcome
    BY <1>2, HandlerType DEF ReconcilePrivacy, Step, TypeOK, Handler
  <2>3. UNCHANGED <<link, status, fulfilling, promised>>
    BY <1>2 DEF ReconcilePrivacy, tombstoneVars, requestVars
  <2>4. Unfinished(r, k) = {} => \A j \in promised[r] \ {k} : status[j] = "completed"
    BY <2>1 DEF Unfinished, Closing, Links, TypeOK
  <2>5. rstatus[r] = "completed" => \A j \in promised[r] : status[j] = "completed"
    BY <2>1 DEF Closing, CompletedRequestsAreErased
  <2>6. /\ outcome \in Terminal \cup {"in_review"}
        /\ outcome = "completed" =>
               \A j \in promised[r] \ {k} : status[j] = "completed"
        /\ outcome = "in_review" => Unfinished(r, k) # {}
    BY <2>4, <2>5 DEF Terminal
  <2>7. outcome = "in_review" =>
            \E j \in Key \ {k} : link[j] = r /\ status[j] # "completed"
    BY <2>6 DEF Unfinished
  <2> HIDE DEF outcome
  <2>8. QED
    BY <2>1, <2>2, <2>3, <2>6, <2>7 DEF Stands
<1>3. ASSUME NEW w \in Worker, NEW k \in Key, handler[w][k].at = "reconciled",
             handler'[w][k] = handler[w][k]
      PROVE  Stands(w, k)'
  <2> DEFINE r == handler[w][k].request
  <2>1. /\ r \in Request /\ r # None /\ fulfilling[r] = None
        /\ handler[w][k].outcome \in Terminal \cup {"in_review"}
        /\ handler[w][k].outcome = "completed" =>
               \A j \in promised[r] \ {k} : status[j] = "completed"
        /\ handler[w][k].outcome = "in_review" =>
               \E j \in Key \ {k} : link[j] = r /\ status[j] # "completed"
    BY <1>3 DEF Closing, Reconciled, Stands, TypeOK, Handler
  <2>2. fulfilling'[r] = None /\ promised'[r] = promised[r]
    BY <1>3, <2>1, ReconciledRequestStays
  <2>3. handler[w][k].outcome = "completed" =>
            \A j \in promised'[r] \ {k} : status'[j] = "completed"
    BY <2>1, <2>2, SettledStep DEF TypeOK, Settled
  <2>4. ASSUME NEW j \in Key \ {k}, link[j] = r, status[j] # "completed"
        PROVE  link'[j] = r /\ status'[j] # "completed"
    <3>1. link[j] = r /\ status[j] # "completed"
      BY <2>4
    <3>2. link'[j] = r
      BY <2>1, <3>1, LinksStay
    <3>3. ASSUME NEW v \in Worker, CommitErasure(v, j) PROVE FALSE
      <4>1. LocksRow(v, j)
        BY <3>3 DEF CommitErasure, LocksRow
      <4>2. handler[v][j].request = r
        BY <2>1, <3>1, <4>1 DEF Custody
      <4>3. handler[v][j].at = "reconciled"
        BY <2>1, <3>3, <4>2 DEF CommitErasure
      <4>4. QED
        BY <1>3, <3>1, <4>2, <4>3 DEF Closing, Reconciled
    <3>4. QED
      BY <3>1, <3>2, <3>3, CompletedByCommit
  <2>5. handler[w][k].outcome = "in_review" =>
            \E j \in Key \ {k} : link'[j] = r /\ status'[j] # "completed"
    BY <2>1, <2>4
  <2>6. QED
    BY <1>3, <2>1, <2>2, <2>3, <2>5 DEF Stands
<1>4. ASSUME NEW w \in Worker, NEW k \in Key, handler'[w][k].at = "reconciled"
      PROVE  Stands(w, k)'
  <2>1. handler'[w][k] = handler[w][k] \/ ReconcilePrivacy(w, k)
    BY <1>4, HandlerOrigin
  <2>2. CASE ReconcilePrivacy(w, k)
    BY <1>2, <2>2
  <2>3. CASE handler'[w][k] = handler[w][k]
    <3>1. handler[w][k].at = "reconciled"
      BY <1>4, <2>3
    <3>2. QED
      BY <1>3, <2>3, <3>1
  <2>4. QED
    BY <2>1, <2>2, <2>3
<1>5. ASSUME NEW v \in Worker, NEW w \in Worker, NEW j \in Key, NEW k \in Key,
             handler'[v][j].at = "reconciled", handler'[w][k].at = "reconciled",
             handler'[v][j].request = handler'[w][k].request
      PROVE  v = w /\ j = k
  <2>1. ASSUME NEW x \in Worker, NEW l \in Key, NEW y \in Worker, NEW m \in Key,
               ReconcilePrivacy(x, l), <<y, m>> # <<x, l>>,
               handler'[y][m].at = "reconciled",
               handler'[y][m].request = handler'[x][l].request
        PROVE  FALSE
    <3>1. handler'[y][m] = handler[y][m]
      BY <2>1 DEF ReconcilePrivacy, Step, TypeOK
    <3>2. handler'[x][l].request = handler[x][l].request
      BY <2>1, HandlerType DEF ReconcilePrivacy, Step, TypeOK, Handler
    <3>3. QED
      BY <2>1, <3>1, <3>2 DEF ReconcilePrivacy, RequestIsFree
  <2>2. /\ handler'[v][j] = handler[v][j] \/ ReconcilePrivacy(v, j)
        /\ handler'[w][k] = handler[w][k] \/ ReconcilePrivacy(w, k)
    BY <1>5, HandlerOrigin
  <2>3. CASE handler'[v][j] = handler[v][j] /\ handler'[w][k] = handler[w][k]
    BY <1>5, <2>3 DEF Closing, Reconciled
  <2>4. CASE ReconcilePrivacy(v, j)
    BY <1>5, <2>1, <2>4
  <2>5. CASE ReconcilePrivacy(w, k)
    BY <1>5, <2>1, <2>5
  <2>6. QED
    BY <2>2, <2>3, <2>4, <2>5
<1>6. QED
  BY <1>1, <1>4, <1>5 DEF Reconciled

\* A request becomes completed by a fulfilment or by the commit of a handler;
\* otherwise it was, and no fulfilment touched it.
LEMMA RequestCompletedBy ==
    ASSUME TypeOK, Verification, [Next]_vars, NEW r \in Request,
           rstatus'[r] = "completed"
    PROVE  \/ rstatus[r] = "completed" /\ promised'[r] = promised[r]
           \/ FinishFulfilment(r)
           \/ \E w \in Worker, k \in Key :
                  /\ CommitErasure(w, k) /\ handler[w][k].at = "reconciled"
                  /\ handler[w][k].request = r
                  /\ handler[w][k].outcome = "completed"
<1> DEFINE Goal ==
        \/ rstatus[r] = "completed" /\ promised'[r] = promised[r]
        \/ FinishFulfilment(r)
        \/ \E w \in Worker, k \in Key :
               /\ CommitErasure(w, k) /\ handler[w][k].at = "reconciled"
               /\ handler[w][k].request = r
               /\ handler[w][k].outcome = "completed"
<1>1. CASE UNCHANGED <<rstatus, promised>>
  BY <1>1
<1>2. ASSUME NEW q \in Request, SubmitRequest(q) PROVE Goal
  BY <1>2 DEF SubmitRequest, TypeOK
<1>3. ASSUME NEW q \in Request, NEW v \in Visitor, VerifyRequest(q, v) PROVE Goal
  <2>1. visit[q][v] # "completed"
    BY DEF Verification
  <2>2. QED
    BY <1>3, <2>1 DEF VerifyRequest, TypeOK
<1>4. ASSUME NEW q \in Request, NEW next \in Decision, PatchRequest(q, next) PROVE Goal
  <2>1. next # "completed"
    BY ErasureAssumption
  <2>2. QED
    BY <1>4, <2>1 DEF PatchRequest, TypeOK
<1>5. ASSUME NEW q \in Request, FinishFulfilment(q) PROVE Goal
  BY <1>5 DEF FinishFulfilment, TypeOK
<1>6. ASSUME NEW w \in Worker, NEW k \in Key, CommitErasure(w, k) PROVE Goal
  <2>1. promised' = promised
    BY <1>6 DEF CommitErasure
  <2>2. CASE handler[w][k].request = r /\ r # None
    BY <1>6, <2>2 DEF CommitErasure, TypeOK
  <2>3. CASE handler[w][k].request # r
    BY <1>6, <2>1, <2>3 DEF CommitErasure, TypeOK
  <2>4. r # None
    BY ErasureAssumption
  <2>5. QED
    BY <2>2, <2>3, <2>4
<1>7. ASSUME NEW w \in Worker, NEW k \in Key,
             \/ DeleteObject(w, k) \/ RecordFailure(w, k) \/ CompleteErasure(w, k)
             \/ ReconcilePrivacy(w, k) \/ LoseHandler(w, k)
      PROVE  UNCHANGED <<rstatus, promised>>
  BY <1>7 DEF DeleteObject, RecordFailure, CompleteErasure, ReconcilePrivacy,
              LoseHandler, requestVars
<1>8. ASSUME NEW k \in Key,
             \/ ReserveDocument(k) \/ PutObject(k) \/ LoseUpload(k)
             \/ DeleteReservedDocument(k) \/ DeleteStorageObject(k)
             \/ DeleteDocument(k) \/ LeaseRunsOut(k)
      PROVE  UNCHANGED <<rstatus, promised>>
  BY <1>8 DEF ReserveDocument, PutObject, LoseUpload, DeleteReservedDocument,
              DeleteStorageObject, DeleteDocument, LeaseRunsOut, requestVars
<1>9. ASSUME NEW c \in Candidate, DeleteCandidate(c) PROVE UNCHANGED <<rstatus, promised>>
  BY <1>9 DEF DeleteCandidate, requestVars
<1>10. ASSUME NEW q \in Request,
              \/ AbortFulfilment(q) \/ \E v \in Visitor : ReadForVerification(q, v)
              \/ \E c \in Candidate : BeginFulfilment(q, c)
       PROVE  UNCHANGED <<rstatus, promised>>
  BY <1>10 DEF AbortFulfilment, ReadForVerification, BeginFulfilment
<1>11. ASSUME NEW w \in Worker, ClaimSome(w) PROVE UNCHANGED <<rstatus, promised>>
  BY <1>11 DEF ClaimSome, ClaimErasures, requestVars
<1>12. CASE UNCHANGED vars
  BY <1>1, <1>12 DEF vars, requestVars
<1>13. QED
  BY <1>1, <1>2, <1>3, <1>4, <1>5, <1>6, <1>7, <1>8, <1>9, <1>10, <1>11, <1>12
     DEF Next, EndFulfilment, HandlerStep

\* What a verification reads it reads of an unverified request.
LEMMA VisitOrigin ==
    ASSUME TypeOK, [Next]_vars, NEW r \in Request, NEW v \in Visitor,
           visit'[r][v] # None
    PROVE  visit'[r][v] = visit[r][v] \/ (visit'[r][v] = rstatus[r] /\ ~verified[r])
<1> DEFINE Goal ==
        visit'[r][v] = visit[r][v] \/ (visit'[r][v] = rstatus[r] /\ ~verified[r])
<1>1. CASE visit' = visit
  BY <1>1
<1>2. ASSUME NEW q \in Request, NEW u \in Visitor, ReadForVerification(q, u) PROVE Goal
  <2>1. CASE q = r /\ u = v
    BY <1>2, <2>1 DEF ReadForVerification, TypeOK
  <2>2. CASE <<q, u>> # <<r, v>>
    BY <1>2, <2>2 DEF ReadForVerification, TypeOK
  <2>3. QED
    BY <2>1, <2>2
<1>3. ASSUME NEW q \in Request, NEW u \in Visitor, VerifyRequest(q, u) PROVE Goal
  <2>1. CASE q = r /\ u = v
    BY <1>3, <2>1 DEF VerifyRequest, TypeOK
  <2>2. CASE <<q, u>> # <<r, v>>
    BY <1>3, <2>2 DEF VerifyRequest, TypeOK
  <2>3. QED
    BY <2>1, <2>2
<1>4. ASSUME NEW k \in Key,
             \/ ReserveDocument(k) \/ PutObject(k) \/ LoseUpload(k)
             \/ DeleteReservedDocument(k) \/ DeleteStorageObject(k)
             \/ DeleteDocument(k) \/ LeaseRunsOut(k)
      PROVE  visit' = visit
  BY <1>4 DEF ReserveDocument, PutObject, LoseUpload, DeleteReservedDocument,
              DeleteStorageObject, DeleteDocument, LeaseRunsOut, requestVars
<1>5. ASSUME NEW c \in Candidate, DeleteCandidate(c) PROVE visit' = visit
  BY <1>5 DEF DeleteCandidate, requestVars
<1>6. ASSUME NEW q \in Request,
             \/ SubmitRequest(q) \/ EndFulfilment(q)
             \/ \E next \in Decision : PatchRequest(q, next)
             \/ \E c \in Candidate : BeginFulfilment(q, c)
      PROVE  visit' = visit
  BY <1>6 DEF SubmitRequest, EndFulfilment, FinishFulfilment, AbortFulfilment,
              PatchRequest, BeginFulfilment
<1>7. ASSUME NEW w \in Worker, ClaimSome(w) PROVE visit' = visit
  BY <1>7 DEF ClaimSome, ClaimErasures, requestVars
<1>8. ASSUME NEW w \in Worker, NEW k \in Key,
             HandlerStep(w, k) \/ ReconcilePrivacy(w, k) \/ LoseHandler(w, k)
      PROVE  visit' = visit
  BY <1>8 DEF HandlerStep, DeleteObject, RecordFailure, CompleteErasure,
              CommitErasure, ReconcilePrivacy, LoseHandler, requestVars
<1>9. CASE UNCHANGED vars
  BY <1>1, <1>9 DEF vars, requestVars
<1>10. QED
  BY <1>1, <1>2, <1>3, <1>4, <1>5, <1>6, <1>7, <1>8, <1>9 DEF Next

LEMMA ClosingStep == ASSUME TypeOK, Custody, Closing, [Next]_vars PROVE Closing'
<1>1. ASSUME NEW r \in Request, rstatus'[r] = "completed"
      PROVE  verified'[r] /\ \A k \in promised'[r] : status'[k] = "completed"
  <2>1. CASE rstatus[r] = "completed" /\ promised'[r] = promised[r]
    <3>1. verified[r] /\ \A k \in promised[r] : status[k] = "completed"
      BY <2>1 DEF Closing, Verification, CompletedRequestsAreErased
    <3>2. QED
      BY <2>1, <3>1, LinksStay, SettledStep DEF TypeOK, Settled
  <2>2. CASE FinishFulfilment(r)
    <3>1. verified[r]
      BY <2>2 DEF FinishFulfilment, Closing, Links
    <3>2. \A k \in Key : link'[k] = r => status'[k] = "completed"
      BY <1>1, <2>2 DEF FinishFulfilment, TypeOK
    <3>3. Links'
      BY LinksStep DEF Closing
    <3>4. \A k \in promised'[r] : k \in Key /\ link'[k] = r
      BY <2>2, <3>3 DEF Links, FinishFulfilment, TypeOK
    <3>5. QED
      BY <3>1, <3>2, <3>4, LinksStay
  <2>3. ASSUME NEW w \in Worker, NEW k \in Key, CommitErasure(w, k),
               handler[w][k].at = "reconciled", handler[w][k].request = r,
               handler[w][k].outcome = "completed"
        PROVE  verified'[r] /\ \A j \in promised'[r] : status'[j] = "completed"
    <3>1. \A j \in promised[r] \ {k} : status[j] = "completed"
      BY <2>3 DEF Closing, Reconciled, Stands
    <3>2. promised' = promised /\ verified' = verified /\ status'[k] = "completed"
      BY <2>3 DEF CommitErasure, TypeOK
    <3>3. verified[r]
      BY <2>3, ErasureAssumption DEF Closing, Reconciled
    <3>4. QED
      BY <3>1, <3>2, <3>3, SettledStep DEF TypeOK, Settled
  <2>4. QED
    BY <1>1, <2>1, <2>2, <2>3, RequestCompletedBy DEF Closing
<1>2. ASSUME NEW r \in Request, NEW v \in Visitor PROVE visit'[r][v] # "completed"
  <2>1. SUFFICES ASSUME visit'[r][v] = "completed" PROVE FALSE
    OBVIOUS
  <2>2. visit'[r][v] # None
    BY <2>1, ErasureAssumption DEF RequestStatus, Terminal
  <2>3. visit[r][v] # "completed" /\ (rstatus[r] = "completed" => verified[r])
    BY DEF Closing, Verification
  <2>4. QED
    BY <2>1, <2>2, <2>3, VisitOrigin
<1>3. QED
  BY <1>1, <1>2, LinksStep, ReconciledStep
     DEF Closing, Verification, CompletedRequestsAreErased

\* Closing holds in every reachable state.
LEMMA ClosingCorrect == Spec => []Closing
<1>1. TypeOK /\ Custody /\ Closing /\ [Next]_vars => Closing'
  BY ClosingStep
<1>2. QED
  BY <1>1, InitClosing, ErasureTypeCorrect, CustodyCorrect, PTL DEF Spec

\* A request is completed only after every document that a fulfilment of it
\* listed has been erased, whoever else removed the document meanwhile.
THEOREM CompletionMeansErasure == Spec => []CompletedRequestsAreErased
<1>1. Closing => CompletedRequestsAreErased
  BY DEF Closing
<1>2. QED
  BY <1>1, ClosingCorrect, PTL

LEMMA LastTombstoneStep ==
    ASSUME TypeOK, Custody, Closing, [Next]_vars, NEW r \in Request,
           Outstanding(r) # {}, Outstanding(r)' = {}
    PROVE  rstatus'[r] \in Terminal
<1>1. PICK k \in Key : link[k] = r /\ status[k] # "completed"
  BY DEF Outstanding
<1>2. \A j \in Key : link'[j] = r => status'[j] = "completed"
  BY DEF Outstanding
<1>3. r # None
  BY ErasureAssumption
<1>4. link'[k] = r /\ status'[k] = "completed"
  BY <1>1, <1>2, <1>3, LinksStay
<1>5. PICK w \in Worker : CommitErasure(w, k)
  BY <1>1, <1>4, CompletedByCommit
<1>6. LocksRow(w, k)
  BY <1>5 DEF CommitErasure, LocksRow
<1>7. handler[w][k].request = r
  BY <1>1, <1>3, <1>6 DEF Custody
<1>8. handler[w][k].at = "reconciled"
  BY <1>3, <1>5, <1>7 DEF CommitErasure
<1>9. Stands(w, k)
  BY <1>8 DEF Closing, Reconciled
<1>10. handler[w][k].outcome # "in_review"
  <2>1. SUFFICES ASSUME NEW j \in Key \ {k}, link[j] = r, status[j] # "completed"
                 PROVE  FALSE
    BY <1>7, <1>9 DEF Stands
  <2>2. link'[j] = r /\ status'[j] = status[j]
    BY <1>3, <1>5, <2>1, LinksStay DEF CommitErasure, TypeOK
  <2>3. QED
    BY <1>2, <2>1, <2>2
<1>11. handler[w][k].outcome \in Terminal
  BY <1>9, <1>10 DEF Stands
<1>12. rstatus'[r] = handler[w][k].outcome
  BY <1>3, <1>5, <1>7 DEF CommitErasure, TypeOK
<1>13. QED
  BY <1>11, <1>12

\* The commit that completes the last tombstone of a request closes the
\* request, although handlers commit concurrently and a fulfilment may have
\* linked the tombstone after it was claimed.
THEOREM LastErasureClosesRequest == Spec => LastTombstoneCloses
<1>1. TypeOK /\ Custody /\ Closing /\ [Next]_vars
      => [\A r \in Request : Outstanding(r) # {} /\ Outstanding(r)' = {}
                             => rstatus'[r] \in Terminal]_vars
  BY LastTombstoneStep
<1>2. QED
  BY <1>1, ErasureTypeCorrect, CustodyCorrect, ClosingCorrect, PTL
     DEF Spec, LastTombstoneCloses
=============================================================================
