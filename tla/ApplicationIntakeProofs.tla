----------------------- MODULE ApplicationIntakeProofs -----------------------
(***************************************************************************)
(* Proofs about the intake of public applications, for any number of       *)
(* submissions, operators and documents.                                   *)
(*                                                                         *)
(* What the theorems say of a receipt they say unless its replays overlap  *)
(* its request or each other (rushed).  They need the assumption the grace *)
(* period stands for: a request has ended when it has run out              *)
(* (GraceHolds).                                                           *)
(***************************************************************************)
EXTENDS ApplicationIntake, TLAPS

\* The receipt a call works for.
Receipt(c) == IF c \in Submission THEN c ELSE Asked[c]

Pending(app) == {d \in DOMAIN app.docs : app.docs[d] = "pending"}

-----------------------------------------------------------------------------
(* What holds whatever operators do and however long uploads take. *)

\* A call works for its receipt, and what it answered is its last word.
CallsAreBound ==
    \A c \in Call :
        /\ Running(c) => /\ call[c].receipt = Receipt(c)
                         /\ call[c].left \subseteq Form[Receipt(c)]
        /\ answer[c] # None => call[c].at = "ended"

\* The application row is that of a call which got past its insert, and
\* carries the documents of that call's receipt.
RowsAreBound ==
    application # None =>
        /\ call[application.by].at \notin {"idle", "buffered"}
        /\ application.receipt = Receipt(application.by)
        /\ DOMAIN application.docs = Form[Receipt(application.by)]

\* A replay works for the receipt it was asked for, and posts once.
ReplaysAreBound ==
    \A o \in Operator :
        /\ Busy(o) => replay[o].receipt = Asked[o]
        /\ replay[o].at \in {"idle", "loaded", "clearing", "ready"} => call[o].at = "idle"
        /\ replay[o].at = "clearing" =>
               replay[o].target \in Call /\ Receipt(replay[o].target) = Asked[o]

BoundInv == StateOK /\ CallsAreBound /\ RowsAreBound /\ ReplaysAreBound

LEMMA ReceiptType == \A c \in Call : Receipt(c) \in Submission
  BY IntakeAssumption DEF Receipt, Call

LEMMA FormType == \A s \in Submission : Form[s] \subseteq Doc
  BY DEF Doc

\* A row whose documents are changed to "completed" is a row.
LEMMA CompletedRow ==
    ASSUME NEW app \in Row, NEW d
    PROVE  /\ [app EXCEPT !.docs[d] = "completed"] \in Row
           /\ [app EXCEPT !.docs[d] = "completed"].by = app.by
           /\ [app EXCEPT !.docs[d] = "completed"].receipt = app.receipt
           /\ DOMAIN [app EXCEPT !.docs[d] = "completed"].docs = DOMAIN app.docs
           /\ Pending([app EXCEPT !.docs[d] = "completed"]) = Pending(app) \ {d}
<1>1. PICK s \in Submission : app.docs \in [Form[s] -> {"pending", "completed"}]
  BY DEF Row
<1>2. [app.docs EXCEPT ![d] = "completed"] \in [Form[s] -> {"pending", "completed"}]
  BY <1>1
<1>3. [app EXCEPT !.docs[d] = "completed"] = [app EXCEPT !.docs = [app.docs EXCEPT ![d] = "completed"]]
  BY DEF Row
<1>4. QED
  BY <1>1, <1>2, <1>3 DEF Row, Pending

\* A replay that goes on to the label a keeps its receipt; the others wait.
LEMMA ReplayLabelled ==
    ASSUME replay \in [Operator -> ReplayState], NEW o \in Operator,
           NEW a \in {"loaded", "ready", "posted", "settling"},
           replay' = [replay EXCEPT ![o].at = a]
    PROVE  /\ replay' \in [Operator -> ReplayState]
           /\ replay'[o].at = a /\ replay'[o].receipt = replay[o].receipt
           /\ \A p \in Operator : p # o => replay'[p] = replay[p]
<1> DEFINE next == [replay[o] EXCEPT !.at = a]
<1>1. replay' = [replay EXCEPT ![o] = next]
  OBVIOUS
<1>2. next \in ReplayState /\ next.at = a /\ next.receipt = replay[o].receipt
  BY DEF ReplayState
<1> HIDE DEF next
<1>3. QED
  BY <1>1, <1>2

\* A new row is a row, with all its documents pending.
LEMMA CreatedRow ==
    ASSUME NEW c \in Call, NEW s \in Submission
    PROVE  LET app == [by |-> c, receipt |-> s, docs |-> [d \in Form[s] |-> "pending"]]
           IN  app \in Row /\ Pending(app) = Form[s]
  BY DEF Row, Pending

-----------------------------------------------------------------------------
LEMMA BoundInit == Init => BoundInv
  BY IntakeAssumption DEF Init, BoundInv, StateOK, CallsAreBound, RowsAreBound, ReplaysAreBound,
     CallState, ReplayState, Idle, AtRest, Running, Busy, Call

LEMMA BoundStep == ASSUME BoundInv, [Next]_vars PROVE BoundInv'
<1> USE DEF BoundInv, StateOK, replayVars, workVars
<1> USE DEF CallState, ReplayState
<1>a. /\ call \in [Call -> CallState] /\ replay \in [Operator -> ReplayState]
      /\ Submission \subseteq Call /\ Operator \subseteq Call
      /\ Submission \cap Operator = {} /\ None \notin Call /\ None \notin Row
  BY IntakeAssumption DEF Call
<1>1. ASSUME NEW s \in Submission, Buffer(s) PROVE BoundInv'
  <2>1. /\ call' \in [Call -> CallState] /\ call'[s].receipt = s /\ call'[s].left = {}
        /\ call'[s].at = "buffered" /\ call[s].at = "idle"
        /\ \A c \in Call : c # s => call'[c] = call[c]
    BY <1>1, <1>a DEF Buffer, Idle
  <2>2. /\ receipts' \subseteq Submission
        /\ UNCHANGED <<application, objects, expired, answer, replay, probe>>
    BY <1>1 DEF Buffer
  <2>3. CallsAreBound'
    BY <2>1, <2>2, <1>a DEF CallsAreBound, Running, Receipt
  <2>4. RowsAreBound'
    BY <2>1, <2>2, <1>a DEF RowsAreBound, Row
  <2>5. ReplaysAreBound'
    BY <2>1, <2>2, <1>a DEF ReplaysAreBound, Busy
  <2>6. QED
    BY <2>1, <2>2, <2>3, <2>4, <2>5
<1>2. ASSUME NEW s \in Submission, BufferFails(s) PROVE BoundInv'
  BY <1>2, <1>a DEF BufferFails, End, Ended, Idle, storeVars, CallsAreBound, RowsAreBound,
     ReplaysAreBound, Running, Busy, Refused
<1>3. ASSUME NEW c \in Call, Reject(c) PROVE BoundInv'
  BY <1>3, <1>a DEF Reject, End, Ended, Idle, Deleted, CallsAreBound, RowsAreBound,
     ReplaysAreBound, Running, Busy, Refused
<1>4. ASSUME NEW c \in Call, Break(c) PROVE BoundInv'
  BY <1>4, <1>a DEF Break, End, Ended, Idle, storeVars, CallsAreBound, RowsAreBound,
     ReplaysAreBound, Running, Busy, Refused, Accepted
<1>5. ASSUME NEW c \in Call, Create(c) PROVE BoundInv'
  <2>1. /\ call[c].receipt = Receipt(c) /\ Receipt(c) \in Submission
        /\ FormOf(c) = Form[Receipt(c)] /\ FormOf(c) \subseteq Doc
    BY <1>5, ReceiptType, FormType DEF Create, CallsAreBound, Running, FormOf
  <2>2. application' \in Row /\ application' # None /\ application'.by = c
        /\ application'.receipt = Receipt(c) /\ DOMAIN application'.docs = Form[Receipt(c)]
    BY <1>5, <1>a, <2>1, CreatedRow DEF Create
  <2>3. /\ call' \in [Call -> CallState] /\ call'[c].receipt = Receipt(c)
        /\ call'[c].left = Form[Receipt(c)]
        /\ call'[c].at \in {"storing", "finishing"} /\ call[c].at = "buffered"
        /\ \A x \in Call : x # c => call'[x] = call[x]
        /\ UNCHANGED <<objects, receipts, expired, answer, replay, probe>>
    <3> DEFINE next == [call[c] EXCEPT !.left = FormOf(c),
                                       !.at = IF FormOf(c) = {} THEN "finishing" ELSE "storing"]
    <3>1. next \in CallState /\ next.receipt = Receipt(c) /\ next.left = Form[Receipt(c)]
          /\ next.at \in {"storing", "finishing"}
      <4> DEFINE at == IF FormOf(c) = {} THEN "finishing" ELSE "storing"
      <4>1. at \in {"storing", "finishing"}
        OBVIOUS
      <4>2. call[c] \in CallState
        BY <1>a
      <4>3. next = [call[c] EXCEPT !.left = FormOf(c), !.at = at]
        OBVIOUS
      <4> HIDE DEF at, next
      <4>4. QED
        BY <2>1, <4>1, <4>2, <4>3
    <3>2. call' = [call EXCEPT ![c] = next]
      BY <1>5, <1>a DEF Create
    <3> HIDE DEF next, CallState, ReplayState
    <3>3. /\ call[c].at = "buffered"
          /\ UNCHANGED <<objects, receipts, expired, answer, replay, probe>>
      BY <1>5 DEF Create, storeVars
    <3>4. QED
      BY <1>a, <3>1, <3>2, <3>3
  <2>4. CallsAreBound'
    BY <2>3, <1>a DEF CallsAreBound, Running
  <2>5. RowsAreBound'
    BY <2>2, <2>3 DEF RowsAreBound
  <2>6. ReplaysAreBound'
    BY <2>3, <1>a DEF ReplaysAreBound, Busy
  <2>7. QED
    BY <2>2, <2>3, <2>4, <2>5, <2>6
<1>6. ASSUME NEW c \in Call, Duplicate(c) PROVE BoundInv'
  BY <1>6, <1>a DEF Duplicate, End, Ended, Idle, Deleted, CallsAreBound, RowsAreBound,
     ReplaysAreBound, Running, Busy, Refused
<1>7. ASSUME NEW c \in Call, NEW d \in Doc, Store(c, d) PROVE BoundInv'
  BY <1>7, <1>a DEF Store, storeVars, CallsAreBound, RowsAreBound, ReplaysAreBound, Running, Busy
<1>8. ASSUME NEW c \in Call, NEW d \in Doc, StoreFails(c, d) PROVE BoundInv'
  BY <1>8, <1>a DEF StoreFails, storeVars, CallsAreBound, RowsAreBound, ReplaysAreBound,
     Running, Busy
<1>9. ASSUME NEW c \in Call, Finalize(c) PROVE BoundInv'
  <2>1. /\ application # None /\ application \in Row /\ application' \in Row
        /\ application'.by = application.by /\ application'.receipt = application.receipt
        /\ DOMAIN application'.docs = DOMAIN application.docs
    BY <1>9, CompletedRow DEF Finalize, HasRow
  <2>2. /\ call' \in [Call -> CallState] /\ call'[c].receipt = call[c].receipt
        /\ call'[c].left = call[c].left
        /\ call'[c].at \in {"storing", "finishing"} /\ call[c].at = "finalizing"
        /\ \A x \in Call : x # c => call'[x] = call[x]
        /\ UNCHANGED <<objects, receipts, expired, answer, replay, probe>>
    <3> DEFINE next == [call[c] EXCEPT !.doc = None,
                            !.at = IF call[c].left = {} THEN "finishing" ELSE "storing"]
    <3>1. next \in CallState /\ next.receipt = call[c].receipt /\ next.left = call[c].left
          /\ next.at \in {"storing", "finishing"}
      <4>1. call[c] \in CallState
        BY <1>a
      <4>2. QED
        BY <4>1
    <3>2. call' = [call EXCEPT ![c] = next]
      BY <1>9, <1>a DEF Finalize
    <3> HIDE DEF next, CallState, ReplayState
    <3>3. /\ call[c].at = "finalizing"
          /\ UNCHANGED <<objects, receipts, expired, answer, replay, probe>>
      BY <1>9 DEF Finalize, storeVars
    <3>4. QED
      BY <1>a, <3>1, <3>2, <3>3
  <2>3. CallsAreBound'
    BY <2>2, <1>a DEF CallsAreBound, Running
  <2>4. RowsAreBound'
    BY <2>1, <2>2, <1>a DEF RowsAreBound, Row
  <2>5. ReplaysAreBound'
    BY <2>2, <1>a DEF ReplaysAreBound, Busy
  <2>6. QED
    BY <2>1, <2>2, <2>3, <2>4, <2>5
<1>10. ASSUME NEW c \in Call, Undo(c) PROVE BoundInv'
  <2>1. /\ application' \in {application, None} /\ objects' \subseteq objects
        /\ call' = [call EXCEPT ![c] = Ended]
        /\ answer' = [answer EXCEPT ![c] = IF c \in Submission THEN "delayed" ELSE "failed"]
        /\ UNCHANGED <<storeVars, replay, probe>>
    BY <1>10 DEF Undo, Deleted, End
  <2>2. QED
    BY <1>10, <1>a, <2>1 DEF Ended, Idle, storeVars, CallsAreBound, RowsAreBound,
       ReplaysAreBound, Running, Busy, Accepted, Refused, Undo
<1>11. ASSUME NEW c \in Call, Finish(c) PROVE BoundInv'
  BY <1>11, <1>a DEF Finish, End, Ended, Idle, Deleted, CallsAreBound, RowsAreBound,
     ReplaysAreBound, Running, Busy, Accepted
<1>12. ASSUME NEW c \in Call, Crash(c) PROVE BoundInv'
  BY <1>12, <1>a DEF Crash, Ended, Idle, storeVars, CallsAreBound, RowsAreBound,
     ReplaysAreBound, Running, Busy
<1>13. ASSUME NEW o \in Operator, Load(o) PROVE BoundInv'
  <2>1. /\ replay' \in [Operator -> ReplayState] /\ replay'[o].receipt = Asked[o]
        /\ replay'[o].at = "loaded" /\ replay[o].at = "idle"
        /\ \A p \in Operator : p # o => replay'[p] = replay[p]
        /\ UNCHANGED <<application, objects, receipts, expired, call, answer, probe>>
    <3> DEFINE next == [replay[o] EXCEPT !.at = "loaded", !.receipt = Asked[o]]
    <3>0. replay[o] \in ReplayState /\ Asked[o] \in Submission
      BY <1>a, IntakeAssumption
    <3>1. next \in ReplayState /\ next.receipt = Asked[o] /\ next.at = "loaded"
      BY <3>0
    <3>2. replay' = [replay EXCEPT ![o] = next]
      BY <1>13, <1>a DEF Load
    <3> HIDE DEF next, CallState, ReplayState
    <3>3. /\ replay[o].at = "idle"
          /\ UNCHANGED <<application, objects, receipts, expired, call, answer, probe>>
      BY <1>13 DEF Load, storeVars, callVars
    <3>4. QED
      BY <1>a, <3>1, <3>2, <3>3
  <2>2. ReplaysAreBound'
    BY <2>1, <1>a DEF ReplaysAreBound, Busy
  <2>3. QED
    BY <2>1, <2>2 DEF CallsAreBound, RowsAreBound, Running
<1>14. ASSUME NEW o \in Operator, Inspect(o) PROVE BoundInv'
  <2>1. replay[o].receipt = Asked[o]
    BY <1>14 DEF Inspect, ReplaysAreBound, Busy
  <2>2. CASE BoundTo(replay[o].receipt)
    <3>1. /\ application \in Row /\ application.by \in Call
          /\ Receipt(application.by) = Asked[o] /\ DOMAIN application.docs \subseteq Doc
      BY <2>1, <2>2, ReceiptType, FormType DEF BoundTo, RowsAreBound, Row
    <3>2. /\ replay' \in [Operator -> ReplayState] /\ replay'[o].receipt = Asked[o]
          /\ replay'[o].at \in {"settling", "clearing"} /\ replay[o].at = "loaded"
          /\ replay'[o].target = application.by
          /\ \A p \in Operator : p # o => replay'[p] = replay[p]
          /\ UNCHANGED <<application, objects, receipts, expired, call, answer, probe>>
      <4> DEFINE done == DOMAIN application.docs # {} /\ Completed(application)
                 next == [replay[o] EXCEPT !.at = IF done THEN "settling" ELSE "clearing",
                                           !.target = application.by,
                                           !.keys = DOMAIN application.docs]
      <4>1. next \in ReplayState /\ next.receipt = Asked[o] /\ next.target = application.by
            /\ next.at \in {"settling", "clearing"}
        <5> DEFINE at == IF done THEN "settling" ELSE "clearing"
        <5>1. at \in {"settling", "clearing"} /\ replay[o] \in ReplayState
          BY <1>a
        <5>2. next = [replay[o] EXCEPT !.at = at, !.target = application.by,
                                       !.keys = DOMAIN application.docs]
          OBVIOUS
        <5> HIDE DEF done, at, next
        <5>3. QED
          BY <2>1, <3>1, <5>1, <5>2
      <4>2. replay' = [replay EXCEPT ![o] = next]
        BY <1>14, <1>a, <2>2 DEF Inspect
      <4> HIDE DEF next
      <4>3. QED
        BY <1>14, <1>a, <4>1, <4>2 DEF Inspect, storeVars, callVars
    <3>3. ReplaysAreBound'
      BY <3>1, <3>2, <1>a DEF ReplaysAreBound, Busy
    <3>4. QED
      BY <3>2, <3>3 DEF CallsAreBound, RowsAreBound, Running
  <2>3. CASE ~BoundTo(replay[o].receipt)
    <3>1. /\ replay' = [replay EXCEPT ![o].at = "ready"] /\ replay[o].at = "loaded"
          /\ UNCHANGED <<application, objects, receipts, expired, call, answer, probe>>
      BY <1>14, <2>3 DEF Inspect, storeVars, callVars
    <3>2. /\ replay' \in [Operator -> ReplayState] /\ replay'[o].receipt = Asked[o]
          /\ replay'[o].at = "ready" /\ replay[o].at = "loaded"
          /\ \A p \in Operator : p # o => replay'[p] = replay[p]
      <4> HIDE DEF ReplayState, CallState
      <4>1. QED
        BY <1>a, <2>1, <3>1, ReplayLabelled
    <3>3. ReplaysAreBound'
      BY <1>a, <3>1, <3>2 DEF ReplaysAreBound, Busy
    <3>4. QED
      BY <3>1, <3>2, <3>3 DEF CallsAreBound, RowsAreBound, Running
  <2>4. QED
    BY <2>2, <2>3
<1>15. ASSUME NEW o \in Operator, Clear(o) PROVE BoundInv'
  <2>1. replay[o].at = "clearing" /\ replay[o].receipt = Asked[o]
    BY <1>15 DEF Clear, ReplaysAreBound, Busy
  <2>2. /\ application' \in {application, None} /\ objects' \subseteq objects
        /\ \/ replay' = [replay EXCEPT ![o] =
                            [AtRest EXCEPT !.at = "ready", !.receipt = Asked[o]]]
           \/ replay' = [replay EXCEPT ![o] = Over]
        /\ UNCHANGED <<storeVars, callVars, probe>>
    BY <1>15, <2>1 DEF Clear, Deleted
  <2>3. /\ replay' \in [Operator -> ReplayState]
        /\ \A p \in Operator : p # o => replay'[p] = replay[p]
        /\ \/ replay'[o].at = "ready" /\ replay'[o].receipt = Asked[o]
           \/ replay'[o].at = "ended"
    <3> DEFINE next == [AtRest EXCEPT !.at = "ready", !.receipt = Asked[o]]
    <3>1. next \in ReplayState /\ next.receipt = Asked[o] /\ next.at = "ready"
          /\ Over \in ReplayState /\ Over.at = "ended"
      BY IntakeAssumption DEF AtRest, Over
    <3> HIDE DEF next
    <3>2. replay' = [replay EXCEPT ![o] = next] \/ replay' = [replay EXCEPT ![o] = Over]
      BY <2>2 DEF next
    <3>3. QED
      BY <1>a, <3>1, <3>2
  <2>4. ReplaysAreBound'
    BY <2>1, <2>2, <2>3, <1>a DEF ReplaysAreBound, Busy, callVars
  <2>5. QED
    BY <2>2, <2>3, <2>4 DEF storeVars, callVars, CallsAreBound, RowsAreBound, Running
<1>16. ASSUME NEW o \in Operator, Post(o) PROVE BoundInv'
  <2>1. /\ replay[o].at = "ready" /\ replay[o].receipt = Asked[o] /\ call[o].at = "idle"
        /\ Receipt(o) = Asked[o]
    BY <1>16, <1>a DEF Post, ReplaysAreBound, Busy, Receipt
  <2>2. /\ call' \in [Call -> CallState] /\ call'[o].receipt = Asked[o] /\ call'[o].left = {}
        /\ call'[o].at = "buffered"
        /\ \A c \in Call : c # o => call'[c] = call[c]
    BY <1>16, <1>a, <2>1 DEF Post, Idle
  <2>3. /\ replay' \in [Operator -> ReplayState] /\ replay'[o].receipt = Asked[o]
        /\ replay'[o].at = "posted"
        /\ \A p \in Operator : p # o => replay'[p] = replay[p]
        /\ UNCHANGED <<application, objects, receipts, expired, answer, probe>>
    <3>1. /\ replay' = [replay EXCEPT ![o].at = "posted"]
          /\ UNCHANGED <<application, objects, receipts, expired, answer, probe>>
      BY <1>16 DEF Post, storeVars
    <3> HIDE DEF ReplayState, CallState
    <3>2. QED
      BY <1>a, <2>1, <3>1, ReplayLabelled
  <2>4. CallsAreBound'
    <3> HIDE DEF ReplayState, CallState
    <3>1. QED
      BY <2>1, <2>2, <2>3, <1>a DEF CallsAreBound, Running
  <2>5. RowsAreBound'
    BY <2>1, <2>2, <2>3, <1>a DEF RowsAreBound, Row
  <2>6. ReplaysAreBound'
    BY <2>1, <2>2, <2>3, <1>a DEF ReplaysAreBound, Busy
  <2>7. QED
    BY <2>2, <2>3, <2>4, <2>5, <2>6
<1>17. ASSUME NEW o \in Operator, TakeAnswer(o) PROVE BoundInv'
  <2>1. /\ replay' \in [Operator -> ReplayState] /\ replay[o].at = "posted"
        /\ \/ replay'[o].at = "settling" /\ replay'[o].receipt = replay[o].receipt
           \/ replay'[o].at = "ended"
        /\ \A p \in Operator : p # o => replay'[p] = replay[p]
        /\ UNCHANGED <<application, objects, receipts, expired, call, answer, probe>>
    <3>1. /\ replay[o].at = "posted"
          /\ \/ replay' = [replay EXCEPT ![o].at = "settling"]
             \/ replay' = [replay EXCEPT ![o] = Over]
          /\ UNCHANGED <<application, objects, receipts, expired, call, answer, probe>>
      BY <1>17 DEF TakeAnswer, storeVars, callVars
    <3>2. Over \in ReplayState /\ Over.at = "ended"
      BY DEF Over, AtRest
    <3> HIDE DEF ReplayState, CallState
    <3>3. CASE replay' = [replay EXCEPT ![o].at = "settling"]
      BY <1>a, <3>1, <3>3, ReplayLabelled
    <3>4. CASE replay' = [replay EXCEPT ![o] = Over]
      BY <1>a, <3>1, <3>2, <3>4
    <3>5. QED
      BY <3>1, <3>3, <3>4
  <2>2. ReplaysAreBound'
    BY <2>1, <1>a DEF ReplaysAreBound, Busy
  <2>3. QED
    BY <2>1, <2>2 DEF CallsAreBound, RowsAreBound, Running
<1>18. ASSUME NEW o \in Operator, Settle(o) PROVE BoundInv'
  BY <1>18, <1>a DEF Settle, Over, AtRest, Deleted, callVars, CallsAreBound,
     RowsAreBound, ReplaysAreBound, Running, Busy
<1>19. ASSUME NEW o \in Operator, GiveUp(o) PROVE BoundInv'
  BY <1>19, <1>a DEF GiveUp, Over, AtRest, storeVars, callVars, CallsAreBound,
     RowsAreBound, ReplaysAreBound, Running, Busy
<1>20. ASSUME NEW d \in Doc, Reconcile(d) PROVE BoundInv'
  <2>1. /\ application # None /\ application \in Row /\ application' \in Row
        /\ application'.by = application.by /\ application'.receipt = application.receipt
        /\ DOMAIN application'.docs = DOMAIN application.docs
    BY <1>20, CompletedRow DEF Reconcile, Claim
  <2>2. QED
    BY <1>20, <1>a, <2>1 DEF Reconcile, storeVars, callVars, CallsAreBound, RowsAreBound,
       ReplaysAreBound, Running, Busy
<1>21. ASSUME NEW d \in Doc, SeeMissing(d) PROVE BoundInv'
  BY <1>21, <1>a DEF SeeMissing, Claim, storeVars, callVars, CallsAreBound, RowsAreBound,
     ReplaysAreBound, Running, Busy, Row
<1>22. CASE RollbackMissing
  <2>1. /\ application' \in {application, None} /\ objects' \subseteq objects /\ probe' = None
        /\ UNCHANGED <<storeVars, callVars, replay>>
    BY <1>22 DEF RollbackMissing, Deleted
  <2>2. QED
    BY <1>a, <2>1 DEF storeVars, callVars, CallsAreBound, RowsAreBound,
       ReplaysAreBound, Running, Busy
<1>23. ASSUME NEW d \in Doc, FailAttempt(d) PROVE BoundInv'
  BY <1>23 DEF FailAttempt, storeVars, callVars, CallsAreBound, RowsAreBound, ReplaysAreBound,
     Running, Busy
<1>24. CASE FailRollback
  BY <1>24 DEF FailRollback, storeVars, callVars, CallsAreBound, RowsAreBound,
     ReplaysAreBound, Running, Busy
<1>25. ASSUME NEW s \in Submission, Expire(s) PROVE BoundInv'
  BY <1>25, <1>a DEF Expire, callVars, CallsAreBound, RowsAreBound, ReplaysAreBound, Running, Busy
<1>26. ASSUME NEW s \in Submission, Purge(s) PROVE BoundInv'
  BY <1>26, <1>a DEF Purge, callVars, CallsAreBound, RowsAreBound, ReplaysAreBound, Running, Busy
<1>27. CASE UNCHANGED vars
  BY <1>27 DEF vars, storeVars, callVars, CallsAreBound, RowsAreBound, ReplaysAreBound,
     Running, Busy
<1>28. QED
  BY <1>1, <1>2, <1>3, <1>4, <1>5, <1>6, <1>7, <1>8, <1>9, <1>10, <1>11, <1>12, <1>13, <1>14,
     <1>15, <1>16, <1>17, <1>18, <1>19, <1>20, <1>21, <1>22, <1>23, <1>24, <1>25,
     <1>26, <1>27
     DEF Next, CallStep, ReplayStep, ReconcileStep

LEMMA BoundCorrect == Spec => []BoundInv
  BY BoundInit, BoundStep, PTL DEF Spec

\* Application, receipts, calls and replays are well formed: the row is that
\* of a call and carries the documents of a form, whatever fails.
THEOREM IntakeTypeCorrect == Spec => []TypeOK
<1> DEFINE Counts == /\ rushed \subseteq Submission
                     /\ attempts \in [Doc -> 0..MaxAttempts]
<1>1. Init => Counts
  BY IntakeAssumption DEF Init
<1>2. ASSUME Counts, [Next]_vars PROVE Counts'
  <2>1. rushed' \subseteq Submission
    <3>1. CASE rushed' = rushed
      BY <1>2, <3>1
    <3>2. ASSUME NEW o \in Operator, Load(o) PROVE rushed' \subseteq Submission
      BY <1>2, <3>2, IntakeAssumption DEF Load
    <3>3. rushed' = rushed \/ \E o \in Operator : Load(o)
      BY <1>2 DEF Next, vars, replayVars, CallStep, ReplayStep, ReconcileStep, Buffer,
         BufferFails, Reject, Break, Create, Duplicate, Store, StoreFails, Finalize, Undo,
         Finish, Crash, Inspect, Clear, Post, TakeAnswer, Settle, GiveUp, Reconcile,
         SeeMissing, FailAttempt, RollbackMissing, FailRollback, Expire, Purge
    <3>4. QED
      BY <3>1, <3>2, <3>3
  <2>2. attempts' \in [Doc -> 0..MaxAttempts]
    <3>1. CASE attempts' = attempts \/ attempts' = [d \in Doc |-> 0]
      BY <1>2, <3>1, IntakeAssumption
    <3>2. ASSUME NEW d \in Doc, Claim(d) PROVE attempts' \in [Doc -> 0..MaxAttempts]
      BY <1>2, <3>2, IntakeAssumption DEF Claim
    <3>3. \/ attempts' = attempts \/ attempts' = [d \in Doc |-> 0]
          \/ \E d \in Doc : Claim(d)
      BY <1>2 DEF Next, vars, workVars, CallStep, ReplayStep, ReconcileStep, Buffer,
         BufferFails, Reject, Break, Create, Duplicate, Store, StoreFails, Finalize, Undo,
         Finish, Crash, Load, Inspect, Clear, Post, TakeAnswer, Settle, GiveUp, Reconcile,
         SeeMissing, FailAttempt, RollbackMissing, FailRollback, Expire, Purge
    <3>4. QED
      BY <3>1, <3>2, <3>3
  <2>3. QED
    BY <2>1, <2>2
<1>3. BoundInv /\ Counts => TypeOK
  BY DEF BoundInv, TypeOK
<1>4. Counts /\ [Next]_vars => Counts'
  BY <1>2
<1> HIDE DEF Counts
<1>5. QED
  BY <1>1, <1>3, <1>4, BoundCorrect, PTL DEF Spec

-----------------------------------------------------------------------------
(* What becomes of a receipt that is not rushed, if GraceHolds. *)

Uploading == {"storing", "finalizing", "undoing", "finishing"}

\* As long as its call runs, the documents of the row are as far as the call
\* has brought them: the worker keeps off them.
DocumentsFollowCall ==
    application # None =>
        LET c == application.by
            left == call[c].left
            pending == Pending(application)
        IN  /\ call[c].at = "storing" => pending = left
            /\ call[c].at = "finalizing" => pending \ {call[c].doc} = left
            /\ call[c].at = "undoing" => pending # {}
            /\ call[c].at = "finishing" => pending = {}
            /\ answer[c] = "created" => pending = {}

\* Whether somebody still depends on the row of call c: the applicant's call
\* itself while it uploads, the replay that waits for the answer of its call.
Awaited(c) ==
    IF c \in Submission
    THEN call[c].at \in Uploading
    ELSE replay[c].at = "posted" /\ (call[c].at \in Uploading \/ answer[c] = "created")

RowsStay == \A c \in Call : Awaited(c) /\ Receipt(c) \notin rushed => HasRow(c)

\* A submission that runs still has its receipt, unless it has expired.
ReceiptsOutliveRequests ==
    /\ \A s \in receipts : call[s].at # "idle"
    /\ \A s \in Submission : Running(s) => s \in receipts \cup expired \cup rushed

\* A replay runs after its request and alone, and still has the receipt,
\* unless it has expired.
ReplaysAreAlone ==
    /\ \A o \in Operator : Busy(o) /\ Asked[o] \notin rushed =>
           /\ call[Asked[o]].at = "ended"
           /\ Asked[o] \in receipts \cup expired
    /\ \A o, p \in Operator :
           Busy(o) /\ Busy(p) /\ Asked[o] = Asked[p] /\ Asked[o] \notin rushed => o = p

\* A replay deletes a receipt whose application is there and complete.
SettlingIsComplete ==
    \A o \in Operator :
        replay[o].at = "settling" /\ Asked[o] \notin rushed =>
            BoundTo(Asked[o]) /\ Pending(application) = {}

\* The reconciliation has seen a missing object of a call that is over: it is
\* missing for good, and its document is pending for good.
MissingStaysMissing ==
    probe # None =>
        /\ call[probe].at = "ended"
        /\ HasRow(probe) => \E d \in Pending(application) : <<probe, d>> \notin objects

\* Once the receipt is spent the application is there and complete.
SpentIsComplete ==
    \A s \in Submission :
        answer[s] \in Accepted /\ s \notin receipts \cup expired \cup rushed =>
            BoundTo(s) /\ Pending(application) = {}

HeldInv ==
    /\ DocumentsFollowCall
    /\ RowsStay
    /\ ReceiptsOutliveRequests
    /\ ReplaysAreAlone
    /\ SettlingIsComplete
    /\ MissingStaysMissing
    /\ SpentIsComplete

LEMMA HeldStep ==
    ASSUME GraceHolds, BoundInv, HeldInv, [Next]_vars
    PROVE  HeldInv'
<1> USE DEF BoundInv, HeldInv, replayVars, workVars
<1>a. /\ call \in [Call -> CallState] /\ answer \in [Call -> {None} \cup Accepted \cup Refused]
      /\ replay \in [Operator -> ReplayState] /\ receipts \subseteq Submission
      /\ application # None => application \in Row /\ application.by \in Call
      /\ Call = Submission \cup Operator /\ probe \in Call \cup {None}
      /\ Submission \cap Operator = {} /\ None \notin Call /\ None \notin Row
      /\ \A o \in Operator : Asked[o] \in Submission
      /\ None # "created"
  BY IntakeAssumption DEF StateOK, Call, Row, Accepted
<1>1. ASSUME NEW s \in Submission, Buffer(s) PROVE HeldInv'
  <2>1. /\ call[s].at = "idle" /\ call'[s].at = "buffered"
        /\ \A c \in Call : c # s => call'[c] = call[c]
        /\ receipts' = receipts \cup {s}
        /\ UNCHANGED <<application, objects, expired, answer, replay, rushed, probe>>
    BY <1>1, <1>a DEF Buffer, Idle, CallState
  <2>2. RowsStay' /\ SettlingIsComplete' /\ SpentIsComplete'
    BY <2>1 DEF RowsStay, Awaited, Uploading, HasRow, Busy, SettlingIsComplete, BoundTo,
       SpentIsComplete, Accepted, Running
  <2>3. DocumentsFollowCall'
    BY <1>a, <2>1 DEF DocumentsFollowCall, Running
  <2>4. ReceiptsOutliveRequests'
    BY <1>a, <2>1 DEF ReceiptsOutliveRequests, Running
  <2>5. ReplaysAreAlone'
    BY <1>a, <2>1 DEF ReplaysAreAlone, Busy
  <2>6. MissingStaysMissing'
    BY <1>a, <2>1 DEF MissingStaysMissing, HasRow, Running
  <2>7. QED
    BY <2>2, <2>3, <2>4, <2>5, <2>6
<1>2. ASSUME NEW s \in Submission, BufferFails(s) PROVE HeldInv'
  <2>1. /\ call[s].at = "idle" /\ call'[s].at = "ended" /\ answer'[s] = "failed"
        /\ \A c \in Call : c # s => call'[c] = call[c] /\ answer'[c] = answer[c]
        /\ UNCHANGED <<application, objects, receipts, expired, replay, rushed, probe>>
    BY <1>2, <1>a DEF BufferFails, End, Ended, Idle, storeVars, CallState
  <2>2. RowsStay' /\ SettlingIsComplete'
    BY <2>1 DEF RowsStay, Awaited, Uploading, HasRow, Busy, SettlingIsComplete, BoundTo
  <2>3. DocumentsFollowCall'
    BY <1>a, <2>1 DEF DocumentsFollowCall, Running
  <2>4. ReceiptsOutliveRequests'
    BY <1>a, <2>1 DEF ReceiptsOutliveRequests, Running
  <2>5. ReplaysAreAlone'
    BY <1>a, <2>1 DEF ReplaysAreAlone, Busy
  <2>6. MissingStaysMissing'
    BY <1>a, <2>1 DEF MissingStaysMissing, HasRow, Running
  <2>7. SpentIsComplete'
    BY <1>a, <2>1 DEF SpentIsComplete, BoundTo, Accepted, Busy, Running
  <2>8. QED
    BY <2>2, <2>3, <2>4, <2>5, <2>6, <2>7
<1>3. ASSUME NEW c \in Call, Reject(c) \/ Duplicate(c) PROVE HeldInv'
  <2>1. /\ call[c].at = "buffered" /\ call'[c].at = "ended" /\ answer'[c] = "rejected"
        /\ \A x \in Call : x # c => call'[x] = call[x] /\ answer'[x] = answer[x]
        /\ receipts' \subseteq receipts /\ receipts \subseteq receipts' \cup {c}
        /\ UNCHANGED <<application, objects, expired, replay, rushed, probe>>
    BY <1>3, <1>a DEF Reject, Duplicate, End, Ended, Idle, Deleted, CallState
  <2>2. RowsStay' /\ SettlingIsComplete'
    BY <2>1 DEF RowsStay, Awaited, Uploading, HasRow, Busy, SettlingIsComplete, BoundTo
  <2>3. DocumentsFollowCall'
    BY <1>a, <2>1 DEF DocumentsFollowCall, Running
  <2>4. ReceiptsOutliveRequests'
    BY <1>a, <2>1 DEF ReceiptsOutliveRequests, Running
  <2>5. ReplaysAreAlone'
    BY <1>a, <2>1 DEF ReplaysAreAlone, Busy
  <2>6. MissingStaysMissing'
    BY <1>a, <2>1 DEF MissingStaysMissing, HasRow, Running
  <2>7. SpentIsComplete'
    BY <1>a, <2>1 DEF SpentIsComplete, BoundTo, Accepted, Busy, Running
  <2>8. QED
    BY <2>2, <2>3, <2>4, <2>5, <2>6, <2>7
<1>4. ASSUME NEW c \in Call, Break(c) PROVE HeldInv'
  <2>1. /\ Running(c) /\ call'[c].at = "ended"
        /\ answer'[c] = IF c \in Submission THEN "delayed" ELSE "failed"
        /\ \A x \in Call : x # c => call'[x] = call[x] /\ answer'[x] = answer[x]
        /\ UNCHANGED <<application, objects, receipts, expired, replay, rushed, probe>>
    BY <1>4, <1>a DEF Break, End, Ended, Idle, Running, storeVars, CallState
  <2>2. RowsStay' /\ SettlingIsComplete'
    BY <2>1 DEF RowsStay, Awaited, Uploading, HasRow, Busy, SettlingIsComplete, BoundTo
  <2>3. DocumentsFollowCall'
    BY <1>a, <2>1 DEF DocumentsFollowCall, Running
  <2>4. ReceiptsOutliveRequests'
    BY <1>a, <2>1 DEF ReceiptsOutliveRequests, Running
  <2>5. ReplaysAreAlone'
    BY <1>a, <2>1 DEF ReplaysAreAlone, Busy
  <2>6. MissingStaysMissing'
    BY <1>a, <2>1 DEF MissingStaysMissing, HasRow, Running
  <2>7. SpentIsComplete'
    BY <1>a, <2>1 DEF SpentIsComplete, BoundTo, Accepted, Busy, Running,
       ReceiptsOutliveRequests
  <2>8. QED
    BY <2>2, <2>3, <2>4, <2>5, <2>6, <2>7
<1>5. ASSUME NEW c \in Call, Create(c) PROVE HeldInv'
  <2>1. /\ call[c].at = "buffered" /\ application = None /\ application' # None
        /\ application'.by = c /\ application'.receipt = Receipt(c)
        /\ Pending(application') = Form[Receipt(c)] /\ call'[c].left = Form[Receipt(c)]
        /\ call'[c].at = IF Form[Receipt(c)] = {} THEN "finishing" ELSE "storing"
        /\ \A x \in Call : x # c => call'[x] = call[x]
        /\ UNCHANGED <<objects, receipts, expired, answer, replay, rushed, probe>>
    BY <1>5, <1>a, ReceiptType, CreatedRow DEF Create, FormOf, storeVars, CallState
  <2>2. RowsStay' /\ SettlingIsComplete' /\ SpentIsComplete'
    BY <2>1 DEF RowsStay, Awaited, Uploading, HasRow, Busy, SettlingIsComplete, BoundTo,
       SpentIsComplete, Accepted, Running
  <2>3. DocumentsFollowCall'
    BY <1>a, <2>1 DEF DocumentsFollowCall, Running, CallsAreBound
  <2>4. ReceiptsOutliveRequests'
    BY <1>a, <2>1 DEF ReceiptsOutliveRequests, Running
  <2>5. ReplaysAreAlone'
    BY <1>a, <2>1 DEF ReplaysAreAlone, Busy
  <2>6. MissingStaysMissing'
    BY <1>a, <2>1 DEF MissingStaysMissing, HasRow, Running
  <2>7. QED
    BY <2>2, <2>3, <2>4, <2>5, <2>6
<1>6. ASSUME NEW c \in Call, NEW d \in Doc, Store(c, d) PROVE HeldInv'
  <2>1. /\ call[c].at = "storing" /\ d \in call[c].left
        /\ call'[c].at = "finalizing" /\ call'[c].doc = d /\ call'[c].left = call[c].left \ {d}
        /\ \A x \in Call : x # c => call'[x] = call[x]
        /\ objects' \subseteq objects \cup {<<c, d>>}
        /\ UNCHANGED <<application, receipts, expired, answer, replay, rushed, probe>>
    BY <1>6, <1>a DEF Store, storeVars, CallState
  <2>2. RowsStay' /\ SettlingIsComplete' /\ SpentIsComplete'
    BY <2>1 DEF RowsStay, Awaited, Uploading, HasRow, Busy, SettlingIsComplete, BoundTo,
       SpentIsComplete, Accepted, Running
  <2>3. DocumentsFollowCall'
    BY <1>a, <2>1 DEF DocumentsFollowCall, Running
  <2>4. ReceiptsOutliveRequests'
    BY <1>a, <2>1 DEF ReceiptsOutliveRequests, Running
  <2>5. ReplaysAreAlone'
    BY <1>a, <2>1 DEF ReplaysAreAlone, Busy
  <2>6. MissingStaysMissing'
    <3>1. probe # c /\ (probe # None => call'[probe] = call[probe])
      BY <1>a, <2>1 DEF MissingStaysMissing
    <3>2. \A e : <<probe, e>> \in objects' => <<probe, e>> \in objects
      BY <2>1, <3>1
    <3>3. QED
      BY <2>1, <3>1, <3>2 DEF MissingStaysMissing, HasRow
  <2>7. QED
    BY <2>2, <2>3, <2>4, <2>5, <2>6
<1>7. ASSUME NEW c \in Call, NEW d \in Doc, StoreFails(c, d) PROVE HeldInv'
  <2>1. /\ call[c].at = "storing" /\ d \in call[c].left
        /\ call'[c].at = "undoing"
        /\ \A x \in Call : x # c => call'[x] = call[x]
        /\ objects' \subseteq objects \cup {<<c, d>>}
        /\ UNCHANGED <<application, receipts, expired, answer, replay, rushed, probe>>
    BY <1>7, <1>a DEF StoreFails, storeVars, CallState
  <2>2. RowsStay' /\ SettlingIsComplete' /\ SpentIsComplete'
    BY <2>1 DEF RowsStay, Awaited, Uploading, HasRow, Busy, SettlingIsComplete, BoundTo,
       SpentIsComplete, Accepted, Running
  <2>3. DocumentsFollowCall'
    BY <1>a, <2>1 DEF DocumentsFollowCall, Running
  <2>4. ReceiptsOutliveRequests'
    BY <1>a, <2>1 DEF ReceiptsOutliveRequests, Running
  <2>5. ReplaysAreAlone'
    BY <1>a, <2>1 DEF ReplaysAreAlone, Busy
  <2>6. MissingStaysMissing'
    <3>1. probe # c /\ (probe # None => call'[probe] = call[probe])
      BY <1>a, <2>1 DEF MissingStaysMissing
    <3>2. \A e : <<probe, e>> \in objects' => <<probe, e>> \in objects
      BY <2>1, <3>1
    <3>3. QED
      BY <2>1, <3>1, <3>2 DEF MissingStaysMissing, HasRow
  <2>7. QED
    BY <2>2, <2>3, <2>4, <2>5, <2>6
<1>8. ASSUME NEW c \in Call, Finalize(c) PROVE HeldInv'
  <2>1. /\ call[c].at = "finalizing" /\ HasRow(c) /\ application' # None
        /\ application'.by = application.by /\ application'.receipt = application.receipt
        /\ Pending(application') = Pending(application) \ {call[c].doc}
        /\ call'[c].left = call[c].left
        /\ call'[c].at = IF call[c].left = {} THEN "finishing" ELSE "storing"
        /\ \A x \in Call : x # c => call'[x] = call[x]
        /\ UNCHANGED <<objects, receipts, expired, answer, replay, rushed, probe>>
    BY <1>8, <1>a, CompletedRow DEF Finalize, storeVars, CallState
  <2>2. DocumentsFollowCall' /\ RowsStay' /\ SettlingIsComplete' /\ SpentIsComplete'
    BY <2>1 DEF DocumentsFollowCall, Running, HasRow, RowsStay, Awaited, Uploading, Busy,
       SettlingIsComplete, BoundTo, SpentIsComplete, Accepted
  <2>3. ReceiptsOutliveRequests'
    BY <1>a, <2>1 DEF ReceiptsOutliveRequests, Running
  <2>4. ReplaysAreAlone'
    BY <1>a, <2>1 DEF ReplaysAreAlone, Busy
  <2>5. MissingStaysMissing'
    BY <1>a, <2>1 DEF MissingStaysMissing, HasRow, Running
  <2>6. QED
    BY <2>2, <2>3, <2>4, <2>5
<1>9. ASSUME NEW c \in Call, Undo(c) PROVE HeldInv'
  <2>1. /\ call[c].at = "undoing" /\ call'[c].at = "ended"
        /\ answer'[c] = IF c \in Submission THEN "delayed" ELSE "failed"
        /\ \A x \in Call : x # c => call'[x] = call[x] /\ answer'[x] = answer[x]
        /\ \/ application' = application
           \/ HasRow(c) /\ application' = None
        /\ objects' \subseteq objects
        /\ UNCHANGED <<receipts, expired, replay, rushed, probe>>
    <3>1. /\ \/ application' = application
             \/ HasRow(c) /\ application' = None
          /\ objects' \subseteq objects
      BY <1>9 DEF Undo, Deleted, HasRow
    <3>2. QED
      BY <1>9, <1>a, <3>1 DEF Undo, End, Ended, Idle, storeVars, CallState
  <2>2. RowsStay' /\ SettlingIsComplete'
    BY <2>1 DEF RowsStay, Awaited, Uploading, HasRow, Busy, SettlingIsComplete, BoundTo,
       DocumentsFollowCall
  <2>3. DocumentsFollowCall'
    BY <1>a, <2>1 DEF DocumentsFollowCall, Running
  <2>4. ReceiptsOutliveRequests'
    BY <1>a, <2>1 DEF ReceiptsOutliveRequests, Running
  <2>5. ReplaysAreAlone'
    BY <1>a, <2>1 DEF ReplaysAreAlone, Busy
  <2>6. MissingStaysMissing'
    BY <1>a, <2>1 DEF MissingStaysMissing, HasRow, Running
  <2>7. SpentIsComplete'
    BY <1>a, <2>1 DEF SpentIsComplete, BoundTo, Accepted, Busy, Running,
       DocumentsFollowCall, ReceiptsOutliveRequests, HasRow
  <2>8. QED
    BY <2>2, <2>3, <2>4, <2>5, <2>6, <2>7
<1>10. ASSUME NEW c \in Call, Finish(c) PROVE HeldInv'
  <2>1. /\ call[c].at = "finishing" /\ call'[c].at = "ended" /\ answer'[c] = "created"
        /\ \A x \in Call : x # c => call'[x] = call[x] /\ answer'[x] = answer[x]
        /\ receipts' \subseteq receipts /\ receipts \subseteq receipts' \cup {c}
        /\ UNCHANGED <<application, objects, expired, replay, rushed, probe>>
    BY <1>10, <1>a DEF Finish, End, Ended, Idle, Deleted, CallState
  <2>2. RowsStay' /\ SettlingIsComplete'
    BY <2>1 DEF RowsStay, Awaited, Uploading, HasRow, Busy, SettlingIsComplete, BoundTo
  <2>3. DocumentsFollowCall'
    BY <1>a, <2>1 DEF DocumentsFollowCall, Running
  <2>4. ReceiptsOutliveRequests'
    BY <1>a, <2>1 DEF ReceiptsOutliveRequests, Running
  <2>5. ReplaysAreAlone'
    BY <1>a, <2>1 DEF ReplaysAreAlone, Busy
  <2>6. MissingStaysMissing'
    BY <1>a, <2>1 DEF MissingStaysMissing, HasRow, Running
  <2>7. SpentIsComplete'
    BY <1>a, <2>1 DEF SpentIsComplete, BoundTo, Accepted, Busy, Running,
       DocumentsFollowCall, RowsStay, Awaited, Uploading, HasRow, RowsAreBound, Receipt
  <2>8. QED
    BY <2>2, <2>3, <2>4, <2>5, <2>6, <2>7
<1>11. ASSUME NEW c \in Call, Crash(c) PROVE HeldInv'
  <2>1. /\ Running(c) /\ call'[c].at = "ended"
        /\ \A x \in Call : x # c => call'[x] = call[x]
        /\ UNCHANGED <<application, objects, receipts, expired, answer, replay, rushed, probe>>
    BY <1>11, <1>a DEF Crash, Ended, Idle, storeVars, CallState
  <2>2. RowsStay' /\ SettlingIsComplete' /\ SpentIsComplete'
    BY <2>1 DEF RowsStay, Awaited, Uploading, HasRow, Busy, SettlingIsComplete, BoundTo,
       SpentIsComplete, Accepted, Running
  <2>3. DocumentsFollowCall'
    BY <1>a, <2>1 DEF DocumentsFollowCall, Running
  <2>4. ReceiptsOutliveRequests'
    BY <1>a, <2>1 DEF ReceiptsOutliveRequests, Running
  <2>5. ReplaysAreAlone'
    BY <1>a, <2>1 DEF ReplaysAreAlone, Busy
  <2>6. MissingStaysMissing'
    BY <1>a, <2>1 DEF MissingStaysMissing, HasRow, Running
  <2>7. QED
    BY <2>2, <2>3, <2>4, <2>5, <2>6
<1>12. ASSUME NEW o \in Operator, Load(o) PROVE HeldInv'
  <2>1. /\ replay[o].at = "idle" /\ replay'[o].at = "loaded"
        /\ Asked[o] \in receipts \ expired /\ rushed \subseteq rushed'
        /\ InUse(Asked[o]) => Asked[o] \in rushed'
        /\ \A p \in Operator : p # o => replay'[p] = replay[p]
        /\ UNCHANGED <<application, objects, receipts, expired, call, answer, probe>>
    BY <1>12, <1>a DEF Load, storeVars, callVars, ReplayState
  <2>2. /\ DocumentsFollowCall' /\ ReceiptsOutliveRequests' /\ SettlingIsComplete'
        /\ MissingStaysMissing' /\ SpentIsComplete'
    BY <2>1 DEF DocumentsFollowCall, Running, ReceiptsOutliveRequests, SettlingIsComplete,
       BoundTo, Busy, MissingStaysMissing, HasRow, SpentIsComplete, Accepted
  <2>3. RowsStay'
    BY <1>a, <2>1 DEF RowsStay, Awaited, Uploading, HasRow, Busy
  <2>4. ReplaysAreAlone'
    BY <1>a, <2>1 DEF ReplaysAreAlone, Busy, ReceiptsOutliveRequests, Running,
       ReplaysAreBound, Receipt, InUse
  <2>5. QED
    BY <2>2, <2>3, <2>4
<1>13. ASSUME NEW o \in Operator, Inspect(o) PROVE HeldInv'
  <2>1. /\ replay[o].at = "loaded"
        /\ \/ replay'[o].at = "settling" /\ BoundTo(Asked[o]) /\ Pending(application) = {}
           \/ replay'[o].at \in {"clearing", "ready"}
        /\ \A p \in Operator : p # o => replay'[p] = replay[p]
        /\ UNCHANGED <<application, objects, receipts, expired, call, answer, rushed, probe>>
    <3>1. replay[o].at = "loaded" /\ replay[o].receipt = Asked[o]
      BY <1>13 DEF Inspect, ReplaysAreBound, Busy
    <3>2. CASE BoundTo(Asked[o]) /\ DOMAIN application.docs # {} /\ Completed(application)
      <4>1. Pending(application) = {}
        BY <3>2 DEF Completed, Pending
      <4>2. QED
        BY <1>13, <1>a, <3>1, <3>2, <4>1 DEF Inspect, storeVars, callVars, ReplayState
    <3>3. CASE BoundTo(Asked[o]) /\ ~(DOMAIN application.docs # {} /\ Completed(application))
      <4>1. replay' = [replay EXCEPT ![o].at = "clearing", ![o].target = application.by,
                                     ![o].keys = DOMAIN application.docs]
        BY <1>13, <3>1, <3>3 DEF Inspect
      <4>2. /\ replay'[o].at = "clearing"
            /\ \A p \in Operator : p # o => replay'[p] = replay[p]
        BY <1>a, <4>1 DEF ReplayState
      <4>3. QED
        BY <1>13, <3>1, <4>2 DEF Inspect, storeVars, callVars
    <3>4. CASE ~BoundTo(Asked[o])
      <4>1. replay' = [replay EXCEPT ![o].at = "ready"]
        BY <1>13, <3>1, <3>4 DEF Inspect
      <4>2. QED
        BY <1>13, <1>a, <3>1, <4>1 DEF Inspect, storeVars, callVars, ReplayState
    <3>5. QED
      BY <3>2, <3>3, <3>4
  <2>2. /\ DocumentsFollowCall' /\ ReceiptsOutliveRequests' /\ ReplaysAreAlone'
        /\ SettlingIsComplete' /\ MissingStaysMissing' /\ SpentIsComplete'
    BY <2>1 DEF DocumentsFollowCall, Running, ReceiptsOutliveRequests, ReplaysAreAlone,
       Busy, SettlingIsComplete, BoundTo, MissingStaysMissing, HasRow, SpentIsComplete,
       Accepted
  <2>3. RowsStay'
    BY <1>a, <2>1 DEF RowsStay, Awaited, Uploading, HasRow, Busy
  <2>4. QED
    BY <2>2, <2>3
<1>14. ASSUME NEW o \in Operator, Clear(o) PROVE HeldInv'
  <2>1. /\ replay[o].at = "clearing" /\ replay'[o].at \in {"ready", "ended"}
        /\ \/ application' = application
           \/ HasRow(replay[o].target) /\ application' = None
        /\ objects' \subseteq objects
        /\ \A p \in Operator : p # o => replay'[p] = replay[p]
        /\ UNCHANGED <<receipts, expired, call, answer, rushed, probe>>
    <3>1. /\ \/ application' = application
             \/ HasRow(replay[o].target) /\ application' = None
          /\ objects' \subseteq objects
      BY <1>14 DEF Clear, Deleted, HasRow
    <3>2. /\ replay[o].at = "clearing"
          /\ UNCHANGED <<receipts, expired, call, answer, rushed, probe>>
          /\ \/ replay' = [replay EXCEPT ![o] =
                              [AtRest EXCEPT !.at = "ready", !.receipt = replay[o].receipt]]
             \/ replay' = [replay EXCEPT ![o] = Over]
      BY <1>14 DEF Clear, storeVars, callVars
    <3>3. /\ [AtRest EXCEPT !.at = "ready", !.receipt = replay[o].receipt].at = "ready"
          /\ Over.at = "ended"
      BY DEF AtRest, Over
    <3>4. QED
      BY <1>a, <3>1, <3>2, <3>3
  <2>2. /\ DocumentsFollowCall' /\ ReceiptsOutliveRequests' /\ ReplaysAreAlone'
        /\ MissingStaysMissing'
    BY <2>1 DEF DocumentsFollowCall, Running, ReceiptsOutliveRequests, ReplaysAreAlone,
       Busy, MissingStaysMissing, HasRow
  <2>3. RowsStay'
    BY <1>a, <2>1 DEF RowsStay, Awaited, Uploading, HasRow, Busy, ReplaysAreAlone,
       ReplaysAreBound, Receipt
  <2>4. SettlingIsComplete'
    BY <1>a, <2>1 DEF SettlingIsComplete, BoundTo, Busy, ReplaysAreAlone, HasRow,
       CallsAreBound, RowsAreBound, ReplaysAreBound, Receipt
  <2>5. SpentIsComplete'
    BY <1>a, <2>1 DEF SpentIsComplete, BoundTo, Accepted, Busy, Running, ReplaysAreAlone,
       HasRow, CallsAreBound, RowsAreBound, ReplaysAreBound, Receipt
  <2>6. QED
    BY <2>2, <2>3, <2>4, <2>5
<1>15. ASSUME NEW o \in Operator, Post(o) PROVE HeldInv'
  <2>1. /\ replay[o].at = "ready" /\ replay'[o].at = "posted"
        /\ call[o].at = "idle" /\ call'[o].at = "buffered" /\ answer[o] = None
        /\ \A p \in Operator : p # o => replay'[p] = replay[p]
        /\ \A c \in Call : c # o => call'[c] = call[c]
        /\ UNCHANGED <<application, objects, receipts, expired, answer, rushed, probe>>
    <3>1. call[o].at = "idle" /\ answer[o] = None
      BY <1>15, <1>a DEF Post, ReplaysAreBound, CallsAreBound
    <3>2. QED
      BY <1>15, <1>a, <3>1 DEF Post, Idle, storeVars, CallState, ReplayState
  <2>2. SettlingIsComplete' /\ SpentIsComplete'
    BY <2>1 DEF SettlingIsComplete, BoundTo, Busy, SpentIsComplete, Accepted, Running
  <2>3. DocumentsFollowCall'
    BY <1>a, <2>1 DEF DocumentsFollowCall, Running
  <2>4. RowsStay'
    BY <1>a, <2>1 DEF RowsStay, Awaited, Uploading, HasRow, Busy
  <2>5. ReceiptsOutliveRequests'
    BY <1>a, <2>1 DEF ReceiptsOutliveRequests, Running
  <2>6. ReplaysAreAlone'
    BY <1>a, <2>1 DEF ReplaysAreAlone, Busy
  <2>7. MissingStaysMissing'
    BY <1>a, <2>1 DEF MissingStaysMissing, HasRow, Running
  <2>8. QED
    BY <2>2, <2>3, <2>4, <2>5, <2>6, <2>7
<1>16. ASSUME NEW o \in Operator, TakeAnswer(o) PROVE HeldInv'
  <2>1. /\ replay[o].at = "posted"
        /\ \/ replay'[o].at = "settling" /\ answer[o] = "created"
           \/ replay'[o].at = "ended"
        /\ \A p \in Operator : p # o => replay'[p] = replay[p]
        /\ UNCHANGED <<application, objects, receipts, expired, call, answer, rushed, probe>>
    BY <1>16, <1>a DEF TakeAnswer, AtRest, Over, storeVars, callVars, ReplayState
  <2>2. /\ DocumentsFollowCall' /\ ReceiptsOutliveRequests' /\ ReplaysAreAlone'
        /\ MissingStaysMissing' /\ SpentIsComplete'
    BY <2>1 DEF DocumentsFollowCall, Running, ReceiptsOutliveRequests, ReplaysAreAlone,
       Busy, MissingStaysMissing, HasRow, SpentIsComplete, BoundTo, Accepted
  <2>3. RowsStay'
    BY <1>a, <2>1 DEF RowsStay, Awaited, Uploading, HasRow, Busy
  <2>4. SettlingIsComplete'
    BY <1>a, <2>1 DEF SettlingIsComplete, BoundTo, Busy, DocumentsFollowCall, RowsStay,
       Awaited, HasRow, RowsAreBound, Receipt
  <2>5. QED
    BY <2>2, <2>3, <2>4
<1>17. ASSUME NEW o \in Operator, Settle(o) PROVE HeldInv'
  <2>1. /\ replay[o].at = "settling" /\ replay'[o].at = "ended"
        /\ receipts' \subseteq receipts /\ receipts \subseteq receipts' \cup {Asked[o]}
        /\ \A p \in Operator : p # o => replay'[p] = replay[p]
        /\ UNCHANGED <<application, objects, expired, call, answer, rushed, probe>>
    <3>1. replay[o].at = "settling" /\ replay[o].receipt = Asked[o]
      BY <1>17 DEF Settle, ReplaysAreBound, Busy
    <3>2. receipts' \subseteq receipts /\ receipts \subseteq receipts' \cup {Asked[o]}
      BY <1>17, <3>1 DEF Settle, Deleted
    <3>3. QED
      BY <1>17, <1>a, <3>1, <3>2 DEF Settle, AtRest, Over, callVars, ReplayState
  <2>2. /\ DocumentsFollowCall' /\ ReceiptsOutliveRequests' /\ ReplaysAreAlone'
        /\ SettlingIsComplete' /\ MissingStaysMissing' /\ SpentIsComplete'
    BY <2>1 DEF DocumentsFollowCall, Running, ReceiptsOutliveRequests, ReplaysAreAlone,
       Busy, SettlingIsComplete, BoundTo, MissingStaysMissing, HasRow, SpentIsComplete,
       Accepted
  <2>3. RowsStay'
    BY <1>a, <2>1 DEF RowsStay, Awaited, Uploading, HasRow, Busy
  <2>4. QED
    BY <2>2, <2>3
<1>18. ASSUME NEW o \in Operator, GiveUp(o) PROVE HeldInv'
  <2>1. /\ Busy(o) /\ replay'[o].at = "ended"
        /\ \A p \in Operator : p # o => replay'[p] = replay[p]
        /\ UNCHANGED <<application, objects, receipts, expired, call, answer, rushed, probe>>
    BY <1>18, <1>a DEF GiveUp, AtRest, Over, storeVars, callVars, ReplayState
  <2>2. /\ DocumentsFollowCall' /\ ReceiptsOutliveRequests' /\ ReplaysAreAlone'
        /\ SettlingIsComplete' /\ MissingStaysMissing' /\ SpentIsComplete'
    BY <2>1 DEF DocumentsFollowCall, Running, ReceiptsOutliveRequests, ReplaysAreAlone,
       Busy, SettlingIsComplete, BoundTo, MissingStaysMissing, HasRow, SpentIsComplete,
       Accepted
  <2>3. RowsStay'
    BY <1>a, <2>1 DEF RowsStay, Awaited, Uploading, HasRow, Busy
  <2>4. QED
    BY <2>2, <2>3
<1>19. ASSUME NEW d \in Doc, Reconcile(d) PROVE HeldInv'
  <2>1. /\ application # None /\ application' # None /\ ~Running(application.by)
        /\ application'.by = application.by /\ application'.receipt = application.receipt
        /\ Pending(application') = Pending(application) \ {d}
        /\ <<application.by, d>> \in objects
        /\ UNCHANGED <<objects, receipts, expired, call, answer, replay, rushed, probe>>
    <3>1. application # None /\ application \in Row
          /\ application' = [application EXCEPT !.docs[d] = "completed"]
      BY <1>19, <1>a DEF Reconcile, Claim
    <3>2. /\ application' \in Row /\ application'.by = application.by
          /\ application'.receipt = application.receipt
          /\ Pending(application') = Pending(application) \ {d}
      BY <3>1, CompletedRow
    <3>3. QED
      BY <1>19, <1>a, <3>1, <3>2, GraceHolds DEF Reconcile, Eligible, storeVars, callVars
  <2>2. /\ DocumentsFollowCall' /\ RowsStay' /\ ReceiptsOutliveRequests'
        /\ ReplaysAreAlone' /\ SettlingIsComplete' /\ MissingStaysMissing'
        /\ SpentIsComplete'
    BY <2>1 DEF DocumentsFollowCall, Running, RowsStay, Awaited, Uploading, HasRow, Busy,
       ReceiptsOutliveRequests, ReplaysAreAlone, SettlingIsComplete, BoundTo,
       MissingStaysMissing, SpentIsComplete, Accepted
  <2>3. QED
    BY <2>2
<1>20. ASSUME NEW d \in Doc, SeeMissing(d) PROVE HeldInv'
  <2>1. /\ application # None /\ probe' = application.by /\ ~Running(application.by)
        /\ d \in Pending(application) /\ <<application.by, d>> \notin objects
        /\ UNCHANGED <<application, objects, receipts, expired, call, answer, replay, rushed>>
    BY <1>20, <1>a, GraceHolds DEF SeeMissing, Claim, Eligible, Pending, storeVars, callVars
  <2>2. /\ DocumentsFollowCall' /\ RowsStay' /\ ReceiptsOutliveRequests'
        /\ ReplaysAreAlone' /\ SettlingIsComplete' /\ SpentIsComplete'
    BY <2>1 DEF DocumentsFollowCall, Running, RowsStay, Awaited, Uploading, HasRow, Busy,
       ReceiptsOutliveRequests, ReplaysAreAlone, SettlingIsComplete, BoundTo,
       SpentIsComplete, Accepted
  <2>3. MissingStaysMissing'
    BY <1>a, <2>1 DEF MissingStaysMissing, HasRow, Running, RowsAreBound, Receipt
  <2>4. QED
    BY <2>2, <2>3
<1>21. CASE RollbackMissing
  <2>1. /\ probe # None /\ probe' = None /\ objects' \subseteq objects
        /\ \/ application' = application
           \/ HasRow(probe) /\ application' = None
        /\ UNCHANGED <<receipts, expired, call, answer, replay, rushed>>
    <3>1. /\ \/ application' = application
             \/ HasRow(probe) /\ application' = None
          /\ objects' \subseteq objects
      BY <1>21 DEF RollbackMissing, Deleted, HasRow
    <3>2. QED
      BY <1>21, <3>1 DEF RollbackMissing, storeVars, callVars
  <2>2. /\ DocumentsFollowCall' /\ ReceiptsOutliveRequests' /\ ReplaysAreAlone'
        /\ SettlingIsComplete' /\ MissingStaysMissing' /\ SpentIsComplete'
    BY <2>1 DEF DocumentsFollowCall, Running, ReceiptsOutliveRequests, ReplaysAreAlone,
       Busy, SettlingIsComplete, BoundTo, MissingStaysMissing, HasRow, SpentIsComplete,
       Accepted
  <2>3. RowsStay'
    <3>1. CASE application' = application
      BY <2>1, <3>1 DEF RowsStay, Awaited, HasRow
    <3>2. CASE HasRow(probe)
      <4>1. call[probe].at = "ended" /\ answer[probe] # "created"
        BY <2>1, <3>2 DEF MissingStaysMissing, DocumentsFollowCall, HasRow
      <4>2. \A c \in Call : Awaited(c)' => Awaited(c) /\ c # probe
        BY <2>1, <4>1 DEF Awaited, Uploading
      <4>3. QED
        BY <2>1, <3>2, <4>2 DEF RowsStay, HasRow
    <3>3. QED
      BY <2>1, <3>1, <3>2
  <2>4. QED
    BY <2>2, <2>3
<1>22. ASSUME NEW d \in Doc, FailAttempt(d) PROVE HeldInv'
  BY <1>22 DEF FailAttempt, storeVars, callVars, DocumentsFollowCall, RowsStay, Awaited,
     HasRow, ReceiptsOutliveRequests, ReplaysAreAlone, SettlingIsComplete,
     MissingStaysMissing, SpentIsComplete, Running, Busy, BoundTo
<1>23. CASE FailRollback
  BY <1>23 DEF FailRollback, storeVars, callVars, DocumentsFollowCall, RowsStay, Awaited,
     HasRow, ReceiptsOutliveRequests, ReplaysAreAlone, SettlingIsComplete,
     MissingStaysMissing, SpentIsComplete, Running, Busy, BoundTo
<1>24. ASSUME NEW s \in Submission, Expire(s) PROVE HeldInv'
  <2>1. /\ expired' = expired \cup {s}
        /\ UNCHANGED <<application, objects, receipts, call, answer, replay, rushed, probe>>
    BY <1>24, <1>a DEF Expire, callVars
  <2>2. /\ DocumentsFollowCall' /\ RowsStay' /\ ReceiptsOutliveRequests'
        /\ ReplaysAreAlone' /\ SettlingIsComplete' /\ MissingStaysMissing'
        /\ SpentIsComplete'
    BY <2>1 DEF DocumentsFollowCall, Running, RowsStay, Awaited, Uploading, HasRow, Busy,
       ReceiptsOutliveRequests, ReplaysAreAlone, SettlingIsComplete, BoundTo,
       MissingStaysMissing, SpentIsComplete, Accepted
  <2>3. QED
    BY <2>2
<1>25. ASSUME NEW s \in Submission, Purge(s) PROVE HeldInv'
  <2>1. /\ s \in expired /\ receipts' = receipts \ {s}
        /\ UNCHANGED <<application, objects, expired, call, answer, replay, rushed, probe>>
    BY <1>25, <1>a DEF Purge, callVars
  <2>2. /\ DocumentsFollowCall' /\ RowsStay' /\ ReceiptsOutliveRequests'
        /\ ReplaysAreAlone' /\ SettlingIsComplete' /\ MissingStaysMissing'
        /\ SpentIsComplete'
    BY <2>1 DEF DocumentsFollowCall, Running, RowsStay, Awaited, Uploading, HasRow, Busy,
       ReceiptsOutliveRequests, ReplaysAreAlone, SettlingIsComplete, BoundTo,
       MissingStaysMissing, SpentIsComplete, Accepted
  <2>3. QED
    BY <2>2
<1>26. CASE UNCHANGED vars
  BY <1>26 DEF vars, storeVars, callVars, DocumentsFollowCall, RowsStay, Awaited, HasRow,
     ReceiptsOutliveRequests, ReplaysAreAlone, SettlingIsComplete, MissingStaysMissing,
     SpentIsComplete, Running, Busy, BoundTo
<1>27. QED
  BY <1>1, <1>2, <1>3, <1>4, <1>5, <1>6, <1>7, <1>8, <1>9, <1>10, <1>11, <1>12, <1>13,
     <1>14, <1>15, <1>16, <1>17, <1>18, <1>19, <1>20, <1>21, <1>22, <1>23, <1>24, <1>25,
     <1>26
     DEF Next, CallStep, ReplayStep, ReconcileStep

LEMMA HeldInit == Init => HeldInv
  BY IntakeAssumption DEF Init, HeldInv, DocumentsFollowCall, RowsStay, Awaited, Uploading,
     ReceiptsOutliveRequests, ReplaysAreAlone, SettlingIsComplete, MissingStaysMissing,
     SpentIsComplete, Idle, AtRest, Running, Busy, HasRow, BoundTo, Accepted, Call

LEMMA HeldCorrect == ASSUME GraceHolds PROVE Spec => [](BoundInv /\ HeldInv)
<1>1. BoundInv /\ HeldInv /\ [Next]_vars => HeldInv'
  BY HeldStep
<1>2. QED
  BY <1>1, HeldInit, BoundInit, BoundStep, PTL DEF Spec

LEMMA NonePending == ASSUME NEW app \in Row, Pending(app) = {} PROVE Completed(app)
  BY DEF Row, Pending, Completed

-----------------------------------------------------------------------------
\* Whoever was told that the application is received is not forgotten: until
\* the receipt expires there is the application, or the receipt to replay,
\* unless replays of that receipt overlap its request or each other.
THEOREM AcceptedStaysHeld ==
    ASSUME GraceHolds PROVE Spec => []AcceptedIsHeld
<1>1. BoundInv /\ HeldInv => AcceptedIsHeld
  BY DEF HeldInv, SpentIsComplete, AcceptedIsHeld
<1>2. QED
  BY <1>1, HeldCorrect, PTL

\* A receipt leaves storage only because it has expired, the applicant is
\* refused, or the application it stands for is complete; the same exception.
THEOREM ReceiptsAreSpentRightly ==
    ASSUME GraceHolds PROVE Spec => ReceiptsAreSpent
<1> DEFINE Spent == \A s \in receipts \ receipts' :
                        \/ s \in expired \cup rushed
                        \/ answer'[s] = "rejected"
                        \/ BoundTo(s) /\ Completed(application)
<1>1. ASSUME BoundInv, HeldInv, [Next]_vars PROVE [Spent]_vars
  <2> SUFFICES ASSUME Next PROVE Spent
    BY <1>1
  <2>a. /\ Submission \subseteq Call /\ receipts \subseteq Submission
        /\ answer \in [Call -> {None} \cup Accepted \cup Refused]
    BY <1>1 DEF BoundInv, StateOK, Call
  <2>b. \A s : BoundTo(s) /\ Pending(application) = {} => BoundTo(s) /\ Completed(application)
    BY <1>1, NonePending DEF BoundInv, StateOK, BoundTo
  <2>1. ASSUME NEW s \in Submission, Buffer(s) PROVE Spent
    BY <2>1 DEF Buffer
  <2>2. ASSUME NEW c \in Call, Reject(c) \/ Duplicate(c) PROVE Spent
    <3>1. receipts \subseteq receipts' \cup {c} /\ answer'[c] = "rejected"
      BY <2>2, <2>a DEF Reject, Duplicate, End, Deleted
    <3>2. QED
      BY <3>1
  <2>3. ASSUME NEW c \in Call, Finish(c) PROVE Spent
    <3>1. /\ receipts \subseteq receipts' \cup {c}
          /\ c \notin Submission => receipts' = receipts
      BY <2>3 DEF Finish, Deleted
    <3>2. c \in Submission \ rushed => BoundTo(c) /\ Pending(application) = {}
      BY <1>1, <2>3, <2>a DEF HeldInv, RowsStay, Awaited, Uploading, HasRow, BoundTo,
         DocumentsFollowCall, BoundInv, RowsAreBound, Receipt, Finish
    <3>3. QED
      BY <2>a, <2>b, <3>1, <3>2
  <2>4. ASSUME NEW o \in Operator, Settle(o) PROVE Spent
    <3>1. replay[o].at = "settling" /\ replay[o].receipt = Asked[o]
      BY <1>1, <2>4 DEF Settle, BoundInv, ReplaysAreBound, Busy
    <3>2. receipts \subseteq receipts' \cup {Asked[o]}
      BY <2>4, <3>1 DEF Settle, Deleted
    <3>3. Asked[o] \notin rushed => BoundTo(Asked[o]) /\ Pending(application) = {}
      BY <1>1, <3>1 DEF HeldInv, SettlingIsComplete
    <3>4. QED
      BY <2>b, <3>2, <3>3
  <2>5. ASSUME NEW s \in Submission, Purge(s) PROVE Spent
    BY <2>5 DEF Purge
  <2>6. CASE receipts' = receipts
    BY <2>6
  <2>7. QED
    <3>1. \/ receipts' = receipts
          \/ \E s \in Submission : Buffer(s) \/ Purge(s)
          \/ \E c \in Call : Reject(c) \/ Duplicate(c) \/ Finish(c)
          \/ \E o \in Operator : Settle(o)
      BY DEF Next, CallStep, ReplayStep, ReconcileStep, storeVars, BufferFails, Break, Create,
         Store, StoreFails, Finalize, Undo, Crash, Load, Inspect, Clear, Post, TakeAnswer,
         GiveUp, Reconcile, SeeMissing, FailAttempt, RollbackMissing, FailRollback, Expire
    <3>2. QED
      BY <3>1, <2>1, <2>2, <2>3, <2>4, <2>5, <2>6
<1>2. QED
  BY <1>1, HeldCorrect, PTL DEF ReceiptsAreSpent, Spec
=============================================================================
