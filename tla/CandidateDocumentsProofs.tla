----------------------- MODULE CandidateDocumentsProofs -----------------------
(***************************************************************************)
(* Theorems about the documents of a candidate, for every finite set of    *)
(* documents, any requests that bring them, and any number of attempts,    *)
(* tasks and handlers.                                                     *)
(*                                                                         *)
(* Typed adds to the types what a handler knows at each stage.  Untouched  *)
(* says that nothing exists of a document before its request reserves it,  *)
(* Counted that a count holds until the rows are committed, and Current    *)
(* that the newest parse has seen the last reset.  Stored and Waiting      *)
(* carry the object and the parse task of a document from hand to hand;    *)
(* they need the upload grace to outlast the requests.                     *)
(***************************************************************************)
EXTENDS CandidateDocuments, FiniteSetTheorems, TLAPS

\* What a request carries at each stage.
Carries(q) ==
    /\ request[q].left \subseteq Planned[q]
    /\ request[q].at \in {"stored", "queueing", "finalizing"} => request[q].doc \in Planned[q]
    /\ request[q].at \in {"queueing", "finalizing"} => request[q].found \in ParseStatus

\* A handler is of a task that exists, in no later attempt than its last one.
Sound(h) ==
    /\ h.id <= task[h.task].id
    /\ h.id = task[h.task].id /\ Active(h.task) => h.attempt <= task[h.task].attempts
    /\ h.at \in {"read", "writing"} => h.found \in ParseStatus
    /\ h.at \in {"requeueing", "leaving", "missing"} => h.task[1] = "upload"
    /\ h.task[1] = "upload" /\ h.at = "read" => h.found # "pending"

Typed ==
    /\ TypeOK
    /\ \A q \in Request : Carries(q)
    /\ \A h \in work : Sound(h)

\* How a task may change: a new one is numbered higher, the attempts of an
\* active one grow, and what is over stays over.
Follows(old, new) ==
    /\ new.id >= old.id
    /\ new.id = old.id /\ new.status \in {"pending", "processing"}
           => old.status \in {"pending", "processing"} /\ new.attempts >= old.attempts

Grows == \A t \in Task : Follows(task[t], task'[t])

Kind == {"upload", "parse"}

\* Nothing exists of a document before its request reserves it.
Untried(d) ==
    /\ row[d] = None
    /\ \A k \in Kind : task[<<k, d>>] = NoTask
    /\ \A h \in work : h.task[2] # d

Untouched ==
    \A q \in Request : request[q].at \in {"idle", "counted"} =>
        \A d \in Planned[q] : Untried(d)

\* The request that has counted holds the lock, and its count is not exceeded.
Counted ==
    \A q \in Request : request[q].at = "counted" =>
        capacity = q /\ Cardinality(Rows) <= request[q].counted

\* A handler of the newest parse task has read the row since its last reset.
Current(h) ==
    /\ h.task[1] = "parse" /\ h.at \in {"read", "writing"}
    /\ h.id = task[h.task].id /\ row[h.task[2]] # None
    => h.resets = row[h.task[2]].resets

\* A request that has stored an object still has it.
Kept(q) == request[q].at \in {"stored", "queueing", "finalizing"} => request[q].doc \in objects

\* What a handler has read of its row and object.
Informed(h) ==
    /\ h.task[1] = "upload" =>
           /\ \A q \in Request : h.task[2] \in Planned[q] => request[q].at = "ended"
           /\ h.at = "missing" => h.task[2] \notin objects
           /\ \/ h.at \in {"read", "writing"}
              \/ h.at = "requeueing" /\ h.found = "pending"
              => h.task[2] \in objects \/ row[h.task[2]] = None
    /\ h.task[1] = "parse" /\ h.at \in {"read", "writing"} =>
           row[h.task[2]] = None \/ row[h.task[2]].upload = "completed"

\* Objects are where the requests, the handlers and the rows take them to be.
Stored ==
    /\ CompletedHasObject
    /\ \A q \in Request : Kept(q)
    /\ \A h \in work : Informed(h)

\* A parse task that will run, or that ran out of attempts.
HasParse(d) == Active(<<"parse", d>>) \/ task[<<"parse", d>>].status = "failed"

\* The uploads a request has still to finalize are pending, and a parse to
\* retry is queued before.
Unfinished(q) ==
    /\ request[q].at \in {"storing", "stored", "queueing", "finalizing"} =>
           \A d \in request[q].left : row[d] # None => row[d].upload = "pending"
    /\ request[q].at \in {"stored", "queueing", "finalizing"} =>
           /\ request[q].doc \notin request[q].left
           /\ row[request[q].doc] # None => row[request[q].doc].upload = "pending"
    /\ /\ request[q].at = "finalizing" /\ request[q].found = "pending"
       /\ row[request[q].doc] # None
       => HasParse(request[q].doc)

\* A reconciliation queues a parse to retry before it completes the upload.
Prepared(h) ==
    /\ h.task[1] = "upload" /\ h.at = "writing" /\ h.found = "pending"
    /\ row[h.task[2]] # None /\ row[h.task[2]].upload = "pending"
    => HasParse(h.task[2])

Waiting ==
    /\ PendingParseHasWork
    /\ \A q \in Request : Unfinished(q)
    /\ \A h \in work : Prepared(h)

\* How the row and the object of a document with a handler may change.
Onward(d) ==
    row'[d] # None => /\ row[d] # None
                      /\ row[d].upload = "completed" => row'[d].upload = "completed"

Steady(d) ==
    /\ d \notin objects => d \notin objects'
    /\ d \in objects => d \in objects' \/ row'[d] = None

-----------------------------------------------------------------------------
(* Tasks. *)

LEMMA Numbers ==
    /\ MaxAttempts \in Nat \ {0} /\ MaxTasks \in [Doc -> Nat]
    /\ Planned \in [Request -> SUBSET Doc] /\ Outcome \subseteq ParseStatus
    /\ \A q, r \in Request : q # r => Planned[q] \cap Planned[r] = {}
    /\ None \notin Request /\ None \notin Doc /\ None \notin ParseStatus
    /\ Capacity \in Nat /\ IsFiniteSet(Doc)
BY DocumentsAssumption

LEMMA Targets ==
    /\ \A k \in Kind, d \in Doc : <<k, d>> \in Task
    /\ \A t \in Task : t[1] \in Kind /\ t[2] \in Doc /\ t = <<t[1], t[2]>>
BY DEF Task, Kind

LEMMA IdleRequests ==
    /\ Idle \in RequestState /\ Ended \in RequestState
    /\ Idle.left = {} /\ Idle.at = "idle" /\ Ended.left = {} /\ Ended.at = "ended"
BY DEF Idle, Ended, RequestState

\* A task that is queued, ended or failed keeps its form and follows itself.
LEMMA TaskForms ==
    ASSUME TypeOK, NEW t \in Task
    PROVE  /\ Follows(task[t], task[t])
           /\ Queued(t) \in TaskRow /\ Follows(task[t], Queued(t))
           /\ \A s \in {"completed", "failed", "cancelled"} :
                  /\ Over(t, s) \in TaskRow /\ Follows(task[t], Over(t, s))
                  /\ Over(t, s).status = s
           /\ \A b \in BOOLEAN :
                  /\ Failed(t, b) \in TaskRow
                  /\ Active(t) => Follows(task[t], Failed(t, b))
                  /\ Failed(t, b).status \in {"pending", "failed"}
                  /\ ~b => Failed(t, b).status = "failed"
<1>1. task[t] \in TaskRow
  BY DEF TypeOK
<1>2. Follows(task[t], task[t])
  BY <1>1, Numbers DEF Follows, TaskRow
<1>3. Queued(t) \in TaskRow /\ Follows(task[t], Queued(t))
  BY <1>1, Numbers DEF Queued, TaskRow, Follows, Active
<1>4. ASSUME NEW s \in {"completed", "failed", "cancelled"}
      PROVE  /\ Over(t, s) \in TaskRow /\ Follows(task[t], Over(t, s))
             /\ Over(t, s).status = s
  <2>1. 0 \in 0..MaxAttempts
    BY Numbers
  <2>2. Over(t, s) \in TaskRow /\ Over(t, s).id = task[t].id /\ Over(t, s).status = s
    BY <1>1, <2>1 DEF Over, TaskRow
  <2>3. QED
    BY <1>1, <2>2 DEF TaskRow, Follows
<1>5. ASSUME NEW b \in BOOLEAN
      PROVE  /\ Failed(t, b) \in TaskRow
             /\ Active(t) => Follows(task[t], Failed(t, b))
             /\ Failed(t, b).status \in {"pending", "failed"}
             /\ ~b => Failed(t, b).status = "failed"
  <2>1. CASE b /\ task[t].attempts < MaxAttempts
    BY <1>1, <2>1, Numbers DEF Failed, TaskRow, Follows, Active
  <2>2. CASE ~(b /\ task[t].attempts < MaxAttempts)
    BY <1>4, <2>2 DEF Failed
  <2>3. QED
    BY <2>1, <2>2
<1>6. QED
  BY <1>2, <1>3, <1>4, <1>5

LEMMA CancelledForms ==
    ASSUME TypeOK, NEW T
    PROVE  /\ Cancelled(T) \in [Task -> TaskRow]
           /\ \A t \in Task :
                  /\ Follows(task[t], Cancelled(T)[t])
                  /\ \/ Cancelled(T)[t] = task[t]
                     \/ t \in T /\ Active(t) /\ Cancelled(T)[t].status = "cancelled"
<1>1. task \in [Task -> TaskRow]
  BY DEF TypeOK
<1>2. \A t \in Task : Cancelled(T)[t] = IF t \in T /\ Active(t) THEN Over(t, "cancelled")
                                                               ELSE task[t]
  BY DEF Cancelled
<1>3. Cancelled(T) \in [Task -> TaskRow]
  BY <1>1, TaskForms DEF Cancelled
<1>4. QED
  BY <1>1, <1>2, <1>3, TaskForms

\* Work on tasks leaves every handler sound that was.
LEMMA SoundKept ==
    ASSUME TypeOK, TypeOK', Grows, NEW h \in HandlerState, Sound(h)
    PROVE  Sound(h)'
<1>1. h.task \in Task /\ h.id \in Nat /\ h.attempt \in Nat
  BY Numbers DEF HandlerState
<1>2. task[h.task] \in TaskRow /\ task'[h.task] \in TaskRow
  BY <1>1 DEF TypeOK
<1>3. Follows(task[h.task], task'[h.task])
  BY <1>1 DEF Grows
<1>4. QED
  BY <1>1, <1>2, <1>3 DEF Sound, Follows, TaskRow, Active

LEMMA TypedKept ==
    ASSUME Typed, TypeOK', Grows, \A q \in Request : Carries(q)',
           \A h \in work' : h \in work \/ Sound(h)'
    PROVE  Typed'
<1>1. \A h \in work : Sound(h)'
  BY SoundKept DEF Typed, TypeOK
<1>2. QED
  BY <1>1 DEF Typed

\* Only request q goes on.
LEMMA CarriesKept ==
    ASSUME Typed, NEW q \in Request, NEW s \in RequestState,
           request' = [request EXCEPT ![q] = s],
           s.left \subseteq Planned[q],
           s.at \in {"stored", "queueing", "finalizing"} => s.doc \in Planned[q],
           s.at \in {"queueing", "finalizing"} => s.found \in ParseStatus
    PROVE  request' \in [Request -> RequestState] /\ \A r \in Request : Carries(r)'
BY DEF Typed, TypeOK, Carries

LEMMA TasksStay == ASSUME TypeOK, UNCHANGED task PROVE Grows
BY TaskForms DEF Grows

-----------------------------------------------------------------------------
(* Types. *)

LEMMA RequestTyped ==
    ASSUME Typed, NEW q \in Request, Count(q) \/ RequestStep(q)
    PROVE  Typed' /\ Grows
<1> USE Numbers, IdleRequests
<1>a. /\ request[q] \in RequestState /\ request[q].left \subseteq Planned[q]
      /\ Planned[q] \subseteq Doc
  BY DEF Typed, TypeOK, Carries
<1>b. Cardinality(Rows) \in Nat
  <2>1. IsFiniteSet(Rows)
    BY FS_Subset DEF Rows
  <2>2. QED
    BY <2>1, FS_CardinalityType
<1>1. CASE Count(q)
  <2> DEFINE s == [request[q] EXCEPT !.at = "counted", !.counted = Cardinality(Rows)]
  <2>1. s \in RequestState /\ request' = [request EXCEPT ![q] = s]
    BY <1>1, <1>a, <1>b DEF Count, RequestState, Typed, TypeOK
  <2>2. request' \in [Request -> RequestState] /\ \A r \in Request : Carries(r)'
    BY <2>1, <1>a, CarriesKept DEF RequestState
  <2>3. TypeOK' /\ Grows
    BY <1>1, <2>2, TasksStay DEF Count, Typed, TypeOK, docVars, appVars
  <2>4. QED
    BY <1>1, <2>2, <2>3, TypedKept DEF Count
<1>2. CASE Reserve(q)
  <2> DEFINE s == IF request[q].counted + Cardinality(Planned[q]) > Capacity THEN Ended
                  ELSE [Idle EXCEPT !.at = "storing", !.left = Planned[q]]
  <2>1. s \in RequestState /\ request' = [request EXCEPT ![q] = s]
        /\ s.left \subseteq Planned[q] /\ s.at \notin {"stored", "queueing", "finalizing"}
    BY <1>2, <1>a DEF Reserve, RequestState, Idle
  <2>2. request' \in [Request -> RequestState] /\ \A r \in Request : Carries(r)'
    BY <2>1, CarriesKept
  <2>3. row' \in [Doc -> DocumentRow \cup {None}]
    BY <1>2 DEF Reserve, Typed, TypeOK, DocumentRow, Fresh, ParseStatus
  <2>4. task' \in [Task -> TaskRow] /\ Grows
    BY <1>2, TaskForms, TasksStay DEF Reserve, Typed, TypeOK, Grows
  <2>5. /\ UNCHANGED <<objects, work, analysis>> /\ capacity' = None
        /\ applied' \in BOOLEAN
    BY <1>2 DEF Reserve, Typed, TypeOK
  <2>6. TypeOK'
    BY <2>2, <2>3, <2>4, <2>5 DEF Typed, TypeOK
  <2>7. QED
    BY <2>2, <2>4, <2>5, <2>6, TypedKept
<1>3. ASSUME NEW d \in Doc, Put(q, d) PROVE Typed' /\ Grows
  <2> DEFINE s == [request[q] EXCEPT !.at = "stored", !.doc = d, !.left = @ \ {d}]
  <2>1. s \in RequestState /\ request' = [request EXCEPT ![q] = s]
        /\ s.left \subseteq Planned[q] /\ s.at = "stored" /\ s.doc \in Planned[q]
    BY <1>3, <1>a DEF Put, RequestState, Typed, TypeOK
  <2>2. request' \in [Request -> RequestState] /\ \A r \in Request : Carries(r)'
    BY <2>1, CarriesKept
  <2>3. TypeOK' /\ Grows
    BY <1>3, <2>2, TasksStay DEF Put, Typed, TypeOK, appVars
  <2>4. QED
    BY <1>3, <2>2, <2>3, TypedKept DEF Put
<1>4. ASSUME NEW d \in Doc, PutFails(q, d) PROVE Typed' /\ Grows
  <2> DEFINE s == [request[q] EXCEPT !.at = "undoing", !.left = @ \ {d}]
  <2>1. s \in RequestState /\ request' = [request EXCEPT ![q] = s]
        /\ s.left \subseteq Planned[q] /\ s.at = "undoing"
    BY <1>4, <1>a DEF PutFails, RequestState, Typed, TypeOK
  <2>2. request' \in [Request -> RequestState] /\ \A r \in Request : Carries(r)'
    BY <2>1, CarriesKept
  <2>3. objects' \subseteq Doc
    BY <1>4 DEF PutFails, Typed, TypeOK
  <2>4. TypeOK' /\ Grows
    BY <1>4, <2>2, <2>3, TasksStay DEF PutFails, Typed, TypeOK, appVars
  <2>5. QED
    BY <1>4, <2>2, <2>4, TypedKept DEF PutFails
<1>5. CASE Undo(q)
  <2>1. request' = [request EXCEPT ![q] = Ended]
    BY <1>5 DEF Undo
  <2>2. request' \in [Request -> RequestState] /\ \A r \in Request : Carries(r)'
    BY <2>1, CarriesKept
  <2>3. row' \in [Doc -> DocumentRow \cup {None}] /\ objects' \subseteq Doc
    BY <1>5 DEF Undo, Typed, TypeOK, Deleted, docVars
  <2>4. task' = task \/ task' = Cancelled(TasksOf(Planned[q]))
    BY <1>5 DEF Undo
  <2>5. task' \in [Task -> TaskRow] /\ Grows
    BY <2>4, CancelledForms, TasksStay DEF Typed, TypeOK, Grows
  <2>6. /\ UNCHANGED <<capacity, work>>
        /\ applied' \in BOOLEAN /\ analysis' \in {"none", "queued", "scored", "failed"}
    BY <1>5 DEF Undo, Typed, TypeOK, appVars
  <2>7. TypeOK'
    BY <2>2, <2>3, <2>5, <2>6 DEF Typed, TypeOK
  <2>8. QED
    BY <2>2, <2>5, <2>6, <2>7, TypedKept
<1>6. ASSUME NEW found \in Outcome, Parse(q, found) PROVE Typed' /\ Grows
  <2> DEFINE s == [request[q] EXCEPT !.found = found,
                      !.at = IF found = "pending" THEN "queueing" ELSE "finalizing"]
  <2>1. s \in RequestState /\ request' = [request EXCEPT ![q] = s]
        /\ s.left \subseteq Planned[q] /\ s.doc \in Planned[q] /\ s.found \in ParseStatus
    BY <1>6, <1>a DEF Parse, RequestState, Typed, TypeOK, Carries
  <2>2. request' \in [Request -> RequestState] /\ \A r \in Request : Carries(r)'
    BY <2>1, CarriesKept
  <2>3. TypeOK' /\ Grows
    BY <1>6, <2>2, TasksStay DEF Parse, Typed, TypeOK, docVars, appVars
  <2>4. QED
    BY <1>6, <2>2, <2>3, TypedKept DEF Parse
<1>7. CASE QueueParse(q)
  <2> DEFINE s == [request[q] EXCEPT !.at = "finalizing"]
             t == <<"parse", request[q].doc>>
  <2>1. request' = [request EXCEPT ![q] = s] \/ request' = [request EXCEPT ![q] = Ended]
    BY <1>7 DEF QueueParse, Typed, TypeOK
  <2>2. request' \in [Request -> RequestState] /\ \A r \in Request : Carries(r)'
    <3>1. /\ s \in RequestState /\ s.left \subseteq Planned[q]
          /\ s.doc \in Planned[q] /\ s.found \in ParseStatus
      BY <1>7, <1>a DEF QueueParse, RequestState, Typed, Carries
    <3>2. CASE request' = [request EXCEPT ![q] = s]
      BY <3>1, <3>2, CarriesKept
    <3>3. CASE request' = [request EXCEPT ![q] = Ended]
      BY <3>3, CarriesKept
    <3>4. QED
      BY <2>1, <3>2, <3>3
  <2>3. t \in Task
    BY <1>7, <1>a, Targets DEF QueueParse, Typed, Carries, Kind
  <2>4. task' = task \/ task' = [task EXCEPT ![t] = Queued(t)]
    BY <1>7 DEF QueueParse
  <2>5. task' \in [Task -> TaskRow] /\ Grows
    BY <2>3, <2>4, TaskForms, TasksStay DEF Typed, TypeOK, Grows
  <2>6. TypeOK'
    BY <1>7, <2>2, <2>5 DEF QueueParse, Typed, TypeOK, docVars, appVars
  <2>7. QED
    BY <1>7, <2>2, <2>5, <2>6, TypedKept DEF QueueParse
<1>8. CASE Finalize(q)
  <2> DEFINE d == request[q].doc
             t == <<"upload", d>>
             s == [request[q] EXCEPT !.doc = None, !.found = None,
                      !.parsed = @ \/ (request[q].doc \in Resume /\ request[q].found = "parsed"),
                      !.at = IF request[q].left # {} THEN "storing"
                             ELSE IF q = Apply THEN "scoring" ELSE "ended"]
  <2>1. s \in RequestState /\ Advanced(q) = [request EXCEPT ![q] = s]
        /\ s.left \subseteq Planned[q] /\ s.at \in {"storing", "scoring", "ended"}
    <3> DEFINE b == request[q].parsed \/ (request[q].doc \in Resume /\ request[q].found = "parsed")
               a == IF request[q].left # {} THEN "storing"
                    ELSE IF q = Apply THEN "scoring" ELSE "ended"
    <3>1. Advanced(q) = [request EXCEPT ![q] = s]
      BY DEF Advanced
    <3>2. b \in BOOLEAN /\ a \in {"storing", "scoring", "ended"}
      BY <1>a DEF RequestState
    <3>3. s = [request[q] EXCEPT !.doc = None, !.found = None, !.parsed = b, !.at = a]
      OBVIOUS
    <3> HIDE DEF s, a, b
    <3>4. s \in RequestState /\ s.left = request[q].left /\ s.at = a
      BY <3>2, <3>3, <1>a DEF RequestState
    <3>5. QED
      BY <3>1, <3>2, <3>4, <1>a
  <2>2. request' = Advanced(q) \/ request' = [request EXCEPT ![q] = Ended]
    BY <1>8 DEF Finalize
  <2>3. request' \in [Request -> RequestState] /\ \A r \in Request : Carries(r)'
    <3>1. CASE request' = Advanced(q)
      <4> HIDE DEF s
      <4>1. request' = [request EXCEPT ![q] = s]
        BY <2>1, <3>1
      <4>2. QED
        BY <2>1, <4>1, CarriesKept
    <3>2. CASE request' = [request EXCEPT ![q] = Ended]
      BY <3>2, CarriesKept
    <3>3. QED
      BY <2>2, <3>1, <3>2
  <2>4. d \in Doc /\ t \in Task /\ request[q].found \in ParseStatus
    BY <1>8, <1>a, Targets DEF Finalize, Typed, Carries, Kind
  <2>5. task' = task \/ task' = [task EXCEPT ![t] = Over(t, "completed")]
    <3>1. task' = task \/ task' = [task EXCEPT ![t] = IF task[t].status = "pending"
                                          THEN Over(t, "completed") ELSE task[t]]
      BY <1>8 DEF Finalize
    <3>2. QED
      BY <2>4, <3>1 DEF Typed, TypeOK
  <2>6. task' \in [Task -> TaskRow] /\ Grows
    BY <2>4, <2>5, TaskForms, TasksStay DEF Typed, TypeOK, Grows
  <2>7. row' \in [Doc -> DocumentRow \cup {None}]
    <3>1. CASE row[d] # None
      <4>1. row[d] \in DocumentRow
        BY <2>4, <3>1 DEF Typed, TypeOK
      <4>2. [row[d] EXCEPT !.upload = "completed", !.parse = request[q].found] \in DocumentRow
        BY <2>4, <4>1 DEF DocumentRow
      <4>3. QED
        BY <1>8, <2>4, <4>1, <4>2 DEF Finalize, Typed, TypeOK
    <3>2. CASE row[d] = None
      BY <1>8, <3>2 DEF Finalize, Typed, TypeOK
    <3>3. QED
      BY <3>1, <3>2
  <2>8. TypeOK'
    BY <1>8, <2>3, <2>6, <2>7 DEF Finalize, Typed, TypeOK, appVars
  <2>9. QED
    BY <1>8, <2>3, <2>6, <2>8, TypedKept DEF Finalize
<1>9. CASE QueueAnalysis(q) \/ Crash(q)
  <2>1. request' = [request EXCEPT ![q] = Ended] /\ UNCHANGED <<row, objects, task, work, applied>>
    BY <1>9 DEF QueueAnalysis, Crash, docVars, appVars
  <2>2. request' \in [Request -> RequestState] /\ \A r \in Request : Carries(r)'
    BY <2>1, CarriesKept
  <2>3. capacity' \in Request \cup {None} /\ analysis' \in {"none", "queued", "scored", "failed"}
    BY <1>9 DEF QueueAnalysis, Crash, Typed, TypeOK, appVars
  <2>4. TypeOK' /\ Grows
    BY <2>1, <2>2, <2>3, TasksStay DEF Typed, TypeOK
  <2>5. QED
    BY <2>1, <2>2, <2>4, TypedKept
<1>10. QED
  BY <1>1, <1>2, <1>3, <1>4, <1>5, <1>6, <1>7, <1>8, <1>9 DEF RequestStep

LEMMA WorkTyped ==
    ASSUME Typed, UNCHANGED <<request, capacity>>, Grows,
           task' \in [Task -> TaskRow], row' \in [Doc -> DocumentRow \cup {None}],
           objects' \subseteq Doc, applied' \in BOOLEAN,
           analysis' \in {"none", "queued", "scored", "failed"},
           \A h \in work' : h \in work \/ (h \in HandlerState /\ Sound(h)')
    PROVE  Typed'
<1>1. work' \subseteq HandlerState
  BY DEF Typed, TypeOK
<1>2. TypeOK'
  BY <1>1 DEF Typed, TypeOK
<1>3. \A q \in Request : Carries(q)'
  BY DEF Typed, Carries
<1>4. QED
  BY <1>2, <1>3, TypedKept

LEMMA EndTyped ==
    ASSUME Typed, NEW h \in work, NEW result \in TaskRow, EndTask(h, result),
           Holds(h) => Follows(task[h.task], result)
    PROVE  /\ task' \in [Task -> TaskRow] /\ Grows /\ work' \subseteq work
           /\ \A t \in Task : t # h.task => task'[t] = task[t]
<1>1. h.task \in Task
  BY DEF Typed, TypeOK, HandlerState
<1>2. CASE Holds(h)
  BY <1>1, <1>2, TaskForms DEF EndTask, Typed, TypeOK, Grows, Leaves
<1>3. CASE ~Holds(h)
  BY <1>3, TasksStay DEF EndTask, Typed, TypeOK, Leaves
<1>4. QED
  BY <1>2, <1>3

\* The ways a handler ends its task.
LEMMA Endings ==
    ASSUME Typed, NEW h \in work, NEW result, EndTask(h, result),
           \/ result = Over(h.task, "completed")
           \/ \E b \in BOOLEAN : result = Failed(h.task, b)
    PROVE  /\ task' \in [Task -> TaskRow] /\ Grows /\ work' \subseteq work
           /\ \A t \in Task : t # h.task => task'[t] = task[t]
<1>1. h.task \in Task
  BY DEF Typed, TypeOK, HandlerState
<1>2. Holds(h) => Active(h.task)
  BY DEF Holds, Active
<1>3. result \in TaskRow /\ (Holds(h) => Follows(task[h.task], result))
  BY <1>1, <1>2, TaskForms DEF Typed
<1>4. QED
  BY <1>3, EndTyped

\* A handler that moves on without touching its task is typed if it is sound.
LEMMA StageTyped ==
    ASSUME Typed, NEW h \in work, NEW g \in HandlerState, work' = (work \ {h}) \cup {g},
           g.task = h.task, g.id = h.id, g.attempt = h.attempt,
           g.at \in {"read", "writing"} => g.found \in ParseStatus,
           g.at \in {"requeueing", "leaving", "missing"} => g.task[1] = "upload",
           g.task[1] = "upload" /\ g.at = "read" => g.found # "pending",
           task' \in [Task -> TaskRow], Grows,
           UNCHANGED <<row, objects, capacity, request, applied>>,
           analysis' \in {"none", "queued", "scored", "failed"}
    PROVE  Typed'
<1>1. h \in HandlerState /\ Sound(h)
  BY DEF Typed, TypeOK
<1>2. TypeOK'
  BY DEF Typed, TypeOK
<1>3. Sound(h)'
  BY <1>1, <1>2, SoundKept DEF Typed
<1>4. Sound(g)'
  BY <1>3 DEF Sound
<1>5. /\ row' \in [Doc -> DocumentRow \cup {None}] /\ objects' \subseteq Doc
      /\ applied' \in BOOLEAN
  BY DEF Typed, TypeOK
<1>6. \A x \in work' : x \in work \/ (x \in HandlerState /\ Sound(x)')
  BY <1>4
<1>7. UNCHANGED <<request, capacity>>
  OBVIOUS
<1>8. QED
  BY <1>5, <1>6, <1>7, WorkTyped

\* What a step leaves alone keeps its type.
LEMMA RestTyped ==
    ASSUME Typed
    PROVE  /\ row' = row => row' \in [Doc -> DocumentRow \cup {None}]
           /\ objects' = objects => objects' \subseteq Doc
           /\ applied' = applied => applied' \in BOOLEAN
           /\ analysis' = analysis => analysis' \in {"none", "queued", "scored", "failed"}
BY DEF Typed, TypeOK

LEMMA ClaimedRow ==
    ASSUME NEW old \in TaskRow, old.status \in {"pending", "processing"},
           old.attempts < MaxAttempts,
           NEW new, new = [old EXCEPT !.status = "processing", !.attempts = @ + 1]
    PROVE  /\ new \in TaskRow /\ Follows(old, new)
           /\ new.id = old.id /\ new.attempts = old.attempts + 1
<1>1. old.attempts \in Nat /\ old.attempts + 1 \in 0..MaxAttempts /\ old.id \in Nat
  BY Numbers DEF TaskRow
<1>2. /\ new.status = "processing" /\ new.id = old.id /\ new.attempts = old.attempts + 1
  BY DEF TaskRow
<1>3. new \in TaskRow
  BY <1>1 DEF TaskRow
<1>4. QED
  BY <1>1, <1>2, <1>3 DEF Follows

LEMMA ClaimTyped ==
    ASSUME Typed, NEW t \in Task, Claim(t)
    PROVE  Typed' /\ Grows
<1>u. UNCHANGED <<request, capacity>> /\ row' = row /\ objects' = objects
      /\ applied' = applied /\ analysis' = analysis
  BY DEF Claim, docVars, appVars
<1>1. task[t] \in TaskRow /\ Active(t)
  BY DEF Claim, Claimable, Typed, TypeOK
<1>2. CASE task[t].attempts < MaxAttempts
  <2> DEFINE new == [task[t] EXCEPT !.status = "processing", !.attempts = @ + 1]
  <2>0. PICK g : g = Handler(t)
    OBVIOUS
  <2>1. new \in TaskRow /\ Follows(task[t], new)
        /\ new.id = task[t].id /\ new.attempts = task[t].attempts + 1
    BY <1>1, <1>2, ClaimedRow DEF Active
  <2>2. task' = [task EXCEPT ![t] = new] /\ work' = work \cup {g}
    BY <1>2, <2>0 DEF Claim
  <2>3. g \in HandlerState
    BY <1>1, <1>2, <2>0, Numbers DEF Handler, HandlerState, TaskRow
  <2>4. task'[t] = new /\ task' \in [Task -> TaskRow]
    BY <2>1, <2>2 DEF Typed, TypeOK
  <2>5. Grows
    BY <2>1, <2>2, TaskForms DEF Grows, Typed, TypeOK
  <2>6. g.task = t /\ g.id = new.id /\ g.attempt = new.attempts /\ g.at = "claimed"
    BY <2>0, <2>1 DEF Handler
  <2>7. Sound(g)'
    <3>1. task'[g.task].id = g.id /\ task'[g.task].attempts = g.attempt
      BY <2>4, <2>6
    <3>2. g.id \in Nat /\ g.attempt \in Nat
      BY <2>3, Numbers DEF HandlerState
    <3>3. QED
      BY <2>6, <3>1, <3>2 DEF Sound
  <2>8. Typed'
    <3>1. \A x \in work' : x \in work \/ (x \in HandlerState /\ Sound(x)')
      BY <2>2, <2>3, <2>7
    <3>2. QED
      BY <2>4, <2>5, <3>1, <1>u, RestTyped, WorkTyped
  <2>9. QED
    BY <2>5, <2>8
<1>3. CASE ~(task[t].attempts < MaxAttempts)
  <2>1. task' = [task EXCEPT ![t] = Over(t, "failed")] /\ work' = work
    BY <1>3 DEF Claim
  <2>2. task' \in [Task -> TaskRow] /\ Grows
    BY <2>1, TaskForms DEF Typed, TypeOK, Grows
  <2>3. \A x \in work' : x \in work \/ (x \in HandlerState /\ Sound(x)')
    BY <2>1
  <2>4. QED
    BY <2>2, <2>3, <1>u, RestTyped, WorkTyped
<1>4. QED
  BY <1>2, <1>3

\* A handler that ends leaves the rest of a typed state typed.
LEMMA LeaveTyped ==
    ASSUME Typed, task' \in [Task -> TaskRow], Grows, work' \subseteq work,
           row' \in [Doc -> DocumentRow \cup {None}], objects' \subseteq Doc,
           applied' \in BOOLEAN, analysis' \in {"none", "queued", "scored", "failed"},
           UNCHANGED <<request, capacity>>
    PROVE  Typed'
<1>1. \A x \in work' : x \in work \/ (x \in HandlerState /\ Sound(x)')
  OBVIOUS
<1>2. QED
  BY <1>1, WorkTyped

LEMMA HandlerFacts ==
    ASSUME Typed, NEW h \in work
    PROVE  /\ h \in HandlerState /\ Sound(h) /\ h.task \in Task
           /\ h.task[1] \in Kind /\ h.task[2] \in Doc /\ h.task = <<h.task[1], h.task[2]>>
           /\ \A k \in Kind : <<k, h.task[2]>> \in Task
           /\ h.attempt \in 1..MaxAttempts /\ h.id \in Nat /\ h.resets \in Nat
           /\ h.found \in ParseStatus \cup {None}
           /\ Holds(h) => Active(h.task)
<1>1. h \in HandlerState /\ Sound(h)
  BY DEF Typed, TypeOK
<1>2. h.task \in Task
  BY <1>1 DEF HandlerState
<1>3. QED
  BY <1>1, <1>2, Targets DEF HandlerState, Holds, Active

\* A step that only ends the handler's task.
LEMMA EndingTyped ==
    ASSUME Typed, NEW h \in work, NEW result, EndTask(h, result),
           \/ result = Over(h.task, "completed")
           \/ \E b \in BOOLEAN : result = Failed(h.task, b),
           UNCHANGED <<docVars, capacity, request, appVars>>
    PROVE  Typed' /\ Grows
<1>1. /\ row' = row /\ objects' = objects /\ applied' = applied /\ analysis' = analysis
      /\ UNCHANGED <<request, capacity>>
  BY DEF docVars, appVars
<1>2. task' \in [Task -> TaskRow] /\ Grows /\ work' \subseteq work
  BY Endings
<1>3. QED
  BY <1>1, <1>2, RestTyped, LeaveTyped

\* A step that only moves the handler on.
LEMMA MovingTyped ==
    ASSUME Typed, NEW h \in work, NEW a, NEW f, NEW n \in Nat,
           work' = (work \ {h}) \cup {[h EXCEPT !.at = a, !.found = f, !.resets = n]},
           a \in {"requeueing", "leaving", "missing", "read", "writing"},
           f \in ParseStatus \cup {None},
           a \in {"read", "writing"} => f \in ParseStatus,
           a \in {"requeueing", "leaving", "missing"} => h.task[1] = "upload",
           h.task[1] = "upload" /\ a = "read" => f # "pending",
           task' \in [Task -> TaskRow], Grows,
           UNCHANGED <<row, objects, capacity, request, applied>>,
           analysis' \in {"none", "queued", "scored", "failed"}
    PROVE  Typed'
<1>1. h \in HandlerState
  BY HandlerFacts
<1>2. PICK g : g = [h EXCEPT !.at = a, !.found = f, !.resets = n]
  OBVIOUS
<1>3. /\ g \in HandlerState /\ g.task = h.task /\ g.id = h.id /\ g.attempt = h.attempt
      /\ g.at = a /\ g.found = f
  BY <1>1, <1>2 DEF HandlerState
<1>4. work' = (work \ {h}) \cup {g}
  BY <1>2
<1>5. /\ g.at \in {"read", "writing"} => g.found \in ParseStatus
      /\ g.at \in {"requeueing", "leaving", "missing"} => g.task[1] = "upload"
      /\ g.task[1] = "upload" /\ g.at = "read" => g.found # "pending"
  BY <1>3
<1>6. QED
  BY <1>3, <1>4, <1>5, StageTyped

LEMMA UploadHandlerTyped ==
    ASSUME Typed, NEW h \in work,
           (\E found \in Outcome : Reconcile(h, found)) \/ Requeue(h) \/ Leave(h)
    PROVE  Typed' /\ Grows
<1> USE Numbers
<1> DEFINE d == h.task[2]
           Same(a, f) == work' = (work \ {h}) \cup {[h EXCEPT !.at = a, !.found = f, !.resets = h.resets]}
<1>h. /\ h \in HandlerState /\ Sound(h) /\ h.task \in Task /\ d \in Doc /\ h.resets \in Nat
      /\ h.found \in ParseStatus \cup {None} /\ <<"parse", d>> \in Task
  BY HandlerFacts DEF Kind
<1>u. UNCHANGED <<docVars, capacity, request, appVars>>
  BY DEF Reconcile, Requeue, Leave
<1>v. /\ UNCHANGED <<row, objects, capacity, request, applied>>
      /\ analysis' \in {"none", "queued", "scored", "failed"}
  BY <1>u, RestTyped DEF docVars, appVars
<1>m. \A a, f : [h EXCEPT !.at = a, !.found = f, !.resets = h.resets] = [h EXCEPT !.at = a, !.found = f]
  BY <1>h DEF HandlerState
<1>n. \A a : [h EXCEPT !.at = a, !.found = h.found, !.resets = h.resets] = [h EXCEPT !.at = a]
  BY <1>h DEF HandlerState
<1>1. ASSUME NEW found \in Outcome, Reconcile(h, found) PROVE Typed' /\ Grows
  <2>1. CASE row[d] = None
    <3>1. EndTask(h, Over(h.task, "completed"))
      BY <1>1, <2>1 DEF Reconcile
    <3>2. QED
      BY <3>1, <1>u, EndingTyped
  <2>2. CASE row[d] # None
    <3>1. UNCHANGED task /\ h.task[1] = "upload"
      BY <1>1, <2>2 DEF Reconcile
    <3>2. \/ \E a \in {"requeueing", "leaving", "missing"} : Becomes(h, a)
          \/ \E a \in {"requeueing", "read"} :
                 /\ work' = (work \ {h}) \cup {[h EXCEPT !.found = found, !.at = a]}
                 /\ a = "read" => found # "pending"
      BY <1>1, <2>2 DEF Reconcile
    <3>3. task' \in [Task -> TaskRow] /\ Grows
      BY <3>1, TasksStay DEF Typed, TypeOK
    <3>4. ASSUME NEW a \in {"requeueing", "leaving", "missing"}, Becomes(h, a)
          PROVE  Typed'
      <4>1. Same(a, h.found)
        BY <3>4, <1>n DEF Becomes
      <4>2. QED
        BY <4>1, <3>1, <3>3, <1>h, <1>v, MovingTyped
    <3>5. ASSUME NEW a \in {"requeueing", "read"}, a = "read" => found # "pending",
                 work' = (work \ {h}) \cup {[h EXCEPT !.found = found, !.at = a]}
          PROVE  Typed'
      <4>1. [h EXCEPT !.found = found, !.at = a] = [h EXCEPT !.at = a, !.found = found]
        BY <1>h DEF HandlerState
      <4>2. Same(a, found) /\ found \in ParseStatus
        BY <3>5, <4>1, <1>m
      <4>3. QED
        BY <4>2, <3>1, <3>3, <3>5, <1>h, <1>v, MovingTyped
    <3>6. QED
      BY <3>2, <3>3, <3>4, <3>5
  <2>3. QED
    BY <2>1, <2>2
<1>2. CASE Requeue(h)
  <2>1. CASE row[d] = None
    <3>1. EndTask(h, Failed(h.task, TRUE))
      BY <1>2, <2>1 DEF Requeue
    <3>2. QED
      BY <3>1, <1>u, EndingTyped
  <2>2. CASE row[d] # None
    <3>1. /\ task' = [task EXCEPT ![<<"parse", d>>] = Queued(<<"parse", d>>)]
          /\ h.at = "requeueing"
          /\ \/ Becomes(h, "writing") /\ h.found = "pending"
             \/ Becomes(h, "leaving")
      BY <1>2, <2>2 DEF Requeue
    <3>2. task' \in [Task -> TaskRow] /\ Grows
      BY <1>h, <3>1, TaskForms DEF Typed, TypeOK, Grows
    <3>3. h.task[1] = "upload" /\ "pending" \in ParseStatus
      BY <1>h, <3>1 DEF Sound, ParseStatus
    <3>4. \E a \in {"writing", "leaving"} : Same(a, h.found) /\ (a = "writing" => h.found = "pending")
      BY <3>1, <1>n DEF Becomes
    <3>5. Typed'
      BY <3>2, <3>3, <3>4, <1>h, <1>v, MovingTyped
    <3>6. QED
      BY <3>2, <3>5
  <2>3. QED
    BY <2>1, <2>2
<1>3. CASE Leave(h)
  <2>1. EndTask(h, Over(h.task, "completed"))
    BY <1>3 DEF Leave
  <2>2. QED
    BY <2>1, <1>u, EndingTyped
<1>4. QED
  BY <1>1, <1>2, <1>3

LEMMA ParseHandlerTyped ==
    ASSUME Typed, NEW h \in work,
           (\E found \in Outcome : ParseDocument(h, found)) \/ FollowOn(h) \/ Fail(h) \/ Drop(h)
    PROVE  Typed' /\ Grows
<1> USE Numbers
<1> DEFINE d == h.task[2]
<1>h. /\ h \in HandlerState /\ Sound(h) /\ h.task \in Task /\ d \in Doc /\ h.resets \in Nat
      /\ h.found \in ParseStatus \cup {None}
  BY HandlerFacts
<1>1. ASSUME NEW found \in Outcome, ParseDocument(h, found) PROVE Typed' /\ Grows
  <2>u. /\ UNCHANGED <<docVars, capacity, request, appVars>>
        /\ UNCHANGED <<row, objects, capacity, request, applied>>
        /\ analysis' \in {"none", "queued", "scored", "failed"} /\ h.task[1] = "parse"
    BY <1>1, RestTyped DEF ParseDocument, docVars, appVars
  <2>1. CASE \/ EndTask(h, Failed(h.task, FALSE)) \/ EndTask(h, Failed(h.task, TRUE))
             \/ EndTask(h, Over(h.task, "completed"))
    BY <2>u, <2>1, EndingTyped
  <2>2. CASE /\ work' = (work \ {h}) \cup
                     {[h EXCEPT !.at = "read", !.found = found, !.resets = row[d].resets]}
             /\ UNCHANGED task /\ row[d] # None
    <3>1. row[d].resets \in Nat /\ found \in ParseStatus
      BY <1>h, <2>2 DEF Typed, TypeOK, DocumentRow
    <3>2. task' \in [Task -> TaskRow] /\ Grows
      BY <2>2, TasksStay DEF Typed, TypeOK
    <3>3. Typed'
      BY <2>u, <2>2, <3>1, <3>2, MovingTyped
    <3>4. QED
      BY <3>2, <3>3
  <2>3. QED
    BY <1>1, <2>1, <2>2 DEF ParseDocument
<1>2. CASE FollowOn(h)
  <2>1. /\ h.at = "read" /\ Becomes(h, "writing")
        /\ UNCHANGED <<row, objects, capacity, request, applied>> /\ UNCHANGED task
        /\ analysis' \in {"none", "queued", "scored", "failed"}
    BY <1>2, RestTyped DEF FollowOn, docVars
  <2>2. h.found \in ParseStatus
    BY <2>1, <1>h DEF Sound
  <2>3. PICK a \in {"writing"} :
            work' = (work \ {h}) \cup {[h EXCEPT !.at = a, !.found = h.found, !.resets = h.resets]}
    BY <2>1, <1>h DEF Becomes, HandlerState
  <2>4. task' \in [Task -> TaskRow] /\ Grows
    BY <2>1, TasksStay DEF Typed, TypeOK
  <2>5. a \in {"requeueing", "leaving", "missing", "read", "writing"}
        /\ (a \in {"requeueing", "leaving", "missing"} => h.task[1] = "upload")
        /\ (h.task[1] = "upload" /\ a = "read" => h.found # "pending")
    OBVIOUS
  <2>6. Typed'
    BY <1>h, <2>1, <2>2, <2>3, <2>4, <2>5, MovingTyped
  <2>7. QED
    BY <2>4, <2>6
<1>3. CASE Fail(h)
  BY <1>3, EndingTyped DEF Fail
<1>4. CASE Drop(h)
  <2>1. /\ row' = row /\ objects' = objects /\ applied' = applied /\ analysis' = analysis
        /\ UNCHANGED <<request, capacity>> /\ UNCHANGED task /\ work' \subseteq work
    BY <1>4 DEF Drop, Leaves, docVars, appVars
  <2>2. task' \in [Task -> TaskRow] /\ Grows
    BY <2>1, TasksStay DEF Typed, TypeOK
  <2>3. QED
    BY <2>1, <2>2, RestTyped, LeaveTyped
<1>5. QED
  BY <1>1, <1>2, <1>3, <1>4

LEMMA RollbackTyped ==
    ASSUME Typed, NEW h \in work, RollbackMissing(h)
    PROVE  Typed' /\ Grows
<1>h. h.task \in Task
  BY HandlerFacts
<1>u. UNCHANGED <<request, capacity>> /\ work' \subseteq work
  BY DEF RollbackMissing, Leaves
<1>1. CASE Holds(h)
  <2>1. \E T : task' = [Cancelled(T) EXCEPT ![h.task] = Over(h.task, "completed")]
    BY <1>1 DEF RollbackMissing
  <2>2. PICK T : task' = [Cancelled(T) EXCEPT ![h.task] = Over(h.task, "completed")]
    BY <2>1
  <2>3. task' \in [Task -> TaskRow] /\ Grows
    BY <1>h, <2>2, CancelledForms, TaskForms DEF Typed, Grows
  <2>4. row' \in [Doc -> DocumentRow \cup {None}]
    BY <1>1 DEF RollbackMissing, Typed, TypeOK
  <2>5. objects' \subseteq Doc
    BY <1>1 DEF RollbackMissing, Deleted, Typed, TypeOK
  <2>6. applied' \in BOOLEAN
    BY <1>1, RestTyped DEF RollbackMissing
  <2>7. analysis' \in {"none", "queued", "scored", "failed"}
    BY <1>1, RestTyped DEF RollbackMissing
  <2>8. QED
    BY <1>u, <2>3, <2>4, <2>5, <2>6, <2>7, LeaveTyped
<1>2. CASE ~Holds(h)
  <2>1. /\ row' = row /\ objects' = objects /\ applied' = applied /\ analysis' = analysis
        /\ UNCHANGED task
    BY <1>2 DEF RollbackMissing, docVars, appVars
  <2>2. task' \in [Task -> TaskRow] /\ Grows
    BY <2>1, TasksStay DEF Typed, TypeOK
  <2>3. QED
    BY <1>u, <2>1, <2>2, RestTyped, LeaveTyped
<1>3. QED
  BY <1>1, <1>2

LEMMA WriteTyped ==
    ASSUME Typed, NEW h \in work, Write(h)
    PROVE  Typed' /\ Grows
<1> USE Numbers
<1> DEFINE d == h.task[2]
<1>h. h.task \in Task /\ d \in Doc /\ h.found \in ParseStatus /\ (Holds(h) => Active(h.task))
  BY HandlerFacts DEF Write, Sound
<1>u. /\ UNCHANGED <<request, capacity>> /\ work' \subseteq work
      /\ objects' = objects /\ applied' = applied /\ analysis' = analysis
  BY DEF Write, Leaves, appVars
<1>1. CASE Holds(h)
  <2>1. PICK end : /\ task' = [task EXCEPT ![h.task] = end]
                   /\ \/ end = Over(h.task, "completed")
                      \/ end = Failed(h.task, h.found = "pending")
    BY <1>1 DEF Write
  <2>2. \/ end = Over(h.task, "completed") \/ end = Failed(h.task, TRUE)
        \/ end = Failed(h.task, FALSE)
    BY <2>1 DEF Failed
  <2>3. EndTask(h, end)
    BY <1>1, <2>1 DEF EndTask, Write
  <2>4. task' \in [Task -> TaskRow] /\ Grows
    BY <2>2, <2>3, Endings
  <2>5. PICK parse \in ParseStatus :
            \/ row' = row
            \/ row[d] # None /\ row' = [row EXCEPT ![d].upload = "completed", ![d].parse = parse]
    BY <1>h, <1>1 DEF Write, ParseStatus
  <2>6. row' \in [Doc -> DocumentRow \cup {None}]
    <3>1. CASE row' = row
      BY <3>1, RestTyped
    <3>2. CASE row[d] # None /\ row' = [row EXCEPT ![d].upload = "completed", ![d].parse = parse]
      <4>1. row[d] \in DocumentRow /\ row \in [Doc -> DocumentRow \cup {None}]
        BY <1>h, <3>2 DEF Typed, TypeOK
      <4>2. [row[d] EXCEPT !.upload = "completed", !.parse = parse] \in DocumentRow
        BY <4>1 DEF DocumentRow
      <4>3. row' = [row EXCEPT ![d] = [row[d] EXCEPT !.upload = "completed", !.parse = parse]]
        BY <3>2, <4>1, <1>h
      <4>4. QED
        BY <4>1, <4>2, <4>3
    <3>3. QED
      BY <2>5, <3>1, <3>2
  <2>7. QED
    BY <1>u, <2>4, <2>6, RestTyped, LeaveTyped
<1>2. CASE ~Holds(h)
  <2>1. row' = row /\ UNCHANGED task
    BY <1>2 DEF Write
  <2>2. task' \in [Task -> TaskRow] /\ Grows
    BY <2>1, TasksStay DEF Typed, TypeOK
  <2>3. QED
    BY <1>u, <2>1, <2>2, RestTyped, LeaveTyped
<1>3. QED
  BY <1>1, <1>2

LEMMA RecruiterTyped ==
    ASSUME Typed, NEW d \in Doc, Reparse(d) \/ ParseAll(d) \/ Delete(d)
    PROVE  Typed' /\ Grows
<1> USE Numbers
<1> DEFINE t == <<"parse", d>>
<1>t. t \in Task
  BY Targets DEF Kind
<1>u. /\ UNCHANGED <<request, capacity>> /\ work' = work
      /\ objects' = objects /\ applied' = applied /\ analysis' = analysis
  BY DEF Reparse, ParseAll, Delete, docVars, appVars
<1>1. CASE Reparse(d)
  <2> DEFINE new == [status |-> "pending", id |-> task[t].id + 1, attempts |-> 0]
  <2>1. task[t] \in TaskRow /\ task' = [task EXCEPT ![t] = new]
    BY <1>1, <1>t DEF Reparse, Typed, TypeOK
  <2>2. new \in TaskRow /\ Follows(task[t], new)
    BY <2>1 DEF TaskRow, Follows
  <2>3. task' \in [Task -> TaskRow] /\ Grows
    BY <1>t, <2>1, <2>2, TaskForms DEF Typed, TypeOK, Grows
  <2>4. row[d] \in DocumentRow
    BY <1>1 DEF Reparse, Typed, TypeOK
  <2>5. [row[d] EXCEPT !.parse = "pending", !.resets = @ + 1] \in DocumentRow
    <3>1. \A r \in DocumentRow : r.resets + 1 \in Nat /\ "pending" \in ParseStatus
      BY DEF DocumentRow, ParseStatus
    <3>2. PICK n : n = row[d].resets + 1
      OBVIOUS
    <3>3. \A r \in DocumentRow : [r EXCEPT !.parse = "pending", !.resets = n] \in DocumentRow
      BY <2>4, <3>1, <3>2 DEF DocumentRow
    <3>4. QED
      BY <2>4, <3>2, <3>3
  <2>6. row' = [row EXCEPT ![d] = [row[d] EXCEPT !.parse = "pending", !.resets = @ + 1]]
    BY <1>1, <2>4 DEF Reparse, Typed, TypeOK
  <2>7. row' \in [Doc -> DocumentRow \cup {None}]
    BY <2>5, <2>6 DEF Typed, TypeOK
  <2>8. QED
    BY <1>u, <2>3, <2>7, RestTyped, LeaveTyped
<1>2. CASE ParseAll(d)
  <2>1. task' = [task EXCEPT ![t] = Queued(t)] /\ row' = row
    BY <1>2 DEF ParseAll, docVars
  <2>2. task' \in [Task -> TaskRow] /\ Grows
    BY <1>t, <2>1, TaskForms DEF Typed, TypeOK, Grows
  <2>3. QED
    BY <1>u, <2>1, <2>2, RestTyped, LeaveTyped
<1>3. CASE Delete(d)
  <2>1. task' = Cancelled(TasksOf({d})) /\ row' = [row EXCEPT ![d] = None]
    BY <1>3 DEF Delete
  <2>2. task' \in [Task -> TaskRow] /\ Grows
    BY <2>1, CancelledForms DEF Typed, Grows
  <2>3. row' \in [Doc -> DocumentRow \cup {None}]
    BY <2>1 DEF Typed, TypeOK
  <2>4. QED
    BY <1>u, <2>2, <2>3, RestTyped, LeaveTyped
<1>4. QED
  BY <1>1, <1>2, <1>3

LEMMA AnalyseTyped ==
    ASSUME Typed, Analyse
    PROVE  Typed' /\ Grows
<1>1. /\ UNCHANGED <<request, capacity>> /\ work' = work /\ UNCHANGED task
      /\ row' = row /\ objects' = objects /\ applied' = applied
      /\ analysis' \in {"none", "queued", "scored", "failed"}
  BY DEF Analyse, docVars
<1>2. task' \in [Task -> TaskRow] /\ Grows
  BY <1>1, TasksStay DEF Typed, TypeOK
<1>3. QED
  BY <1>1, <1>2, RestTyped, LeaveTyped

LEMMA InitTyped == Init => Typed
<1> SUFFICES ASSUME Init PROVE Typed
  OBVIOUS
<1>1. NoTask \in TaskRow
  BY Numbers DEF NoTask, TaskRow
<1>2. TypeOK
  BY <1>1, IdleRequests DEF Init, TypeOK
<1>3. \A q \in Request : Carries(q)
  BY IdleRequests DEF Init, Carries
<1>4. QED
  BY <1>2, <1>3 DEF Init, Typed

LEMMA NextTyped == Typed /\ [Next]_vars => Typed' /\ Grows
<1> SUFFICES ASSUME Typed, [Next]_vars PROVE Typed' /\ Grows
  OBVIOUS
<1>1. ASSUME NEW q \in Request, Count(q) \/ RequestStep(q) PROVE Typed' /\ Grows
  BY <1>1, RequestTyped
<1>2. ASSUME NEW t \in Task, Claim(t) PROVE Typed' /\ Grows
  BY <1>2, ClaimTyped
<1>3. ASSUME NEW h \in work, HandlerStep(h) PROVE Typed' /\ Grows
  BY <1>3, UploadHandlerTyped, ParseHandlerTyped, RollbackTyped, WriteTyped DEF HandlerStep
<1>4. CASE Analyse
  BY <1>4, AnalyseTyped
<1>5. ASSUME NEW d \in Doc, Reparse(d) \/ ParseAll(d) \/ Delete(d) PROVE Typed' /\ Grows
  BY <1>5, RecruiterTyped
<1>6. CASE UNCHANGED vars
  <2>1. /\ UNCHANGED <<request, capacity>> /\ work' = work /\ UNCHANGED task
        /\ row' = row /\ objects' = objects /\ applied' = applied /\ analysis' = analysis
    BY <1>6 DEF vars, docVars, appVars
  <2>2. task' \in [Task -> TaskRow] /\ Grows
    BY <2>1, TasksStay DEF Typed, TypeOK
  <2>3. QED
    BY <2>1, <2>2, RestTyped, LeaveTyped
<1>7. QED
  BY <1>1, <1>2, <1>3, <1>4, <1>5, <1>6 DEF Next

\* The rows, tasks, requests and handlers keep their types.
THEOREM DocumentsTypeCorrect == Spec => []TypeOK
<1>1. Typed => TypeOK
  BY DEF Typed
<1>2. QED
  BY <1>1, InitTyped, NextTyped, PTL DEF Spec

-----------------------------------------------------------------------------
(* What a step does to a document. *)

\* A request touches its own documents only, and goes on.
LEMMA RequestScope ==
    ASSUME Typed, NEW q \in Request, RequestStep(q)
    PROVE  /\ UNCHANGED work
           /\ request'[q].at \notin {"idle", "counted"}
           /\ \A r \in Request : r # q => request'[r] = request[r]
           /\ \A d \in Doc \ Planned[q] :
                  row'[d] = row[d] /\ \A k \in Kind : task'[<<k, d>>] = task[<<k, d>>]
<1> USE Numbers, IdleRequests
<1>1. /\ request \in [Request -> RequestState] /\ row \in [Doc -> DocumentRow \cup {None}]
      /\ task \in [Task -> TaskRow]
      /\ request[q].at \in {"stored", "queueing", "finalizing"} => request[q].doc \in Planned[q]
  BY DEF Typed, TypeOK, Carries
<1>2. UNCHANGED work
  BY DEF RequestStep, Reserve, Put, PutFails, Undo, QueueParse, Finalize, QueueAnalysis,
         Parse, Crash, appVars
<1>3. \A r \in Request : r # q => request'[r] = request[r]
  BY <1>1 DEF RequestStep, Reserve, Put, PutFails, Undo, QueueParse, Finalize, Advanced,
              QueueAnalysis, Parse, Crash
<1>4. request'[q].at \notin {"idle", "counted"}
  <2>1. CASE Finalize(q)
    <3>1. Advanced(q)[q].at \in {"storing", "scoring", "ended"}
      BY <1>1 DEF Advanced, RequestState
    <3>2. QED
      BY <2>1, <3>1, <1>1 DEF Finalize
  <2>2. CASE Reserve(q)
    <3>1. [Idle EXCEPT !.at = "storing", !.left = Planned[q]].at = "storing"
      BY DEF Idle
    <3>2. QED
      BY <2>2, <3>1, <1>1 DEF Reserve
  <2>3. CASE \E d \in Doc : Put(q, d) \/ PutFails(q, d)
    BY <2>3, <1>1 DEF Put, PutFails, RequestState
  <2>4. CASE Undo(q) \/ QueueAnalysis(q) \/ Crash(q)
    BY <2>4, <1>1 DEF Undo, QueueAnalysis, Crash
  <2>5. CASE QueueParse(q)
    BY <2>5, <1>1 DEF QueueParse, RequestState
  <2>6. CASE \E found \in Outcome : Parse(q, found)
    BY <2>6, <1>1 DEF Parse, RequestState
  <2>7. QED
    BY <2>1, <2>2, <2>3, <2>4, <2>5, <2>6 DEF RequestStep
<1>5. ASSUME NEW d \in Doc \ Planned[q], NEW k \in Kind
      PROVE  row'[d] = row[d] /\ task'[<<k, d>>] = task[<<k, d>>]
  <2>t. /\ <<k, d>> \in Task /\ <<k, d>>[1] = k /\ <<k, d>>[2] = d
    BY Targets
  <2>1. CASE Reserve(q)
    BY <2>1, <2>t, <1>1 DEF Reserve
  <2>2. CASE Undo(q)
    BY <2>2, <2>t, <1>1 DEF Undo, Cancelled, TasksOf, docVars
  <2>3. CASE QueueParse(q)
    BY <2>3, <2>t, <1>1 DEF QueueParse, docVars
  <2>4. CASE Finalize(q)
    BY <2>4, <2>t, <1>1 DEF Finalize
  <2>5. CASE \/ \E e \in Doc : Put(q, e) \/ PutFails(q, e)
             \/ QueueAnalysis(q) \/ Crash(q)
             \/ \E found \in Outcome : Parse(q, found)
    BY <2>5 DEF Put, PutFails, QueueAnalysis, Crash, Parse, docVars
  <2>6. QED
    BY <2>1, <2>2, <2>3, <2>4, <2>5 DEF RequestStep
<1>6. QED
  BY <1>2, <1>3, <1>4, <1>5 DEF Kind

\* A handler's step never makes a row, and touches no task that never was.
LEMMA HandlerScope ==
    ASSUME Typed, NEW h \in work, HandlerStep(h)
    PROVE  /\ UNCHANGED <<request, capacity>>
           /\ \A g \in work' : g \in work \/ (g.task = h.task /\ g.id = h.id)
           /\ \A d \in Doc : row'[d] # None => row[d] # None /\ row'[d].resets = row[d].resets
           /\ \A d \in Doc, k \in Kind : d # h.task[2] /\ task[<<k, d>>] = NoTask
                  => task'[<<k, d>>] = NoTask
<1>h. /\ h \in HandlerState /\ h.task \in Task /\ h.task[2] \in Doc
      /\ h.task = <<h.task[1], h.task[2]>>
  BY HandlerFacts
<1>t. /\ row \in [Doc -> DocumentRow \cup {None}] /\ task \in [Task -> TaskRow]
  BY DEF Typed, TypeOK
<1>1. UNCHANGED <<request, capacity>>
  BY DEF HandlerStep, Reconcile, ParseDocument, Requeue, Leave, RollbackMissing, FollowOn, Write,
         Fail, Drop
<1>2. \A g \in work' : g \in work \/ (g.task = h.task /\ g.id = h.id)
  <2>1. CASE work' \subseteq work
    BY <2>1
  <2>2. CASE \E a, f, n : work' = (work \ {h}) \cup {[h EXCEPT !.at = a, !.found = f, !.resets = n]}
    BY <2>2, <1>h DEF HandlerState
  <2>3. CASE \E a, f : work' = (work \ {h}) \cup {[h EXCEPT !.found = f, !.at = a]}
    BY <2>3, <1>h DEF HandlerState
  <2>4. CASE \E a : work' = (work \ {h}) \cup {[h EXCEPT !.at = a]}
    BY <2>4, <1>h DEF HandlerState
  <2>5. CASE \E found \in Outcome : Reconcile(h, found)
    BY <2>1, <2>3, <2>4, <2>5 DEF Reconcile, EndTask, Leaves, Becomes
  <2>6. CASE \E found \in Outcome : ParseDocument(h, found)
    <3>1. PICK found \in Outcome : ParseDocument(h, found)
      BY <2>6
    <3>2. \/ work' \subseteq work
          \/ work' = (work \ {h}) \cup {[h EXCEPT !.at = "read", !.found = found,
                                                   !.resets = row[h.task[2]].resets]}
      BY <3>1 DEF ParseDocument, EndTask, Leaves
    <3>3. QED
      BY <2>1, <2>2, <3>2
  <2>7. CASE Requeue(h) \/ FollowOn(h)
    BY <2>1, <2>4, <2>7 DEF Requeue, FollowOn, EndTask, Leaves, Becomes
  <2>8. CASE Leave(h) \/ RollbackMissing(h) \/ Write(h) \/ Fail(h) \/ Drop(h)
    BY <2>1, <2>8 DEF Leave, RollbackMissing, Write, Fail, Drop, EndTask, Leaves
  <2>9. QED
    BY <2>5, <2>6, <2>7, <2>8 DEF HandlerStep
<1>3. ASSUME NEW d \in Doc, row'[d] # None
      PROVE  row[d] # None /\ row'[d].resets = row[d].resets
  <2>1. CASE row' = row
    BY <2>1, <1>3
  <2>2. CASE RollbackMissing(h)
    BY <2>2, <1>3, <1>t DEF RollbackMissing, docVars
  <2>3. CASE Write(h)
    <3>1. PICK e, p : \/ row' = row
                      \/ /\ e \in Doc /\ row[e] # None
                         /\ row' = [row EXCEPT ![e].upload = "completed", ![e].parse = p]
      BY <1>h, <2>3 DEF Write
    <3>2. CASE row' = row
      BY <3>2, <1>3
    <3>3. CASE /\ e \in Doc /\ row[e] # None
               /\ row' = [row EXCEPT ![e].upload = "completed", ![e].parse = p]
      BY <3>3, <1>3, <1>t DEF DocumentRow
    <3>4. QED
      BY <3>1, <3>2, <3>3
  <2>4. QED
    BY <2>1, <2>2, <2>3 DEF HandlerStep, Reconcile, ParseDocument, Requeue, Leave, FollowOn,
         Fail, Drop, docVars
<1>4. ASSUME NEW d \in Doc, NEW k \in Kind, d # h.task[2], task[<<k, d>>] = NoTask
      PROVE  task'[<<k, d>>] = NoTask
  <2> DEFINE t == <<k, d>>
  <2>1. t \in Task /\ t # h.task /\ t # <<"parse", h.task[2]>> /\ ~Active(t)
    BY <1>4, <1>h, Targets DEF Active, NoTask
  <2>2. CASE \E T : task' = [Cancelled(T) EXCEPT ![h.task] = Over(h.task, "completed")]
    <3>1. \A T : Cancelled(T)[t] = task[t]
      BY <2>1 DEF Cancelled
    <3>2. QED
      BY <2>1, <2>2, <3>1, <1>4 DEF Cancelled
  <2>3. CASE \E u : u # t /\ \E n : task' = [task EXCEPT ![u] = n]
    BY <2>1, <2>3, <1>4, <1>t
  <2>4. CASE UNCHANGED task
    BY <2>4, <1>4
  <2>5. CASE RollbackMissing(h)
    BY <2>2, <2>4, <2>5 DEF RollbackMissing
  <2>6. CASE Write(h)
    BY <2>1, <2>3, <2>4, <2>6 DEF Write
  <2>7. CASE Requeue(h)
    BY <2>1, <2>3, <2>4, <2>7 DEF Requeue, EndTask
  <2>8. CASE \E n : EndTask(h, n)
    BY <2>1, <2>3, <2>4, <2>8 DEF EndTask
  <2>9. QED
    BY <2>4, <2>5, <2>6, <2>7, <2>8 DEF HandlerStep, Reconcile, ParseDocument, Leave, FollowOn,
         Fail, Drop
<1>5. QED
  BY <1>1, <1>2, <1>3, <1>4

\* A recruiter's step never makes a row, and resets a parse with a new task.
LEMMA RecruiterScope ==
    ASSUME Typed, NEW e \in Doc, Reparse(e) \/ ParseAll(e) \/ Delete(e)
    PROVE  /\ UNCHANGED <<request, capacity, work>>
           /\ \A d \in Doc : row'[d] # None =>
                  /\ row[d] # None
                  /\ \/ row'[d].resets = row[d].resets
                     \/ task'[<<"parse", d>>].id > task[<<"parse", d>>].id
           /\ \A d \in Doc, k \in Kind : row[d] = None /\ task[<<k, d>>] = NoTask
                  => task'[<<k, d>>] = NoTask
<1>t. /\ row \in [Doc -> DocumentRow \cup {None}] /\ task \in [Task -> TaskRow]
      /\ <<"parse", e>> \in Task /\ task[<<"parse", e>>].id \in Nat
  BY Targets DEF Typed, TypeOK, Kind, TaskRow
<1>1. UNCHANGED <<request, capacity, work>>
  BY DEF Reparse, ParseAll, Delete
<1>2. ASSUME NEW d \in Doc, row'[d] # None
      PROVE  /\ row[d] # None
             /\ \/ row'[d].resets = row[d].resets
                \/ task'[<<"parse", d>>].id > task[<<"parse", d>>].id
  <2>1. CASE Reparse(e)
    <3>1. CASE d = e
      <4>1. task'[<<"parse", e>>].id = task[<<"parse", e>>].id + 1
        BY <2>1, <1>t DEF Reparse
      <4>2. row[e] # None
        BY <2>1 DEF Reparse
      <4>3. QED
        BY <3>1, <4>1, <4>2, <1>t
    <3>2. CASE d # e
      BY <3>2, <2>1, <1>2, <1>t DEF Reparse
    <3>3. QED
      BY <3>1, <3>2
  <2>2. CASE ParseAll(e)
    BY <2>2, <1>2 DEF ParseAll, docVars
  <2>3. CASE Delete(e)
    BY <2>3, <1>2, <1>t DEF Delete
  <2>4. QED
    BY <2>1, <2>2, <2>3
<1>3. ASSUME NEW d \in Doc, NEW k \in Kind, row[d] = None, task[<<k, d>>] = NoTask
      PROVE  task'[<<k, d>>] = NoTask
  <2>1. <<k, d>> \in Task /\ ~Active(<<k, d>>)
    BY <1>3, Targets DEF Active, NoTask
  <2>2. CASE Reparse(e) \/ ParseAll(e)
    <3>1. row[e] # None /\ \E n : task' = [task EXCEPT ![<<"parse", e>>] = n]
      BY <2>2, <1>t DEF Reparse, ParseAll
    <3>2. <<k, d>> # <<"parse", e>>
      BY <3>1, <1>3
    <3>3. QED
      BY <2>1, <3>1, <3>2, <1>3, <1>t
  <2>3. CASE Delete(e)
    BY <2>1, <2>3, <1>3 DEF Delete, Cancelled
  <2>4. QED
    BY <2>2, <2>3
<1>4. QED
  BY <1>1, <1>2, <1>3

LEMMA ClaimScope ==
    ASSUME Typed, NEW t \in Task, Claim(t)
    PROVE  /\ UNCHANGED <<row, objects, capacity, request>> /\ Active(t)
           /\ \A g \in work' : g \in work \/ (g.task = t /\ g.at = "claimed")
           /\ \A u \in Task : u # t => task'[u] = task[u]
<1>1. UNCHANGED <<row, objects, capacity, request>> /\ Active(t)
  BY DEF Claim, Claimable, docVars
<1>2. \A g \in work' : g \in work \/ (g.task = t /\ g.at = "claimed")
  <2>1. Handler(t).task = t /\ Handler(t).at = "claimed"
    BY DEF Handler
  <2>2. QED
    BY <2>1 DEF Claim
<1>3. \A u \in Task : u # t => task'[u] = task[u]
  BY DEF Claim, Typed, TypeOK
<1>4. QED
  BY <1>1, <1>2, <1>3

\* A count moves only to a request that waits for the lock.
LEMMA CountScope ==
    ASSUME Typed, NEW q \in Request, Count(q)
    PROVE  /\ UNCHANGED <<row, objects, task, work>>
           /\ request[q].at = "idle" /\ capacity = None /\ capacity' = q
           /\ request'[q].at = "counted" /\ request'[q].counted = Cardinality(Rows)
           /\ \A r \in Request : r # q => request'[r] = request[r]
BY DEF Count, docVars, Typed, TypeOK, RequestState

LEMMA RestScope ==
    ASSUME Analyse \/ UNCHANGED vars
    PROVE  UNCHANGED <<row, capacity, request, task, work>>
BY DEF Analyse, vars, docVars

-----------------------------------------------------------------------------
(* Nothing exists of a document before it is reserved. *)

LEMMA UntouchedKept == Typed /\ Untouched /\ [Next]_vars => Untouched'
<1> SUFFICES ASSUME Typed, Untouched, [Next]_vars,
                    NEW r \in Request, request'[r].at \in {"idle", "counted"},
                    NEW d \in Planned[r]
             PROVE  Untried(d)'
  BY DEF Untouched
<1> USE Numbers
<1>d. d \in Doc
  OBVIOUS
<1>1. ASSUME NEW q \in Request, Count(q) PROVE Untried(d)'
  <2>1. request[r].at \in {"idle", "counted"}
    BY <1>1, CountScope
  <2>2. Untried(d)
    BY <2>1 DEF Untouched
  <2>3. QED
    BY <1>1, <2>2, CountScope DEF Untried
<1>2. ASSUME NEW q \in Request, RequestStep(q) PROVE Untried(d)'
  <2>1. q # r /\ request'[r] = request[r]
    BY <1>2, RequestScope
  <2>2. Untried(d)
    BY <2>1 DEF Untouched
  <2>3. d \in Doc \ Planned[q]
    BY <1>d, <2>1
  <2>4. QED
    BY <1>2, <2>2, <2>3, RequestScope DEF Untried
<1>3. ASSUME UNCHANGED request PROVE Untried(d)
  BY <1>3 DEF Untouched
<1>4. ASSUME NEW t \in Task, Claim(t) PROVE Untried(d)'
  <2>1. Untried(d) /\ UNCHANGED row /\ Active(t)
    BY <1>3, <1>4, ClaimScope
  <2>2. \A k \in Kind : <<k, d>> \in Task /\ <<k, d>> # t
    BY <1>d, <2>1, Targets DEF Untried, Active, NoTask
  <2>3. t[2] # d
    BY <2>2, Targets
  <2>4. QED
    BY <1>4, <2>1, <2>2, <2>3, ClaimScope DEF Untried
<1>5. ASSUME NEW h \in work, HandlerStep(h) PROVE Untried(d)'
  <2>1. Untried(d)
    BY <1>3, <1>5, HandlerScope
  <2>2. h.task[2] # d
    BY <2>1 DEF Untried
  <2>3. QED
    BY <1>d, <1>5, <2>1, <2>2, HandlerScope DEF Untried
<1>6. ASSUME NEW e \in Doc, Reparse(e) \/ ParseAll(e) \/ Delete(e) PROVE Untried(d)'
  <2>1. Untried(d)
    BY <1>3, <1>6, RecruiterScope
  <2>2. QED
    BY <1>d, <1>6, <2>1, RecruiterScope DEF Untried
<1>7. CASE Analyse \/ UNCHANGED vars
  BY <1>3, <1>7, RestScope DEF Untried
<1>8. QED
  BY <1>1, <1>2, <1>4, <1>5, <1>6, <1>7 DEF Next

-----------------------------------------------------------------------------
(* The capacity. *)

LEMMA RowsFinite ==
    /\ IsFiniteSet(Rows) /\ Cardinality(Rows) \in Nat
    /\ \A q \in Request : IsFiniteSet(Planned[q]) /\ Cardinality(Planned[q]) \in Nat
<1>1. IsFiniteSet(Rows)
  BY Numbers, FS_Subset DEF Rows
<1>2. \A q \in Request : IsFiniteSet(Planned[q])
  BY Numbers, FS_Subset
<1>3. QED
  BY <1>1, <1>2, FS_CardinalityType

\* Rows are added by a reservation only.
LEMMA FewerRows ==
    ASSUME Typed, Rows' \subseteq Rows
    PROVE  Cardinality(Rows)' <= Cardinality(Rows) /\ Cardinality(Rows)' \in Nat
<1>1. IsFiniteSet(Rows) /\ IsFiniteSet(Rows')
  BY RowsFinite, FS_Subset
<1>2. Cardinality(Rows') <= Cardinality(Rows)
  BY <1>1, FS_Subset
<1>3. Cardinality(Rows') \in Nat
  BY <1>1, FS_CardinalityType
<1>4. QED
  BY <1>2, <1>3

LEMMA RowsStay ==
    ASSUME \A d \in Doc : row'[d] # None => row[d] # None
    PROVE  Rows' \subseteq Rows
BY DEF Rows

LEMMA RequestRows ==
    ASSUME Typed, NEW q \in Request, RequestStep(q), ~Reserve(q), NEW d \in Doc, row'[d] # None
    PROVE  row[d] # None /\ row'[d].resets = row[d].resets
<1>t. row \in [Doc -> DocumentRow \cup {None}]
  BY DEF Typed, TypeOK
<1>1. CASE row' = row
  BY <1>1
<1>2. CASE Undo(q)
  BY <1>2, <1>t DEF Undo, docVars
<1>3. CASE Finalize(q)
  <2>1. PICK e, f : \/ row' = row
                    \/ /\ row[e] # None
                       /\ row' = [row EXCEPT ![e] = IF row[e].upload = "pending"
                                     THEN [row[e] EXCEPT !.upload = "completed", !.parse = f]
                                     ELSE row[e]]
    BY <1>3 DEF Finalize
  <2>2. CASE row' = row
    BY <2>2
  <2>3. CASE /\ row[e] # None
             /\ row' = [row EXCEPT ![e] = IF row[e].upload = "pending"
                           THEN [row[e] EXCEPT !.upload = "completed", !.parse = f]
                           ELSE row[e]]
    BY <2>3, <1>t DEF DocumentRow
  <2>4. QED
    BY <2>1, <2>2, <2>3
<1>4. QED
  BY <1>1, <1>2, <1>3 DEF RequestStep, Put, PutFails, QueueParse, QueueAnalysis, Parse, Crash,
     docVars

LEMMA CountedKept ==
    Typed /\ Counted /\ WithinCapacity /\ [Next]_vars => Counted' /\ WithinCapacity'
<1> SUFFICES ASSUME Typed, Counted, WithinCapacity, [Next]_vars
             PROVE  Counted' /\ WithinCapacity'
  OBVIOUS
<1> USE Numbers, RowsFinite
<1>0. /\ request \in [Request -> RequestState]
      /\ \A q \in Request : request[q].counted \in Nat
  BY DEF Typed, TypeOK, RequestState
<1>1. ASSUME UNCHANGED <<request, capacity>>, \A d \in Doc : row'[d] # None => row[d] # None
      PROVE  Counted' /\ WithinCapacity'
  <2>1. Cardinality(Rows)' <= Cardinality(Rows) /\ Cardinality(Rows)' \in Nat
    BY <1>1, RowsStay, FewerRows
  <2>2. QED
    BY <1>0, <1>1, <2>1 DEF Counted, WithinCapacity
<1>2. ASSUME NEW q \in Request, Count(q) PROVE Counted' /\ WithinCapacity'
  <2>1. /\ Rows' = Rows /\ capacity = None /\ capacity' = q
        /\ request'[q].counted = Cardinality(Rows)
        /\ \A r \in Request : r # q => request'[r] = request[r]
    BY <1>2, CountScope DEF Rows
  <2>2. \A r \in Request : request[r].at # "counted"
    BY <2>1 DEF Counted
  <2>3. Counted'
    BY <2>1, <2>2 DEF Counted
  <2>4. QED
    BY <2>1, <2>3 DEF WithinCapacity
<1>3. ASSUME NEW q \in Request, Reserve(q) PROVE Counted' /\ WithinCapacity'
  <2>1. /\ request[q].at = "counted" /\ capacity = q /\ Cardinality(Rows) <= request[q].counted
        /\ \A r \in Request : r # q => request[r].at # "counted"
    BY <1>3 DEF Reserve, Counted
  <2>2. \A r \in Request : request'[r].at # "counted"
    BY <1>3, <2>1, RequestScope DEF RequestStep
  <2>3. Counted'
    BY <2>2 DEF Counted
  <2>4. CASE row' = row
    BY <2>3, <2>4 DEF WithinCapacity, Rows
  <2>5. CASE row' # row
    <3>1. /\ request[q].counted + Cardinality(Planned[q]) <= Capacity
          /\ row' = [d \in Doc |-> IF d \in Planned[q] THEN Fresh ELSE row[d]]
      BY <1>0, <1>3, <2>5 DEF Reserve
    <3>2. Rows' \subseteq Rows \cup Planned[q]
      BY <3>1 DEF Rows
    <3>3. /\ IsFiniteSet(Rows \cup Planned[q])
          /\ Cardinality(Rows \cup Planned[q]) =
                 Cardinality(Rows) + Cardinality(Planned[q]) - Cardinality(Rows \cap Planned[q])
      BY FS_Union
    <3>4. Cardinality(Rows \cap Planned[q]) \in Nat
      BY FS_Intersection, FS_CardinalityType
    <3>5. /\ Cardinality(Rows') <= Cardinality(Rows \cup Planned[q])
          /\ Cardinality(Rows') \in Nat
      BY <3>2, <3>3, FS_Subset, FS_CardinalityType
    <3>6. Cardinality(Rows \cup Planned[q]) <= Capacity
      BY <1>0, <2>1, <3>1, <3>3, <3>4
    <3>7. Cardinality(Rows') <= Capacity
      BY <3>3, <3>5, <3>6, FS_CardinalityType
    <3>8. QED
      BY <2>3, <3>7 DEF WithinCapacity
  <2>6. QED
    BY <2>4, <2>5
<1>4. ASSUME NEW q \in Request, RequestStep(q), ~Reserve(q) PROVE Counted' /\ WithinCapacity'
  <2>1. Cardinality(Rows)' <= Cardinality(Rows) /\ Cardinality(Rows)' \in Nat
    BY <1>4, RequestRows, RowsStay, FewerRows
  <2>2. capacity' = capacity \/ capacity = q
    BY <1>4 DEF RequestStep, Put, PutFails, Undo, QueueParse, Finalize, QueueAnalysis, Parse, Crash
  <2>3. /\ request'[q].at # "counted"
        /\ \A r \in Request : r # q => request'[r] = request[r]
    BY <1>4, RequestScope
  <2>4. QED
    BY <1>0, <2>1, <2>2, <2>3 DEF Counted, WithinCapacity
<1>5. ASSUME NEW t \in Task, Claim(t) PROVE Counted' /\ WithinCapacity'
  BY <1>1, <1>5, ClaimScope
<1>6. ASSUME NEW h \in work, HandlerStep(h) PROVE Counted' /\ WithinCapacity'
  BY <1>1, <1>6, HandlerScope
<1>7. ASSUME NEW d \in Doc, Reparse(d) \/ ParseAll(d) \/ Delete(d)
      PROVE  Counted' /\ WithinCapacity'
  BY <1>1, <1>7, RecruiterScope
<1>8. CASE Analyse \/ UNCHANGED vars
  BY <1>1, <1>8, RestScope
<1>9. QED
  BY <1>2, <1>3, <1>4, <1>5, <1>6, <1>7, <1>8 DEF Next

\* A candidate never has more documents than the limit: the lock is held from
\* the count until the rows are committed (WithinCapacity).
THEOREM CapacityCorrect == Spec => []WithinCapacity
<1>1. Init => Counted /\ WithinCapacity
  <2>1. Init => Rows = {}
    BY DEF Init, Rows
  <2>2. Init => WithinCapacity
    BY <2>1, Numbers, FS_EmptySet DEF WithinCapacity
  <2>3. Init => Counted
    BY IdleRequests DEF Init, Counted
  <2>4. QED
    BY <2>2, <2>3
<1>2. QED
  BY <1>1, InitTyped, NextTyped, CountedKept, PTL DEF Spec

-----------------------------------------------------------------------------
(* Readings. *)

LEMMA CurrentKept ==
    Typed /\ Untouched /\ (\A h \in work : Current(h)) /\ [Next]_vars
        => (\A h \in work : Current(h))'
<1> SUFFICES ASSUME Typed, Untouched, \A h \in work : Current(h), [Next]_vars,
                    Typed', Grows, NEW g \in work'
             PROVE  Current(g)'
  BY NextTyped
<1> USE Numbers
<1> DEFINE d == g.task[2]
\* A handler that goes on reads nothing new; its row was there, with the same
\* resets or an older task.
<1>1. ASSUME g \in work,
             row'[d] # None => /\ row[d] # None
                               /\ \/ row'[d].resets = row[d].resets
                                  \/ task'[<<"parse", d>>].id > task[<<"parse", d>>].id
      PROVE  Current(g)'
  <2>1. /\ g.task \in Task /\ g.id \in Nat /\ g.id <= task[g.task].id
        /\ g.task[1] = "parse" => g.task = <<"parse", d>>
    BY <1>1, HandlerFacts DEF Sound
  <2>2. /\ task[g.task].id \in Nat /\ task'[g.task].id \in Nat
        /\ task'[g.task].id >= task[g.task].id
    BY <2>1 DEF Typed, TypeOK, TaskRow, Grows, Follows
  <2>3. Current(g)
    BY <1>1
  <2>4. QED
    BY <1>1, <2>1, <2>2, <2>3 DEF Current
<1>2. ASSUME NEW q \in Request, Count(q) PROVE Current(g)'
  BY <1>1, <1>2, CountScope
<1>3. ASSUME NEW q \in Request, RequestStep(q) PROVE Current(g)'
  <2>1. g \in work /\ d \in Doc
    BY <1>3, RequestScope, HandlerFacts
  <2>2. CASE Reserve(q)
    <3>1. d \notin Planned[q]
      BY <2>1, <2>2 DEF Reserve, Untouched, Untried
    <3>2. row'[d] = row[d]
      BY <1>3, <2>1, <3>1, RequestScope
    <3>3. QED
      BY <1>1, <2>1, <3>2
  <2>3. CASE ~Reserve(q)
    BY <1>1, <1>3, <2>1, <2>3, RequestRows
  <2>4. QED
    BY <2>2, <2>3
<1>4. ASSUME NEW t \in Task, Claim(t) PROVE Current(g)'
  <2>1. g \in work \/ g.at = "claimed"
    BY <1>4, ClaimScope
  <2>2. CASE g \in work
    BY <1>1, <1>4, <2>2, ClaimScope
  <2>3. CASE g.at = "claimed"
    BY <2>3 DEF Current
  <2>4. QED
    BY <2>1, <2>2, <2>3
<1>5. ASSUME NEW h \in work, HandlerStep(h) PROVE Current(g)'
  <2>1. CASE g \in work
    BY <1>1, <1>5, <2>1, HandlerScope, HandlerFacts
  <2>2. CASE g \notin work
    <3>h. h \in HandlerState
      BY HandlerFacts
    <3>1. CASE \E found \in Outcome : ParseDocument(h, found)
      <4>1. PICK found \in Outcome : ParseDocument(h, found)
        BY <3>1
      <4>2. /\ g = [h EXCEPT !.at = "read", !.found = found, !.resets = row[h.task[2]].resets]
            /\ UNCHANGED row
        BY <2>2, <4>1 DEF ParseDocument, EndTask, Leaves, docVars
      <4>3. g.task = h.task /\ g.resets = row[h.task[2]].resets
        BY <3>h, <4>2 DEF HandlerState
      <4>4. QED
        BY <4>2, <4>3 DEF Current
    <3>2. CASE FollowOn(h)
      <4>1. g = [h EXCEPT !.at = "writing"] /\ UNCHANGED <<row, task>> /\ h.at = "read"
        BY <2>2, <3>2 DEF FollowOn, Becomes, docVars
      <4>2. g.task = h.task /\ g.resets = h.resets /\ g.id = h.id
        BY <3>h, <4>1 DEF HandlerState
      <4>3. Current(h)
        OBVIOUS
      <4>4. QED
        BY <4>1, <4>2, <4>3 DEF Current
    <3>3. CASE (\E found \in Outcome : Reconcile(h, found)) \/ Requeue(h)
      <4>1. h.task[1] = "upload"
        BY <3>3, HandlerFacts DEF Reconcile, Requeue, Sound
      <4>2. g.task = h.task
        BY <1>5, <2>2, HandlerScope
      <4>3. QED
        BY <4>1, <4>2 DEF Current
    <3>4. CASE Leave(h) \/ RollbackMissing(h) \/ Write(h) \/ Fail(h) \/ Drop(h)
      BY <2>2, <3>4 DEF Leave, RollbackMissing, Write, Fail, Drop, EndTask, Leaves
    <3>5. QED
      BY <1>5, <3>1, <3>2, <3>3, <3>4 DEF HandlerStep
  <2>3. QED
    BY <2>1, <2>2
<1>6. ASSUME NEW e \in Doc, Reparse(e) \/ ParseAll(e) \/ Delete(e) PROVE Current(g)'
  <2>1. g \in work /\ d \in Doc
    BY <1>6, RecruiterScope, HandlerFacts
  <2>2. QED
    BY <1>1, <1>6, <2>1, RecruiterScope
<1>7. CASE Analyse \/ UNCHANGED vars
  BY <1>1, <1>7, RestScope
<1>8. QED
  BY <1>2, <1>3, <1>4, <1>5, <1>6, <1>7 DEF Next

\* A parse that may still be written was read after the last manual reset
\* (ReadingsAreCurrent).
THEOREM ReadingsCurrentCorrect == Spec => []ReadingsAreCurrent
<1>1. Init => Untouched /\ \A h \in work : Current(h)
  BY Numbers, Targets DEF Init, Untouched, Untried
<1>2. Typed /\ (\A h \in work : Current(h)) => ReadingsAreCurrent
  <2> SUFFICES ASSUME \A h \in work : Current(h), NEW h \in work,
                      h.task[1] = "parse", h.at \in {"read", "writing"},
                      Holds(h), row[h.task[2]] # None
               PROVE  h.resets = row[h.task[2]].resets
    BY DEF ReadingsAreCurrent
  <2>1. h.id = task[h.task].id
    BY DEF Holds
  <2>2. QED
    BY <2>1 DEF Current
<1>3. QED
  BY <1>1, <1>2, InitTyped, NextTyped, UntouchedKept, CurrentKept, PTL DEF Spec

-----------------------------------------------------------------------------
(* Objects. *)

\* Only a reservation makes a row, and no upload goes back to pending.
LEMMA RequestOnward ==
    ASSUME Typed, NEW q \in Request, RequestStep(q), ~Reserve(q), NEW d \in Doc
    PROVE  Onward(d)
<1>t. row \in [Doc -> DocumentRow \cup {None}]
  BY DEF Typed, TypeOK
<1>1. CASE row' = row
  BY <1>1 DEF Onward
<1>2. CASE Undo(q)
  BY <1>2, <1>t DEF Undo, docVars, Onward
<1>3. CASE Finalize(q)
  <2>1. PICK e, f : \/ row' = row
                    \/ /\ row[e] # None
                       /\ row' = [row EXCEPT ![e] = IF row[e].upload = "pending"
                                     THEN [row[e] EXCEPT !.upload = "completed", !.parse = f]
                                     ELSE row[e]]
    BY <1>3 DEF Finalize
  <2>2. CASE row' = row
    BY <2>2 DEF Onward
  <2>3. CASE /\ row[e] # None
             /\ row' = [row EXCEPT ![e] = IF row[e].upload = "pending"
                           THEN [row[e] EXCEPT !.upload = "completed", !.parse = f]
                           ELSE row[e]]
    BY <2>3, <1>t DEF DocumentRow, Onward
  <2>4. QED
    BY <2>1, <2>2, <2>3
<1>4. QED
  BY <1>1, <1>2, <1>3 DEF RequestStep, Put, PutFails, QueueParse, QueueAnalysis, Parse, Crash,
     docVars

LEMMA HandlerOnward ==
    ASSUME Typed, NEW h \in work, HandlerStep(h), NEW d \in Doc
    PROVE  Onward(d)
<1>t. row \in [Doc -> DocumentRow \cup {None}]
  BY DEF Typed, TypeOK
<1>1. CASE row' = row
  BY <1>1 DEF Onward
<1>2. CASE RollbackMissing(h)
  BY <1>2, <1>t DEF RollbackMissing, docVars, Onward
<1>3. CASE Write(h)
  <2>1. PICK e, p : \/ row' = row
                    \/ /\ row[e] # None
                       /\ row' = [row EXCEPT ![e].upload = "completed", ![e].parse = p]
    BY <1>3 DEF Write
  <2>2. CASE row' = row
    BY <2>2 DEF Onward
  <2>3. CASE row[e] # None /\ row' = [row EXCEPT ![e].upload = "completed", ![e].parse = p]
    BY <2>3, <1>t DEF DocumentRow, Onward
  <2>4. QED
    BY <2>1, <2>2, <2>3
<1>4. QED
  BY <1>1, <1>2, <1>3 DEF HandlerStep, Reconcile, ParseDocument, Requeue, Leave, FollowOn,
     Fail, Drop, docVars

LEMMA RecruiterOnward ==
    ASSUME Typed, NEW e \in Doc, Reparse(e) \/ ParseAll(e) \/ Delete(e), NEW d \in Doc
    PROVE  Onward(d) /\ UNCHANGED objects
<1>t. row \in [Doc -> DocumentRow \cup {None}]
  BY DEF Typed, TypeOK
<1>1. CASE Reparse(e)
  <2>1. row[e] # None /\ row[e].upload = "completed"
    BY <1>1 DEF Reparse
  <2>2. PICK n : row' = [row EXCEPT ![e].parse = "pending", ![e].resets = n]
    BY <1>1 DEF Reparse
  <2>3. CASE d = e
    BY <1>1, <2>1, <2>2, <2>3, <1>t DEF Reparse, Onward, DocumentRow
  <2>4. CASE d # e
    BY <1>1, <2>2, <2>4, <1>t DEF Reparse, Onward
  <2>5. QED
    BY <2>3, <2>4
<1>2. CASE ParseAll(e)
  BY <1>2 DEF ParseAll, docVars, Onward
<1>3. CASE Delete(e)
  BY <1>3, <1>t DEF Delete, Onward
<1>4. QED
  BY <1>1, <1>2, <1>3

\* A request stores and deletes the objects of its own documents only.
LEMMA RequestObjects ==
    ASSUME Typed, NEW q \in Request, RequestStep(q), NEW d \in Doc \ Planned[q]
    PROVE  d \in objects' <=> d \in objects
<1>1. request[q].left \subseteq Planned[q]
  BY DEF Typed, Carries
<1>2. QED
  BY <1>1 DEF RequestStep, Reserve, Put, PutFails, Undo, Deleted, QueueParse, Finalize,
     QueueAnalysis, Parse, Crash, docVars

LEMMA InformedKept ==
    ASSUME Typed, NEW g \in work, Informed(g), Onward(g.task[2]),
           \A q \in Request : request[q].at = "ended" => request'[q].at = "ended",
           g.task[1] = "upload" => Steady(g.task[2])
    PROVE  Informed(g)'
BY DEF Informed, Onward, Steady

\* A handler that has just been claimed has read nothing; its request is over.
LEMMA ClaimInformed ==
    ASSUME GraceHolds, Typed, Untouched, NEW t \in Task, Claim(t), NEW g,
           g.task = t, g.at = "claimed"
    PROVE  Informed(g)'
<1> USE Numbers
<1>1. UNCHANGED <<row, objects, capacity, request>> /\ Active(t)
  BY ClaimScope
<1>2. ASSUME t[1] = "upload", NEW q \in Request, t[2] \in Planned[q]
      PROVE  request[q].at = "ended"
  <2>1. OwnerOf(t[2]) = q
    BY <1>2 DEF OwnerOf
  <2>2. ~Running(q)
    BY <1>2, <2>1 DEF Claim, Claimable
  <2>3. CASE request[q].at = "idle"
    <3>1. task[<<t[1], t[2]>>] = NoTask
      BY <1>2, <2>3, Targets DEF Untouched, Untried
    <3>2. QED
      BY <1>1, <3>1, Targets DEF Active, NoTask
  <2>4. QED
    BY <2>2, <2>3 DEF Running
<1>3. QED
  BY <1>1, <1>2 DEF Informed

LEMMA RequestStored ==
    ASSUME Typed, Untouched, Stored, NEW q \in Request, RequestStep(q)
    PROVE  Stored'
<1> USE Numbers
<1>q. request[q].at \notin {"idle", "ended"}
  BY DEF RequestStep, Reserve, Put, PutFails, Undo, QueueParse, Finalize, QueueAnalysis, Parse,
     Crash, Running
<1>t. /\ request \in [Request -> RequestState] /\ row \in [Doc -> DocumentRow \cup {None}]
      /\ request[q].at \in {"stored", "queueing", "finalizing"} => request[q].doc \in Planned[q]
      /\ request[q].left \subseteq Planned[q]
  BY DEF Typed, TypeOK, Carries
<1>1. ASSUME NEW g \in work PROVE Informed(g)'
  <2>1. Informed(g) /\ g.task[2] \in Doc
    BY HandlerFacts DEF Stored
  <2>2. Onward(g.task[2])
    <3>1. CASE Reserve(q)
      <4>1. g.task[2] \in Doc \ Planned[q]
        BY <3>1, <2>1 DEF Reserve, Untouched, Untried
      <4>2. row'[g.task[2]] = row[g.task[2]]
        BY <4>1, RequestScope
      <4>3. QED
        BY <4>2 DEF Onward
    <3>2. CASE ~Reserve(q)
      BY <3>2, <2>1, RequestOnward
    <3>3. QED
      BY <3>1, <3>2
  <2>3. \A r \in Request : request[r].at = "ended" => request'[r].at = "ended"
    BY <1>q, RequestScope
  <2>4. ASSUME g.task[1] = "upload" PROVE Steady(g.task[2])
    <3>1. g.task[2] \in Doc \ Planned[q]
      BY <2>1, <2>4, <1>q DEF Informed
    <3>2. QED
      BY <3>1, RequestObjects DEF Steady
  <2>5. QED
    BY <2>1, <2>2, <2>3, <2>4, InformedKept
<1>2. \A h \in work' : Informed(h)'
  BY <1>1, RequestScope
<1>3. ASSUME NEW r \in Request PROVE Kept(r)'
  <2>1. CASE r # q
    <3>1. request'[r] = request[r] /\ Kept(r)
      BY <2>1, RequestScope DEF Stored
    <3>2. request[r].at \in {"stored", "queueing", "finalizing"} =>
              request[r].doc \in Doc \ Planned[q]
      BY <2>1 DEF Typed, Carries
    <3>3. QED
      BY <3>1, <3>2, RequestObjects DEF Kept
  <2>2. CASE r = q
    <3>k. Kept(q)
      BY DEF Stored
    <3>1. CASE \E d \in Doc : Put(q, d)
      BY <3>1, <2>2, <1>t DEF Put, Kept, RequestState
    <3>2. CASE \E d \in Doc : PutFails(q, d)
      BY <3>2, <2>2, <1>t DEF PutFails, Kept, RequestState
    <3>3. CASE \E found \in Outcome : Parse(q, found)
      BY <3>3, <3>k, <2>2, <1>t DEF Parse, Kept, RequestState, docVars
    <3>4. CASE QueueParse(q)
      BY <3>4, <3>k, <2>2, <1>t, IdleRequests DEF QueueParse, Kept, RequestState, docVars
    <3>5. CASE Finalize(q)
      <4>1. Advanced(q)[q].at \in {"storing", "scoring", "ended"}
        BY <1>t DEF Advanced, RequestState
      <4>2. QED
        BY <3>5, <4>1, <2>2, <1>t, IdleRequests DEF Finalize, Kept
    <3>6. CASE Reserve(q)
      <4>1. [Idle EXCEPT !.at = "storing", !.left = Planned[q]].at = "storing"
        BY DEF Idle
      <4>2. QED
        BY <3>6, <4>1, <2>2, <1>t, IdleRequests DEF Reserve, Kept
    <3>7. CASE Undo(q) \/ QueueAnalysis(q) \/ Crash(q)
      BY <3>7, <2>2, <1>t, IdleRequests DEF Undo, QueueAnalysis, Crash, Kept
    <3>8. QED
      BY <3>1, <3>2, <3>3, <3>4, <3>5, <3>6, <3>7 DEF RequestStep
  <2>3. QED
    BY <2>1, <2>2
<1>4. ASSUME NEW d \in Doc, row'[d] # None, row'[d].upload = "completed"
      PROVE  d \in objects'
  <2>a. row[d] # None /\ row[d].upload = "completed" => d \in objects
    BY DEF Stored, CompletedHasObject, Rows
  <2>1. CASE d \notin Planned[q]
    BY <2>1, <2>a, <1>4, RequestScope, RequestObjects
  <2>2. CASE d \in Planned[q]
    <3>1. CASE Reserve(q)
      BY <3>1, <2>2, <2>a, <1>4 DEF Reserve, Fresh
    <3>2. CASE Undo(q)
      BY <3>2, <2>2, <2>a, <1>4 DEF Undo, docVars
    <3>3. CASE Finalize(q)
      <4>1. Kept(q) /\ objects' = objects /\ request[q].at = "finalizing"
        BY <3>3 DEF Finalize, Stored
      <4>2. CASE d = request[q].doc
        BY <4>1, <4>2 DEF Kept
      <4>3. CASE d # request[q].doc
        BY <3>3, <4>1, <4>3, <2>a, <1>4, <1>t DEF Finalize
      <4>4. QED
        BY <4>2, <4>3
    <3>4. CASE \/ \E e \in Doc : Put(q, e) \/ PutFails(q, e)
               \/ QueueParse(q) \/ QueueAnalysis(q) \/ Crash(q)
               \/ \E found \in Outcome : Parse(q, found)
      BY <3>4, <2>a, <1>4 DEF Put, PutFails, QueueParse, QueueAnalysis, Crash, Parse, docVars
    <3>5. QED
      BY <3>1, <3>2, <3>3, <3>4 DEF RequestStep
  <2>3. QED
    BY <2>1, <2>2
<1>5. CompletedHasObject'
  BY <1>4 DEF CompletedHasObject, Rows
<1>6. QED
  BY <1>2, <1>3, <1>5 DEF Stored

\* The rollback of a missing upload deletes no object that anyone relies on.
LEMMA RollbackObjects ==
    ASSUME Typed, Stored, NEW h \in work, RollbackMissing(h), NEW d \in Doc
    PROVE  /\ d \in objects' => d \in objects
           /\ d \in objects /\ d \notin objects' =>
                  /\ row'[d] = None
                  /\ \A q \in Request : d \in Planned[q] => request[q].at = "ended"
<1> USE Numbers
<1>h. /\ h.task[1] = "upload" /\ h.task[2] \in Doc /\ Informed(h) /\ h.at = "missing"
  BY HandlerFacts DEF RollbackMissing, Sound, Stored
<1>i. /\ \A q \in Request : h.task[2] \in Planned[q] => request[q].at = "ended"
      /\ h.task[2] \notin objects
  BY <1>h DEF Informed
<1>1. CASE ~Holds(h)
  BY <1>1 DEF RollbackMissing, docVars
<1>2. CASE Holds(h) /\ h.task[2] \in Attached
  <2>1. /\ \E Y \in SUBSET (Rows \cap Attached) : objects' = objects \ Y
        /\ row' = [e \in Doc |-> IF e \in Rows \cap Attached THEN None ELSE row[e]]
    BY <1>2 DEF RollbackMissing, Deleted
  <2>2. Apply \in Request /\ Attached = Planned[Apply] /\ request[Apply].at = "ended"
    BY <1>2, <1>i, DocumentsAssumption DEF Attached
  <2>3. \A q \in Request, e \in Attached : e \in Planned[q] => q = Apply
    BY <2>2
  <2>4. QED
    BY <2>1, <2>2, <2>3
<1>3. CASE Holds(h) /\ h.task[2] \notin Attached
  <2>1. \E Y \in SUBSET {h.task[2]} : objects' = objects \ Y
    BY <1>3 DEF RollbackMissing, Deleted
  <2>2. QED
    BY <1>i, <2>1
<1>4. QED
  BY <1>1, <1>2, <1>3

\* What the handler itself has read after its step.
LEMMA StepInformed ==
    ASSUME Typed, Stored, NEW h \in work, HandlerStep(h), NEW g \in work', g \notin work
    PROVE  Informed(g)'
<1>h. h \in HandlerState /\ Sound(h) /\ Informed(h) /\ h.task[2] \in Doc
  BY HandlerFacts DEF Stored
<1>u. g.task = h.task /\ UNCHANGED request
  BY HandlerScope
<1>o. \A q \in Request : h.task[1] = "upload" /\ h.task[2] \in Planned[q]
          => request'[q].at = "ended"
  BY <1>h, <1>u DEF Informed
<1>1. CASE \E found \in Outcome : Reconcile(h, found)
  <2>1. PICK found \in Outcome : Reconcile(h, found)
    BY <1>1
  <2>2. /\ UNCHANGED <<row, objects>> /\ h.at = "claimed" /\ h.task[1] = "upload"
        /\ row[h.task[2]] # None
        /\ \/ /\ row[h.task[2]].upload = "completed"
              /\ \E a \in {"requeueing", "leaving"} : g = [h EXCEPT !.at = a]
           \/ /\ h.task[2] \notin objects
              /\ g = [h EXCEPT !.at = "missing"]
           \/ /\ h.task[2] \in objects
              /\ \E a \in {"requeueing", "read"} : g = [h EXCEPT !.found = found, !.at = a]
    <3> DEFINE d == h.task[2]
    <3>1. UNCHANGED <<row, objects>> /\ h.at = "claimed" /\ h.task[1] = "upload"
      BY <2>1 DEF Reconcile, docVars
    <3>2. row[d] # None
      BY <2>1 DEF Reconcile, EndTask, Leaves
    <3>3. CASE row[d].upload = "completed"
      <4>1. \E a \in {"requeueing", "leaving"} : Becomes(h, a)
        BY <2>1, <3>2, <3>3 DEF Reconcile
      <4>2. QED
        BY <3>1, <3>2, <3>3, <4>1 DEF Becomes
    <3>4. CASE row[d].upload # "completed" /\ d \notin objects
      <4>1. Becomes(h, "missing")
        BY <2>1, <3>2, <3>4 DEF Reconcile
      <4>2. QED
        BY <3>1, <3>2, <3>4, <4>1 DEF Becomes
    <3>5. CASE row[d].upload # "completed" /\ d \in objects
      <4>1. \E a \in {"requeueing", "read"} :
                work' = (work \ {h}) \cup {[h EXCEPT !.found = found, !.at = a]}
        BY <2>1, <3>2, <3>5 DEF Reconcile
      <4>2. \E a \in {"requeueing", "read"} : g = [h EXCEPT !.found = found, !.at = a]
        BY <4>1
      <4>3. QED
        BY <3>1, <3>2, <3>5, <4>2
    <3>6. QED
      BY <3>3, <3>4, <3>5
  <2>3. row[h.task[2]].upload = "completed" => h.task[2] \in objects
    BY <1>h, <2>2 DEF Stored, CompletedHasObject, Rows
  <2>4. \/ h.task[2] \notin objects /\ g.at = "missing"
        \/ h.task[2] \in objects /\ g.at # "missing"
    BY <1>h, <2>2, <2>3 DEF HandlerState
  <2>5. QED
    BY <1>o, <1>u, <2>2, <2>4 DEF Informed
<1>2. CASE \E found \in Outcome : ParseDocument(h, found)
  <2>1. PICK found \in Outcome : ParseDocument(h, found)
    BY <1>2
  <2>2. /\ h.task[1] = "parse" /\ UNCHANGED row /\ row[h.task[2]].upload # "pending"
        /\ row[h.task[2]] # None
    BY <2>1 DEF ParseDocument, EndTask, Leaves, docVars
  <2>3. row[h.task[2]].upload = "completed"
    BY <1>h, <2>2 DEF Typed, TypeOK, DocumentRow
  <2>4. QED
    BY <1>u, <2>2, <2>3 DEF Informed
<1>3. CASE Requeue(h)
  <2>1. /\ UNCHANGED <<row, objects>> /\ h.at = "requeueing" /\ h.task[1] = "upload"
        /\ \/ g = [h EXCEPT !.at = "writing"] /\ h.found = "pending"
           \/ g = [h EXCEPT !.at = "leaving"]
    BY <1>3, <1>h DEF Requeue, EndTask, Leaves, Becomes, docVars, Sound
  <2>2. g.at = "leaving" \/ (g.at = "writing" /\ h.found = "pending")
    BY <1>h, <2>1 DEF HandlerState
  <2>3. QED
    BY <1>h, <1>o, <1>u, <2>1, <2>2 DEF Informed
<1>4. CASE FollowOn(h)
  <2>1. /\ UNCHANGED <<row, objects>> /\ h.at = "read" /\ g = [h EXCEPT !.at = "writing"]
    BY <1>4 DEF FollowOn, Becomes, docVars
  <2>2. g.at = "writing"
    BY <1>h, <2>1 DEF HandlerState
  <2>3. QED
    BY <1>h, <1>o, <1>u, <2>1, <2>2 DEF Informed
<1>5. CASE Leave(h) \/ RollbackMissing(h) \/ Write(h) \/ Fail(h) \/ Drop(h)
  BY <1>5 DEF Leave, RollbackMissing, Write, Fail, Drop, EndTask, Leaves
<1>6. QED
  BY <1>1, <1>2, <1>3, <1>4, <1>5 DEF HandlerStep

LEMMA HandlerStored ==
    ASSUME Typed, Stored, NEW h \in work, HandlerStep(h)
    PROVE  Stored'
<1>h. /\ h \in HandlerState /\ Informed(h) /\ h.task[2] \in Doc /\ h.task[1] \in Kind
      /\ row \in [Doc -> DocumentRow \cup {None}] /\ UNCHANGED request
  BY HandlerFacts, HandlerScope DEF Stored, Typed, TypeOK
<1>o. \/ UNCHANGED objects
      \/ RollbackMissing(h)
  BY DEF HandlerStep, Reconcile, ParseDocument, Requeue, Leave, FollowOn, Write, Fail, Drop, docVars
<1>s. ASSUME NEW d \in Doc
      PROVE  /\ Steady(d)
             /\ d \in objects /\ d \notin objects' =>
                    /\ row'[d] = None
                    /\ \A q \in Request : d \in Planned[q] => request[q].at = "ended"
  BY <1>o, RollbackObjects DEF Steady
<1>1. ASSUME NEW g \in work' PROVE Informed(g)'
  <2>1. CASE g \in work
    <3>1. Informed(g) /\ g.task[2] \in Doc
      BY <2>1, HandlerFacts DEF Stored
    <3>2. Onward(g.task[2]) /\ Steady(g.task[2])
      BY <3>1, <1>s, HandlerOnward
    <3>3. QED
      BY <1>h, <2>1, <3>1, <3>2, InformedKept
  <2>2. CASE g \notin work
    BY <2>2, StepInformed
  <2>3. QED
    BY <2>1, <2>2
<1>2. ASSUME NEW q \in Request PROVE Kept(q)'
  <2>1. Kept(q) /\ request'[q] = request[q]
    BY <1>h DEF Stored
  <2>2. request[q].at \in {"stored", "queueing", "finalizing"} =>
            request[q].doc \in Planned[q] /\ request[q].doc \in Doc
    BY Numbers DEF Typed, Carries
  <2>3. QED
    BY <2>1, <2>2, <1>s DEF Kept
<1>3. ASSUME NEW d \in Doc, row'[d] # None, row'[d].upload = "completed"
      PROVE  d \in objects'
  <2>1. row[d] # None
    BY <1>3, HandlerOnward DEF Onward
  <2>2. d \in objects
    <3>1. CASE row[d].upload = "completed"
      BY <2>1, <3>1 DEF Stored, CompletedHasObject, Rows
    <3>2. CASE row[d].upload # "completed"
      <4>1. CASE Write(h)
        <5>1. d = h.task[2] /\ h.at = "writing"
          BY <1>3, <3>2, <4>1, <1>h DEF Write
        <5>2. h.task[1] = "upload"
          BY <1>h, <2>1, <3>2, <5>1 DEF Informed, Kind
        <5>3. QED
          BY <1>h, <2>1, <5>1, <5>2 DEF Informed
      <4>2. CASE RollbackMissing(h)
        BY <1>3, <3>2, <4>2 DEF RollbackMissing, docVars
      <4>3. CASE row' = row
        BY <1>3, <3>2, <4>3
      <4>4. QED
        BY <4>1, <4>2, <4>3 DEF HandlerStep, Reconcile, ParseDocument, Requeue, Leave, FollowOn,
           Fail, Drop, docVars
    <3>3. QED
      BY <3>1, <3>2
  <2>3. QED
    BY <1>3, <1>s, <2>2
<1>4. CompletedHasObject'
  BY <1>3 DEF CompletedHasObject, Rows
<1>5. QED
  BY <1>1, <1>2, <1>4 DEF Stored

\* A step that stores nothing, of somebody who holds no document.
LEMMA QuietStored ==
    ASSUME Typed, Stored, UNCHANGED <<objects, request>>, \A d \in Doc : Onward(d),
           \A d \in Doc : row'[d] # None => row'[d].upload = row[d].upload,
           \A g \in work' : g \in work \/ Informed(g)'
    PROVE  Stored'
<1>1. ASSUME NEW g \in work PROVE Informed(g)'
  <2>1. Informed(g) /\ g.task[2] \in Doc
    BY HandlerFacts DEF Stored
  <2>2. Onward(g.task[2]) /\ Steady(g.task[2])
    BY <2>1 DEF Steady
  <2>3. QED
    BY <2>1, <2>2, InformedKept
<1>2. \A q \in Request : Kept(q)'
  BY DEF Stored, Kept
<1>3. CompletedHasObject'
  BY DEF Stored, CompletedHasObject, Rows, Onward
<1>4. QED
  BY <1>1, <1>2, <1>3 DEF Stored

LEMMA StoredKept ==
    ASSUME GraceHolds
    PROVE  Typed /\ Untouched /\ Stored /\ [Next]_vars => Stored'
<1> SUFFICES ASSUME Typed, Untouched, Stored, [Next]_vars PROVE Stored'
  OBVIOUS
<1>0. ASSUME UNCHANGED row
      PROVE  /\ \A d \in Doc : Onward(d)
             /\ \A d \in Doc : row'[d] # None => row'[d].upload = row[d].upload
  BY <1>0 DEF Onward
<1>1. ASSUME NEW q \in Request, Count(q) PROVE Stored'
  <2>1. UNCHANGED <<row, objects, work>> /\ \A r \in Request : r # q => request'[r] = request[r]
    BY <1>1, CountScope
  <2>2. request[q].at = "idle" /\ request'[q].at = "counted"
    BY <1>1, CountScope
  <2>3. \A r \in Request : Kept(r)'
    BY <2>1, <2>2 DEF Stored, Kept
  <2>4. \A g \in work : Informed(g)'
    BY <2>1, <2>2 DEF Stored, Informed
  <2>5. QED
    BY <2>1, <2>3, <2>4 DEF Stored, CompletedHasObject, Rows
<1>2. ASSUME NEW q \in Request, RequestStep(q) PROVE Stored'
  BY <1>2, RequestStored
<1>3. ASSUME NEW t \in Task, Claim(t) PROVE Stored'
  <2>1. UNCHANGED <<row, objects, capacity, request>>
    BY <1>3, ClaimScope
  <2>2. \A g \in work' : g \in work \/ Informed(g)'
    BY <1>3, ClaimScope, ClaimInformed
  <2>3. QED
    BY <1>0, <2>1, <2>2, QuietStored
<1>4. ASSUME NEW h \in work, HandlerStep(h) PROVE Stored'
  BY <1>4, HandlerStored
<1>5. ASSUME NEW e \in Doc, Reparse(e) \/ ParseAll(e) \/ Delete(e) PROVE Stored'
  <2>1. UNCHANGED <<objects, request, work>> /\ \A d \in Doc : Onward(d)
    BY <1>5, RecruiterScope, RecruiterOnward
  <2>2. row \in [Doc -> DocumentRow \cup {None}]
    BY DEF Typed, TypeOK
  <2>3. ASSUME NEW d \in Doc, row'[d] # None PROVE row'[d].upload = row[d].upload
    <3>1. CASE row' = row
      BY <3>1
    <3>2. CASE row' = [row EXCEPT ![e] = None]
      BY <2>2, <2>3, <3>2
    <3>3. CASE /\ row[e] # None
               /\ \E n : row' = [row EXCEPT ![e].parse = "pending", ![e].resets = n]
      BY <2>2, <3>3 DEF DocumentRow
    <3>4. QED
      BY <1>5, <3>1, <3>2, <3>3 DEF Reparse, ParseAll, Delete, docVars
  <2>4. QED
    BY <2>1, <2>3, QuietStored
<1>6. CASE Analyse \/ UNCHANGED vars
  <2>1. UNCHANGED <<row, objects, request, work>>
    BY <1>6 DEF Analyse, vars, docVars
  <2>2. QED
    BY <1>0, <2>1, QuietStored
<1>7. QED
  BY <1>1, <1>2, <1>3, <1>4, <1>5, <1>6 DEF Next

\* Where the upload grace outlasts every request, a row that says its upload is
\* complete has its object (CompletedHasObject): no reconciliation and no undo
\* deletes an object of a row that remains.
THEOREM ObjectsCorrect ==
    ASSUME GraceHolds
    PROVE  Spec => []CompletedHasObject
<1>1. Init => Untouched /\ Stored
  <2>1. Init => Untouched
    BY Numbers, Targets DEF Init, Untouched, Untried
  <2>2. Init => Stored
    BY IdleRequests DEF Init, Stored, CompletedHasObject, Rows, Kept
  <2>3. QED
    BY <2>1, <2>2
<1>2. Stored => CompletedHasObject
  BY DEF Stored
<1>3. QED
  BY <1>1, <1>2, InitTyped, NextTyped, UntouchedKept, StoredKept, PTL DEF Spec

-----------------------------------------------------------------------------
(* Parses. *)

\* A task that is queued is active.
LEMMA QueuedActive ==
    ASSUME Typed, NEW t \in Task, task' = [task EXCEPT ![t] = Queued(t)]
    PROVE  /\ Active(t)'
           /\ \A u \in Task : u # t => task'[u] = task[u]
BY DEF Typed, TypeOK, Queued, Active

\* A parse that is queued or failed stays so while the row is there, unless the
\* document has been parsed.
LEMMA RequestParse ==
    ASSUME Typed, NEW q \in Request, RequestStep(q), NEW d \in Doc, HasParse(d), row'[d] # None
    PROVE  HasParse(d)'
<1> DEFINE t == <<"parse", d>>
<1>t. t \in Task /\ task \in [Task -> TaskRow]
  BY Targets DEF Typed, TypeOK, Kind
<1>1. CASE task'[t] = task[t]
  BY <1>1 DEF HasParse, Active
<1>2. CASE Reserve(q)
  <2>1. t \notin {"upload"} \X Planned[q]
    OBVIOUS
  <2>2. QED
    BY <1>1, <1>2, <1>t, <2>1 DEF Reserve
<1>3. CASE Undo(q)
  <2>1. CASE d \in Planned[q] /\ row' # row
    BY <1>3, <2>1 DEF Undo, docVars
  <2>2. CASE d \in Planned[q] /\ row' = row
    <3>1. row[d] # None
      BY <2>2
    <3>2. UNCHANGED task
      BY <1>3, <2>2, <3>1 DEF Undo
    <3>3. QED
      BY <1>1, <3>2
  <2>3. CASE d \notin Planned[q]
    BY <1>1, <2>3, Targets, RequestScope DEF Kind
  <2>4. QED
    BY <2>1, <2>2, <2>3
<1>4. CASE QueueParse(q)
  <2> DEFINE u == <<"parse", request[q].doc>>
  <2>1. u \in Task
    BY <1>4, Numbers, Targets DEF QueueParse, Typed, Carries, Kind
  <2>2. CASE UNCHANGED task
    BY <1>1, <2>2
  <2>3. CASE task' = [task EXCEPT ![u] = Queued(u)]
    <3>1. CASE u = t
      <4>1. task' = [task EXCEPT ![t] = Queued(t)]
        BY <2>3, <3>1
      <4>2. Active(t)'
        BY <1>t, <4>1, QueuedActive
      <4>3. QED
        BY <4>2 DEF HasParse
    <3>2. CASE u # t
      BY <1>1, <1>t, <2>3, <3>2
    <3>3. QED
      BY <3>1, <3>2
  <2>4. QED
    BY <1>4, <2>2, <2>3 DEF QueueParse
<1>5. CASE Finalize(q)
  <2>1. UNCHANGED task \/ \E n : task' = [task EXCEPT ![<<"upload", request[q].doc>>] = n]
    BY <1>5 DEF Finalize
  <2>2. QED
    BY <1>1, <1>t, <2>1
<1>6. CASE UNCHANGED task
  BY <1>1, <1>6
<1>7. QED
  BY <1>2, <1>3, <1>4, <1>5, <1>6 DEF RequestStep, Put, PutFails, QueueAnalysis, Parse, Crash

LEMMA ClaimParse ==
    ASSUME Typed, NEW t \in Task, Claim(t), NEW d \in Doc, HasParse(d)
    PROVE  HasParse(d)'
<1> DEFINE u == <<"parse", d>>
<1>1. u \in Task /\ task \in [Task -> TaskRow] /\ task[t] \in TaskRow
  BY Targets DEF Typed, TypeOK, Kind
<1>2. CASE u = t
  <2>1. task'[t].status \in {"processing", "failed"}
    <3>1. CASE task[t].attempts < MaxAttempts
      <4>1. task' = [task EXCEPT ![t] = [task[t] EXCEPT !.status = "processing", !.attempts = @ + 1]]
        BY <3>1, <1>1 DEF Claim
      <4>2. QED
        BY <1>1, <4>1 DEF TaskRow
    <3>2. CASE ~(task[t].attempts < MaxAttempts)
      <4>1. task' = [task EXCEPT ![t] = Over(t, "failed")]
        BY <3>2 DEF Claim
      <4>2. QED
        BY <1>1, <4>1, TaskForms DEF Typed
    <3>3. QED
      BY <3>1, <3>2
  <2>2. QED
    BY <1>2, <2>1 DEF HasParse, Active
<1>3. CASE u # t
  BY <1>1, <1>3, ClaimScope DEF HasParse, Active
<1>4. QED
  BY <1>2, <1>3

LEMMA HandlerParse ==
    ASSUME Typed, Stored, NEW h \in work, HandlerStep(h), NEW d \in Doc, HasParse(d),
           row'[d] # None
    PROVE  \/ HasParse(d)'
           \/ /\ row[d] # None /\ row[d].upload = "completed"
              /\ row'[d].parse \in {"parsed", "no_text"}
<1> DEFINE t == <<"parse", d>>
<1>t. /\ t \in Task /\ task \in [Task -> TaskRow]
      /\ h \in HandlerState /\ Sound(h) /\ Informed(h)
      /\ h.task \in Task /\ h.task[2] \in Doc /\ <<"parse", h.task[2]>> \in Task
      /\ h.task[1] \in Kind /\ h.task = <<h.task[1], h.task[2]>>
      /\ row[d] # None /\ row \in [Doc -> DocumentRow \cup {None}]
  BY Targets, HandlerFacts, HandlerScope DEF Typed, TypeOK, Kind, Stored
<1>1. CASE task'[t] = task[t]
  BY <1>1 DEF HasParse, Active
<1>2. CASE \E b \in BOOLEAN : EndTask(h, Failed(h.task, b))
  <2>1. PICK b \in BOOLEAN : EndTask(h, Failed(h.task, b))
    BY <1>2
  <2>2. Failed(h.task, b).status \in {"pending", "failed"}
    BY <1>t, TaskForms DEF Typed
  <2>3. CASE task' = [task EXCEPT ![h.task] = Failed(h.task, b)] /\ h.task = t
    BY <1>t, <2>2, <2>3 DEF HasParse, Active
  <2>4. QED
    BY <1>1, <1>t, <2>1, <2>3 DEF EndTask
<1>3. CASE h.task[1] = "upload" /\ \E n : EndTask(h, n)
  <2>1. h.task # t
    BY <1>3
  <2>2. QED
    BY <1>1, <1>3, <1>t, <2>1 DEF EndTask
<1>4. CASE \E found \in Outcome : Reconcile(h, found)
  BY <1>1, <1>3, <1>4 DEF Reconcile
<1>5. CASE \E found \in Outcome : ParseDocument(h, found)
  <2>1. PICK found \in Outcome : ParseDocument(h, found)
    BY <1>5
  <2>2. CASE UNCHANGED task
    BY <1>1, <2>2
  <2>3. CASE EndTask(h, Failed(h.task, FALSE)) \/ EndTask(h, Failed(h.task, TRUE))
    BY <1>2, <2>3
  <2>4. CASE /\ EndTask(h, Over(h.task, "completed")) /\ row[h.task[2]].upload # "pending"
             /\ row[h.task[2]] # None /\ row[h.task[2]].parse \in {"parsed", "no_text"}
    <3>1. UNCHANGED row
      BY <2>1 DEF ParseDocument, docVars
    <3>2. CASE h.task[2] = d
      BY <1>t, <2>4, <3>1, <3>2 DEF DocumentRow
    <3>3. CASE h.task[2] # d
      BY <1>1, <1>t, <2>4, <3>3 DEF EndTask
    <3>4. QED
      BY <3>2, <3>3
  <2>5. QED
    BY <2>1, <2>2, <2>3, <2>4 DEF ParseDocument
<1>6. CASE Requeue(h)
  <2> DEFINE u == <<"parse", h.task[2]>>
  <2>1. CASE EndTask(h, Failed(h.task, TRUE))
    BY <1>2, <2>1
  <2>2. CASE task' = [task EXCEPT ![u] = Queued(u)]
    <3>1. CASE u = t
      <4>1. Active(u)'
        BY <1>t, <2>2, QueuedActive
      <4>2. u' = u
        OBVIOUS
      <4>3. QED
        BY <3>1, <4>1 DEF HasParse
    <3>2. CASE u # t
      BY <1>1, <1>t, <2>2, <3>2
    <3>3. QED
      BY <3>1, <3>2
  <2>3. QED
    BY <1>6, <2>1, <2>2 DEF Requeue
<1>7. CASE Leave(h)
  BY <1>3, <1>7, <1>t DEF Leave, Sound
<1>8. CASE RollbackMissing(h)
  <2>1. h.at = "missing" /\ h.task[1] = "upload" /\ h.task[2] \notin objects /\ h.task # t
    BY <1>8, <1>t DEF RollbackMissing, Sound, Informed
  <2>2. CASE ~Holds(h)
    BY <1>1, <1>8, <2>2 DEF RollbackMissing
  <2>3. CASE Holds(h) /\ h.task[2] \in Attached
    <3>1. /\ row' = [e \in Doc |-> IF e \in Rows \cap Attached THEN None ELSE row[e]]
          /\ task' = [Cancelled(TasksOf(Rows \cap Attached))
                           EXCEPT ![h.task] = Over(h.task, "completed")]
      BY <1>8, <2>3 DEF RollbackMissing
    <3>2. t \notin TasksOf(Rows \cap Attached)
      BY <3>1 DEF TasksOf
    <3>3. Cancelled(TasksOf(Rows \cap Attached))[t] = task[t]
      BY <1>t, <3>2 DEF Cancelled
    <3>4. task'[t] = task[t]
      BY <1>t, <2>1, <3>1, <3>3 DEF Cancelled
    <3>5. QED
      BY <1>1, <3>4
  <2>4. CASE Holds(h) /\ h.task[2] \notin Attached
    <3> DEFINE e == h.task[2]
    <3>1. task' = [Cancelled({<<"parse", e>>}) EXCEPT ![h.task] = Over(h.task, "completed")]
      BY <1>8, <2>4 DEF RollbackMissing
    <3>2. e # d
      <4>1. ASSUME e = d PROVE FALSE
        <5>1. row[d].upload = "pending"
          BY <1>t, <2>1, <4>1 DEF Stored, CompletedHasObject, Rows, DocumentRow
        <5>2. row'[d] = None
          BY <1>8, <1>t, <2>4, <4>1, <5>1 DEF RollbackMissing
        <5>3. QED
          BY <5>2
      <4>2. QED
        BY <4>1
    <3>3. Cancelled({<<"parse", e>>})[t] = task[t]
      BY <1>t, <3>2 DEF Cancelled
    <3>4. task'[t] = task[t]
      BY <1>t, <2>1, <3>1, <3>3 DEF Cancelled
    <3>5. QED
      BY <1>1, <3>4
  <2>5. QED
    BY <2>2, <2>3, <2>4
<1>9. CASE Write(h)
  <2>1. CASE ~Holds(h)
    BY <1>1, <1>9, <2>1 DEF Write
  <2>2. CASE Holds(h) /\ h.task # t
    <3>1. \E n : task' = [task EXCEPT ![h.task] = n]
      BY <1>9, <2>2 DEF Write
    <3>2. QED
      BY <1>1, <1>t, <2>2, <3>1
  <2>3. CASE Holds(h) /\ h.task = t
    <3>0. h.task[1] = "parse" /\ h.task[2] = d /\ h.at = "writing" /\ row[d].upload = "completed"
      BY <1>9, <1>t, <2>3 DEF Write, Informed
    <3>1. CASE h.found \in {"parsed", "no_text"}
      <4>1. Over(h.task, "completed").status = "completed"
        BY <1>t, TaskForms DEF Typed
      <4>2. row' = [row EXCEPT ![d].upload = "completed", ![d].parse = h.found]
        BY <1>9, <1>t, <2>3, <3>0, <3>1, <4>1 DEF Write
      <4>3. row'[d].parse = h.found
        BY <1>t, <4>2 DEF DocumentRow
      <4>4. QED
        BY <1>t, <3>0, <3>1, <4>3
    <3>2. CASE h.found \notin {"parsed", "no_text"}
      <4>1. task' = [task EXCEPT ![h.task] = Failed(h.task, h.found = "pending")] /\ Leaves(h)
        BY <1>9, <2>3, <3>0, <3>2 DEF Write
      <4>2. \E b \in BOOLEAN : EndTask(h, Failed(h.task, b))
        <5>1. \/ Failed(h.task, h.found = "pending") = Failed(h.task, TRUE)
              \/ Failed(h.task, h.found = "pending") = Failed(h.task, FALSE)
          BY DEF Failed
        <5>2. EndTask(h, Failed(h.task, TRUE)) \/ EndTask(h, Failed(h.task, FALSE))
          BY <2>3, <4>1, <5>1 DEF EndTask
        <5>3. QED
          BY <5>2
      <4>3. QED
        BY <1>2, <4>2
    <3>3. QED
      BY <3>1, <3>2
  <2>4. QED
    BY <2>1, <2>2, <2>3
<1>10. CASE Fail(h)
  BY <1>2, <1>10 DEF Fail
<1>11. CASE FollowOn(h) \/ Drop(h)
  BY <1>1, <1>11 DEF FollowOn, Drop
<1>12. QED
  BY <1>4, <1>5, <1>6, <1>7, <1>8, <1>9, <1>10, <1>11 DEF HandlerStep

LEMMA RecruiterParse ==
    ASSUME Typed, NEW e \in Doc, Reparse(e) \/ ParseAll(e) \/ Delete(e),
           NEW d \in Doc, HasParse(d), row'[d] # None
    PROVE  HasParse(d)'
<1> DEFINE t == <<"parse", d>>
           u == <<"parse", e>>
<1>t. t \in Task /\ u \in Task /\ task \in [Task -> TaskRow] /\ row \in [Doc -> DocumentRow \cup {None}]
  BY Targets DEF Typed, TypeOK, Kind
<1>1. CASE task'[t] = task[t]
  BY <1>1 DEF HasParse, Active
<1>2. CASE Reparse(e)
  <2>1. task'[u].status = "pending" /\ \A v \in Task : v # u => task'[v] = task[v]
    <3>1. task' = [task EXCEPT ![u] = [status |-> "pending", id |-> task[u].id + 1, attempts |-> 0]]
      BY <1>2, <1>t DEF Reparse
    <3>2. QED
      BY <1>t, <3>1
  <2>2. QED
    BY <1>1, <1>t, <2>1 DEF HasParse, Active
<1>3. CASE ParseAll(e)
  <2>1. task' = [task EXCEPT ![u] = Queued(u)]
    BY <1>3 DEF ParseAll
  <2>2. task'[u].status \in {"pending", "processing"}
    BY <1>t, <2>1 DEF Queued, Active
  <2>3. QED
    BY <1>1, <1>t, <2>1, <2>2 DEF HasParse, Active
<1>4. CASE Delete(e)
  <2>1. d # e
    BY <1>4, <1>t DEF Delete
  <2>2. t \notin TasksOf({e})
    BY <2>1 DEF TasksOf
  <2>3. QED
    BY <1>1, <1>4, <1>t, <2>2 DEF Delete, Cancelled
<1>5. QED
  BY <1>2, <1>3, <1>4

\* A row that waits keeps its work, whoever else takes a step.
LEMMA PreparedKept ==
    ASSUME Typed, NEW g \in work, Prepared(g), Onward(g.task[2]),
           HasParse(g.task[2]) /\ row'[g.task[2]] # None =>
               HasParse(g.task[2])' \/ row[g.task[2]].upload = "completed"
    PROVE  Prepared(g)'
<1>1. g.task[2] \in Doc /\ row \in [Doc -> DocumentRow \cup {None}]
  BY HandlerFacts DEF Typed, TypeOK
<1>2. CASE row'[g.task[2]] = None
  BY <1>2 DEF Prepared
<1>3. CASE row'[g.task[2]] # None
  <2>1. row[g.task[2]] # None /\ row[g.task[2]].upload \in {"pending", "completed"}
    BY <1>1, <1>3 DEF Onward, DocumentRow
  <2>2. CASE row[g.task[2]].upload = "completed"
    BY <1>3, <2>2 DEF Onward, Prepared
  <2>3. CASE row[g.task[2]].upload = "pending"
    BY <1>3, <2>1, <2>3 DEF Prepared
  <2>4. QED
    BY <2>1, <2>2, <2>3
<1>4. QED
  BY <1>2, <1>3

\* A request that takes no step itself: nobody finalizes its uploads.
LEMMA UnfinishedKept ==
    ASSUME Typed, NEW q \in Request, Unfinished(q), request'[q] = request[q],
           \A d \in Planned[q] : row'[d] # None /\ request[q].at # "ended" =>
               /\ row[d] # None /\ row'[d].upload = row[d].upload
               /\ HasParse(d) => HasParse(d)' \/ row[d].upload = "completed"
    PROVE  Unfinished(q)'
<1>1. /\ request[q].left \subseteq Planned[q]
      /\ request[q].at \in {"stored", "queueing", "finalizing"} => request[q].doc \in Planned[q]
  BY DEF Typed, Carries
<1>2. request'[q].at \in {"storing", "stored", "queueing", "finalizing"} =>
          \A d \in request'[q].left : row'[d] # None => row'[d].upload = "pending"
  BY <1>1 DEF Unfinished
<1>3. request'[q].at \in {"stored", "queueing", "finalizing"} =>
          /\ request'[q].doc \notin request'[q].left
          /\ row'[request'[q].doc] # None => row'[request'[q].doc].upload = "pending"
  BY <1>1 DEF Unfinished
<1>4. /\ request'[q].at = "finalizing" /\ request'[q].found = "pending"
      /\ row'[request'[q].doc] # None
      => HasParse(request[q].doc)'
  <2> SUFFICES ASSUME request[q].at = "finalizing", request[q].found = "pending",
                      row'[request[q].doc] # None
               PROVE  HasParse(request[q].doc)'
    OBVIOUS
  <2>1. PICK d \in Planned[q] : d = request[q].doc
    BY <1>1
  <2>2. row[d] # None /\ row[d].upload = "pending" /\ HasParse(d)
    BY <2>1 DEF Unfinished
  <2>3. HasParse(d)'
    BY <2>1, <2>2
  <2>4. d = request'[q].doc
    BY <2>1
  <2>5. QED
    BY <2>1, <2>3, <2>4 DEF HasParse, Active
<1>5. QED
  BY <1>2, <1>3, <1>4 DEF Unfinished, HasParse, Active

LEMMA UnfinishedStep ==
    ASSUME Typed, NEW q \in Request, Unfinished(q), RequestStep(q)
    PROVE  Unfinished(q)'
<1> USE Numbers, IdleRequests
<1>t. /\ request \in [Request -> RequestState] /\ row \in [Doc -> DocumentRow \cup {None}]
      /\ task \in [Task -> TaskRow] /\ request[q].left \subseteq Planned[q]
      /\ request[q].at \in {"stored", "queueing", "finalizing"} => request[q].doc \in Planned[q]
  BY DEF Typed, TypeOK, Carries
<1>1. CASE Reserve(q)
  <2> DEFINE new == [Idle EXCEPT !.at = "storing", !.left = Planned[q]]
  <2>1. new.at = "storing" /\ new.left = Planned[q]
    BY DEF Idle
  <2>2. CASE request'[q].at = "ended"
    BY <2>2 DEF Unfinished
  <2>3. CASE request'[q].at # "ended"
    <3>1. /\ request' = [request EXCEPT ![q] = new]
          /\ row' = [d \in Doc |-> IF d \in Planned[q] THEN Fresh ELSE row[d]]
      BY <1>1, <1>t, <2>3 DEF Reserve
    <3>2. \A d \in Planned[q] : row'[d].upload = "pending"
      BY <3>1 DEF Fresh
    <3>3. request'[q] = new
      BY <3>1, <1>t
    <3>4. QED
      BY <2>1, <3>2, <3>3 DEF Unfinished
  <2>4. QED
    BY <2>2, <2>3
<1>2. ASSUME NEW d \in Doc, Put(q, d) PROVE Unfinished(q)'
  <2>1. /\ request'[q] = [request[q] EXCEPT !.at = "stored", !.doc = d, !.left = @ \ {d}]
        /\ UNCHANGED row /\ request[q].at = "storing" /\ d \in request[q].left
    BY <1>2, <1>t DEF Put
  <2>2. request'[q].at = "stored" /\ request'[q].doc = d /\ request'[q].left = request[q].left \ {d}
    BY <1>t, <2>1 DEF RequestState
  <2>3. QED
    BY <2>1, <2>2 DEF Unfinished
<1>3. CASE \/ \E d \in Doc : PutFails(q, d)
           \/ Undo(q) \/ QueueAnalysis(q) \/ Crash(q)
  <2>1. request'[q].at \in {"undoing", "ended"}
    BY <1>3, <1>t DEF PutFails, Undo, QueueAnalysis, Crash, RequestState
  <2>2. QED
    BY <2>1 DEF Unfinished
<1>4. ASSUME NEW found \in Outcome, Parse(q, found) PROVE Unfinished(q)'
  <2>1. /\ request'[q].doc = request[q].doc /\ request'[q].left = request[q].left
        /\ request'[q].found = found
        /\ request'[q].at = IF found = "pending" THEN "queueing" ELSE "finalizing"
        /\ UNCHANGED row /\ request[q].at = "stored"
    BY <1>4, <1>t DEF Parse, RequestState, docVars
  <2>2. QED
    BY <2>1 DEF Unfinished
<1>5. CASE QueueParse(q)
  <2>1. PICK d \in Planned[q] : d = request[q].doc
    BY <1>5, <1>t DEF QueueParse
  <2> DEFINE u == <<"parse", d>>
  <2>2. u \in Task /\ UNCHANGED row /\ request[q].at = "queueing"
    BY <1>5, Targets DEF QueueParse, Kind, docVars
  <2>3. CASE row[d] = None
    <3>1. request'[q].at = "ended"
      BY <1>5, <1>t, <2>1, <2>3 DEF QueueParse
    <3>2. QED
      BY <3>1 DEF Unfinished
  <2>4. CASE row[d] # None
    <3>1. /\ task' = [task EXCEPT ![u] = Queued(u)]
          /\ request' = [request EXCEPT ![q].at = "finalizing"]
      BY <1>5, <2>1, <2>4 DEF QueueParse
    <3>2. /\ request'[q].doc = d /\ request'[q].left = request[q].left
          /\ request'[q].at = "finalizing"
      BY <1>t, <2>1, <3>1 DEF RequestState
    <3>3. Active(u)'
      BY <2>2, <3>1, QueuedActive
    <3>4. QED
      BY <2>1, <2>2, <3>2, <3>3 DEF Unfinished, HasParse, Active
  <2>5. QED
    BY <2>3, <2>4
<1>6. CASE Finalize(q)
  <2>1. request[q].at = "finalizing" /\ request[q].doc \notin request[q].left
    BY <1>6 DEF Finalize, Unfinished
  <2>2. CASE request'[q].at # "storing"
    <3>1. Advanced(q)[q].at \in {"storing", "scoring", "ended"}
      BY <1>t DEF Advanced, RequestState
    <3>2. request'[q].at \notin {"stored", "queueing", "finalizing"}
      BY <1>6, <1>t, <2>2, <3>1 DEF Finalize
    <3>3. QED
      BY <2>2, <3>2 DEF Unfinished
  <2>3. CASE request'[q].at = "storing"
    <3>1. request' = Advanced(q)
      BY <1>6, <1>t, <2>3 DEF Finalize
    <3>2. request'[q].left = request[q].left
      BY <1>t, <3>1 DEF Advanced, RequestState
    <3>3. \A d \in Doc : d # request[q].doc => row'[d] = row[d]
      BY <1>6, <1>t DEF Finalize
    <3>4. \A d \in request[q].left : row'[d] = row[d]
      BY <1>t, <2>1, <3>3
    <3>5. QED
      BY <2>1, <2>3, <3>2, <3>4 DEF Unfinished
  <2>4. QED
    BY <2>2, <2>3
<1>7. QED
  BY <1>1, <1>2, <1>3, <1>4, <1>5, <1>6 DEF RequestStep

LEMMA RequestWaiting ==
    ASSUME Typed, Untouched, Stored, Waiting, NEW q \in Request, RequestStep(q)
    PROVE  Waiting'
<1> USE Numbers
<1>t. row \in [Doc -> DocumentRow \cup {None}] /\ task \in [Task -> TaskRow]
  BY DEF Typed, TypeOK
<1>1. ASSUME NEW r \in Request PROVE Unfinished(r)'
  <2>1. CASE r = q
    BY <2>1, UnfinishedStep DEF Waiting
  <2>2. CASE r # q
    <3>1. Unfinished(r) /\ request'[r] = request[r]
      BY <2>2, RequestScope DEF Waiting
    <3>2. ASSUME NEW d \in Planned[r], row'[d] # None
          PROVE  /\ row'[d] = row[d]
                 /\ HasParse(d) => HasParse(d)'
      <4>1. d \in Doc \ Planned[q]
        BY <2>2
      <4>2. QED
        BY <3>2, <4>1, RequestScope, RequestParse
    <3>3. QED
      BY <3>1, <3>2, UnfinishedKept
  <2>3. QED
    BY <2>1, <2>2
<1>2. ASSUME NEW g \in work PROVE Prepared(g)'
  <2>1. Prepared(g) /\ g.task[2] \in Doc
    BY HandlerFacts DEF Waiting
  <2>2. Onward(g.task[2])
    <3>1. CASE Reserve(q)
      <4>1. g.task[2] \in Doc \ Planned[q]
        BY <3>1, <2>1 DEF Reserve, Untouched, Untried
      <4>2. row'[g.task[2]] = row[g.task[2]]
        BY <4>1, RequestScope
      <4>3. QED
        BY <4>2 DEF Onward
    <3>2. CASE ~Reserve(q)
      BY <3>2, <2>1, RequestOnward
    <3>3. QED
      BY <3>1, <3>2
  <2>3. HasParse(g.task[2]) /\ row'[g.task[2]] # None => HasParse(g.task[2])'
    BY <2>1, RequestParse
  <2>4. QED
    BY <2>1, <2>2, <2>3, PreparedKept
<1>3. ASSUME NEW d \in Doc, row'[d] # None, row'[d].upload = "completed", row'[d].parse = "pending"
      PROVE  HasParse(d)'
  <2>1. row[d] # None /\ row[d].upload = "completed" /\ row[d].parse = "pending" => HasParse(d)
    BY DEF Waiting, PendingParseHasWork, Rows, HasParse
  <2>2. HasParse(d)
    <3>1. CASE row'[d] = row[d]
      BY <1>3, <2>1, <3>1
    <3>2. CASE Reserve(q)
      BY <1>3, <2>1, <3>2 DEF Reserve, Fresh
    <3>3. CASE Undo(q)
      BY <1>3, <2>1, <3>3 DEF Undo, docVars
    <3>4. CASE Finalize(q) /\ d = request[q].doc
      <4>1. row[d] # None /\ Unfinished(q) /\ request[q].at = "finalizing"
        BY <1>3, <3>4, <1>t DEF Finalize, Waiting
      <4>2. row[d].upload = "pending" /\ row[d] \in DocumentRow
        BY <3>4, <4>1, <1>t DEF Unfinished
      <4>3. row' = [row EXCEPT ![d] = [row[d] EXCEPT !.upload = "completed", !.parse = request[q].found]]
        BY <1>3, <3>4, <4>2 DEF Finalize
      <4>4. row'[d].parse = request[q].found
        BY <4>2, <4>3, <1>t DEF DocumentRow
      <4>5. QED
        BY <1>3, <3>4, <4>1, <4>4 DEF Unfinished
    <3>5. CASE Finalize(q) /\ d # request[q].doc
      BY <1>3, <2>1, <3>5, <1>t DEF Finalize
    <3>6. QED
      BY <3>1, <3>2, <3>3, <3>4, <3>5 DEF RequestStep, Put, PutFails, QueueParse, QueueAnalysis,
         Parse, Crash, docVars
  <2>3. QED
    BY <1>3, <2>2, RequestParse
<1>4. PendingParseHasWork'
  BY <1>3 DEF PendingParseHasWork, Rows, HasParse, Active
<1>5. \A g \in work' : Prepared(g)'
  BY <1>2, RequestScope
<1>6. QED
  BY <1>1, <1>4, <1>5 DEF Waiting

LEMMA HandlerWaiting ==
    ASSUME Typed, Stored, Waiting, NEW h \in work, HandlerStep(h)
    PROVE  Waiting'
<1> USE Numbers
<1>h. /\ h \in HandlerState /\ Sound(h) /\ Informed(h) /\ h.task \in Task /\ h.task[1] \in Kind
      /\ h.task[2] \in Doc /\ h.task = <<h.task[1], h.task[2]>> /\ UNCHANGED request
      /\ row \in [Doc -> DocumentRow \cup {None}] /\ task \in [Task -> TaskRow]
  BY HandlerFacts, HandlerScope DEF Stored, Typed, TypeOK
<1>w. ASSUME NEW d \in Doc
      PROVE  /\ Onward(d)
             /\ HasParse(d) /\ row'[d] # None => HasParse(d)' \/ row[d].upload = "completed"
  BY HandlerOnward, HandlerParse
\* Only a write completes an upload, and not one of a request that runs.
<1>u. ASSUME NEW d \in Doc, row'[d] # None, row'[d].upload # row[d].upload
      PROVE  /\ Write(h) /\ Holds(h) /\ d = h.task[2] /\ h.task[1] = "upload"
             /\ row[d].upload = "pending"
             /\ row' = [row EXCEPT ![d].upload = "completed", ![d].parse = h.found]
  <2>1. row[d] # None /\ row[d] \in DocumentRow
    BY <1>h, <1>u, <1>w DEF Onward
  <2>2. Write(h)
    <3>1. CASE row' = row
      BY <1>u, <3>1
    <3>2. CASE RollbackMissing(h)
      BY <1>u, <3>2 DEF RollbackMissing, docVars
    <3>3. QED
      BY <3>1, <3>2 DEF HandlerStep, Reconcile, ParseDocument, Requeue, Leave, FollowOn,
         Fail, Drop, docVars
  <2>3. Holds(h) /\ d = h.task[2]
    BY <1>h, <1>u, <2>2 DEF Write
  <2>4. h.at = "writing" /\ row[d].upload \in {"pending", "completed"}
    BY <2>1, <2>2 DEF Write, DocumentRow
  <2>5. row[d].upload = "pending"
    BY <1>u, <1>w, <2>1, <2>4 DEF Onward
  <2>6. h.task[1] = "upload"
    BY <1>h, <2>1, <2>3, <2>4, <2>5 DEF Informed, Kind
  <2>7. row' = [row EXCEPT ![d].upload = "completed", ![d].parse = h.found]
    BY <2>1, <2>2, <2>3, <2>5, <2>6 DEF Write
  <2>8. QED
    BY <2>2, <2>3, <2>5, <2>6, <2>7
<1>1. ASSUME NEW q \in Request PROVE Unfinished(q)'
  <2>1. Unfinished(q) /\ request'[q] = request[q]
    BY <1>h DEF Waiting
  <2>2. ASSUME NEW d \in Planned[q], row'[d] # None, request[q].at # "ended"
        PROVE  /\ row[d] # None /\ row'[d].upload = row[d].upload
               /\ HasParse(d) => HasParse(d)' \/ row[d].upload = "completed"
    <3>1. d \in Doc
      OBVIOUS
    <3>2. row'[d].upload = row[d].upload
      BY <1>h, <1>u, <2>2, <3>1 DEF Informed
    <3>3. QED
      BY <1>w, <2>2, <3>1, <3>2 DEF Onward
  <2>3. QED
    BY <2>1, <2>2, UnfinishedKept
<1>2. ASSUME NEW g \in work' PROVE Prepared(g)'
  <2>1. CASE g \in work
    <3>1. Prepared(g) /\ g.task[2] \in Doc
      BY <2>1, HandlerFacts DEF Waiting
    <3>2. QED
      BY <1>w, <2>1, <3>1, PreparedKept
  <2>2. CASE g \notin work
    <3>0. g.task = h.task
      BY <2>2, HandlerScope
    <3>1. CASE Requeue(h)
      <4> DEFINE u == <<"parse", h.task[2]>>
      <4>0. u \in Task
        BY <1>h, Targets DEF Kind
      <4>1. task' = [task EXCEPT ![u] = Queued(u)]
        BY <2>2, <3>1 DEF Requeue, EndTask, Leaves
      <4>2. Active(u)'
        BY <4>0, <4>1, QueuedActive
      <4>3. QED
        BY <3>0, <4>2 DEF Prepared, HasParse
    <3>2. CASE FollowOn(h)
      <4>1. g = [h EXCEPT !.at = "writing"] /\ h.at = "read"
        BY <2>2, <3>2 DEF FollowOn, Becomes
      <4>2. g.found = h.found
        BY <1>h, <4>1 DEF HandlerState
      <4>3. QED
        BY <1>h, <3>0, <4>1, <4>2 DEF Sound, Prepared
    <3>3. CASE \E found \in Outcome : Reconcile(h, found)
      <4>1. \E a \in {"requeueing", "leaving", "missing", "read"} : \E f :
                g = [h EXCEPT !.found = f, !.at = a]
        <5>1. \/ \E a \in {"requeueing", "leaving", "missing", "read"} : g = [h EXCEPT !.at = a]
              \/ \E a \in {"requeueing", "leaving", "missing", "read"} : \E f :
                     g = [h EXCEPT !.found = f, !.at = a]
          BY <2>2, <3>3 DEF Reconcile, EndTask, Leaves, Becomes
        <5>2. \A a : [h EXCEPT !.at = a] = [h EXCEPT !.found = h.found, !.at = a]
          BY <1>h DEF HandlerState
        <5>3. QED
          BY <5>1, <5>2
      <4>2. g.at # "writing"
        BY <1>h, <4>1 DEF HandlerState
      <4>3. QED
        BY <4>2 DEF Prepared
    <3>4. CASE \E found \in Outcome : ParseDocument(h, found)
      BY <3>0, <3>4 DEF ParseDocument, Prepared
    <3>5. CASE Leave(h) \/ RollbackMissing(h) \/ Write(h) \/ Fail(h) \/ Drop(h)
      BY <2>2, <3>5 DEF Leave, RollbackMissing, Write, Fail, Drop, EndTask, Leaves
    <3>6. QED
      BY <3>1, <3>2, <3>3, <3>4, <3>5 DEF HandlerStep
  <2>3. QED
    BY <2>1, <2>2
<1>3. ASSUME NEW d \in Doc, row'[d] # None, row'[d].upload = "completed", row'[d].parse = "pending"
      PROVE  HasParse(d)'
  <2>0. row[d] # None /\ row[d] \in DocumentRow
    BY <1>h, <1>3, <1>w DEF Onward
  <2>1. CASE row[d].upload = "completed" /\ row[d].parse = "pending"
    <3>1. HasParse(d)
      BY <2>0, <2>1 DEF Waiting, PendingParseHasWork, Rows, HasParse
    <3>2. QED
      BY <1>3, <3>1, HandlerParse
  <2>2. CASE row[d].upload # "completed"
    <3>1. /\ Write(h) /\ d = h.task[2] /\ h.task[1] = "upload" /\ row[d].upload = "pending"
          /\ row' = [row EXCEPT ![d].upload = "completed", ![d].parse = h.found]
      BY <1>3, <1>u, <2>2
    <3>2. h.found = "pending" /\ h.at = "writing"
      BY <1>3, <1>h, <2>0, <3>1 DEF DocumentRow, Write
    <3>3. HasParse(d)
      BY <2>0, <3>1, <3>2 DEF Waiting, Prepared
    <3>4. QED
      BY <1>3, <3>3, HandlerParse
  <2>3. CASE row[d].upload = "completed" /\ row[d].parse # "pending"
    <3>1. Write(h)
      <4>1. CASE row' = row
        BY <1>3, <2>3, <4>1
      <4>2. CASE RollbackMissing(h)
        BY <1>3, <2>3, <4>2 DEF RollbackMissing, docVars
      <4>3. QED
        BY <4>1, <4>2 DEF HandlerStep, Reconcile, ParseDocument, Requeue, Leave, FollowOn,
           Fail, Drop, docVars
    <3>2. Holds(h) /\ d = h.task[2] /\ h.task[1] = "parse"
      BY <1>3, <1>h, <2>3, <3>1 DEF Write, Kind
    <3> DEFINE end == IF h.task[1] = "upload" \/ h.found \in {"parsed", "no_text"}
                      THEN Over(h.task, "completed")
                      ELSE Failed(h.task, h.found = "pending")
               p == IF h.task[1] = "parse" /\ end.status = "failed" THEN "failed" ELSE h.found
    <3>3. /\ task' = [task EXCEPT ![h.task] = end]
          /\ row' = [row EXCEPT ![d].upload = "completed", ![d].parse = p]
      BY <2>0, <3>1, <3>2 DEF Write
    <3>4. p = "pending"
      BY <1>3, <1>h, <2>0, <3>3 DEF DocumentRow
    <3>5. h.found = "pending"
      BY <3>4
    <3>6. end = Failed(h.task, TRUE)
      BY <3>2, <3>5 DEF Failed
    <3>7. end.status \in {"pending", "failed"}
      BY <1>h, <3>6, TaskForms DEF Typed
    <3>8. h.task = <<"parse", d>> /\ task'[h.task] = end
      BY <1>h, <3>2, <3>3
    <3>9. QED
      BY <3>7, <3>8 DEF HasParse, Active
  <2>4. QED
    BY <2>1, <2>2, <2>3
<1>4. PendingParseHasWork'
  BY <1>3 DEF PendingParseHasWork, Rows, HasParse, Active
<1>5. QED
  BY <1>1, <1>2, <1>4 DEF Waiting

\* A step that completes no upload, and leaves or gives work to what waits.
LEMMA QuietWaiting ==
    ASSUME Typed, Waiting, UNCHANGED <<request, work>>, \A d \in Doc : Onward(d),
           \A d \in Doc : row'[d] # None => row'[d].upload = row[d].upload,
           \A d \in Doc : row'[d] # None /\ row'[d].parse = "pending"
               => row[d].parse = "pending" \/ HasParse(d)',
           \A d \in Doc : HasParse(d) /\ row'[d] # None => HasParse(d)'
    PROVE  Waiting'
<1> USE Numbers
<1>1. \A q \in Request : Unfinished(q)'
  <2> SUFFICES ASSUME NEW q \in Request PROVE Unfinished(q)'
    OBVIOUS
  <2>1. \A d \in Planned[q] : d \in Doc
    OBVIOUS
  <2>2. Unfinished(q) /\ request'[q] = request[q]
    BY DEF Waiting
  <2>3. QED
    BY <2>1, <2>2, UnfinishedKept DEF Onward
<1>2. \A g \in work' : Prepared(g)'
  <2> SUFFICES ASSUME NEW g \in work PROVE Prepared(g)'
    OBVIOUS
  <2>1. g.task[2] \in Doc /\ Prepared(g)
    BY HandlerFacts DEF Waiting
  <2>2. QED
    BY <2>1, PreparedKept
<1>3. ASSUME NEW d \in Doc, row'[d] # None, row'[d].upload = "completed", row'[d].parse = "pending"
      PROVE  HasParse(d)'
  <2>1. row[d] # None /\ row[d].upload = "completed"
    BY <1>3 DEF Onward
  <2>2. CASE row[d].parse = "pending"
    BY <1>3, <2>1, <2>2 DEF Waiting, PendingParseHasWork, Rows, HasParse
  <2>3. QED
    BY <1>3, <2>2
<1>4. PendingParseHasWork'
  BY <1>3 DEF PendingParseHasWork, Rows, HasParse, Active
<1>5. QED
  BY <1>1, <1>2, <1>4 DEF Waiting

LEMMA WaitingKept == Typed /\ Untouched /\ Stored /\ Waiting /\ [Next]_vars => Waiting'
<1> SUFFICES ASSUME Typed, Untouched, Stored, Waiting, [Next]_vars PROVE Waiting'
  OBVIOUS
<1>t. row \in [Doc -> DocumentRow \cup {None}] /\ task \in [Task -> TaskRow]
  BY DEF Typed, TypeOK
<1>0. ASSUME UNCHANGED <<row, request, work>>,
             \A d \in Doc : HasParse(d) /\ row'[d] # None => HasParse(d)'
      PROVE  Waiting'
  BY <1>0, QuietWaiting DEF Onward
<1>1. ASSUME NEW q \in Request, Count(q) PROVE Waiting'
  <2>1. UNCHANGED <<row, task, work>> /\ \A r \in Request : r # q => request'[r] = request[r]
    BY <1>1, CountScope
  <2>2. request'[q].at = "counted"
    BY <1>1, CountScope
  <2>3. ASSUME NEW r \in Request PROVE Unfinished(r)'
    BY <2>1, <2>2 DEF Waiting, Unfinished, HasParse, Active
  <2>4. \A g \in work : Prepared(g)'
    BY <2>1 DEF Waiting, Prepared, HasParse, Active
  <2>5. QED
    BY <2>1, <2>3, <2>4 DEF Waiting, PendingParseHasWork, Rows, Active
<1>2. ASSUME NEW q \in Request, RequestStep(q) PROVE Waiting'
  BY <1>2, RequestWaiting
<1>3. ASSUME NEW t \in Task, Claim(t) PROVE Waiting'
  <2>1. UNCHANGED <<row, objects, capacity, request>> /\ \A d \in Doc : HasParse(d) => HasParse(d)'
    BY <1>3, ClaimScope, ClaimParse
  <2>2. ASSUME NEW q \in Request PROVE Unfinished(q)'
    <3>1. Unfinished(q) /\ request'[q] = request[q]
      BY <2>1 DEF Waiting
    <3>2. \A d \in Planned[q] : d \in Doc
      BY Numbers
    <3>3. QED
      BY <2>1, <3>1, <3>2, UnfinishedKept
  <2>3. ASSUME NEW g \in work' PROVE Prepared(g)'
    <3>1. CASE g \in work
      <4>1. g.task[2] \in Doc /\ Prepared(g) /\ Onward(g.task[2])
        BY <2>1, <3>1, HandlerFacts DEF Waiting, Onward
      <4>2. QED
        BY <2>1, <3>1, <4>1, PreparedKept
    <3>2. CASE g.at = "claimed"
      BY <3>2 DEF Prepared
    <3>3. QED
      BY <1>3, <3>1, <3>2, ClaimScope
  <2>4. ASSUME NEW d \in Doc, row'[d] # None, row'[d].upload = "completed",
               row'[d].parse = "pending"
        PROVE  HasParse(d)'
    BY <2>1, <2>4 DEF Waiting, PendingParseHasWork, Rows, HasParse
  <2>5. PendingParseHasWork'
    BY <2>4 DEF PendingParseHasWork, Rows, HasParse, Active
  <2>6. QED
    BY <2>2, <2>3, <2>5 DEF Waiting
<1>4. ASSUME NEW h \in work, HandlerStep(h) PROVE Waiting'
  BY <1>4, HandlerWaiting
<1>5. ASSUME NEW e \in Doc, Reparse(e) \/ ParseAll(e) \/ Delete(e) PROVE Waiting'
  <2>1. UNCHANGED <<request, work>> /\ \A d \in Doc : Onward(d)
    BY <1>5, RecruiterScope, RecruiterOnward
  <2>2. \A d \in Doc : HasParse(d) /\ row'[d] # None => HasParse(d)'
    BY <1>5, RecruiterParse
  <2>3. CASE row' = row
    BY <2>1, <2>2, <2>3, QuietWaiting
  <2>4. CASE row' = [row EXCEPT ![e] = None]
    BY <2>1, <2>2, <2>4, <1>t, QuietWaiting
  <2>5. CASE Reparse(e)
    <3>1. PICK n : row' = [row EXCEPT ![e].parse = "pending", ![e].resets = n]
      BY <2>5 DEF Reparse
    <3>2. row[e] # None /\ row[e] \in DocumentRow
      BY <2>5, <1>t DEF Reparse
    <3>3. \A d \in Doc : row'[d].upload = row[d].upload
      BY <1>t, <3>1, <3>2 DEF DocumentRow
    <3>4. \A d \in Doc : d # e => row'[d] = row[d]
      BY <1>t, <3>1
    <3>5. HasParse(e)'
      <4>1. <<"parse", e>> \in Task
        BY Targets DEF Kind
      <4>2. task' = [task EXCEPT ![<<"parse", e>>] =
                        [status |-> "pending", id |-> task[<<"parse", e>>].id + 1, attempts |-> 0]]
        BY <2>5, <1>t DEF Reparse
      <4>3. task'[<<"parse", e>>].status = "pending"
        BY <1>t, <4>1, <4>2
      <4>4. QED
        BY <4>3 DEF HasParse, Active
    <3>6. QED
      BY <2>1, <2>2, <3>3, <3>4, <3>5, QuietWaiting
  <2>6. QED
    BY <1>5, <2>3, <2>4, <2>5 DEF ParseAll, Delete, docVars
<1>6. CASE Analyse \/ UNCHANGED vars
  <2>1. UNCHANGED <<row, capacity, request, task, work>>
    BY <1>6, RestScope
  <2>2. \A d \in Doc : HasParse(d) => HasParse(d)'
    BY <2>1 DEF HasParse, Active
  <2>3. QED
    BY <1>0, <2>1, <2>2
<1>7. QED
  BY <1>1, <1>2, <1>3, <1>4, <1>5, <1>6 DEF Next

\* Where the upload grace outlasts every request, a complete upload that waits
\* for its parse has a task that will parse it or one that ran out of attempts
\* (PendingParseHasWork).
THEOREM ParsesCorrect ==
    ASSUME GraceHolds
    PROVE  Spec => []PendingParseHasWork
<1>1. Init => Untouched /\ Stored /\ Waiting
  <2>1. Init => Untouched
    BY Numbers, Targets DEF Init, Untouched, Untried
  <2>2. Init => Stored
    BY IdleRequests DEF Init, Stored, CompletedHasObject, Rows, Kept
  <2>3. Init => Waiting
    BY IdleRequests DEF Init, Waiting, PendingParseHasWork, Rows, Unfinished
  <2>4. QED
    BY <2>1, <2>2, <2>3
<1>2. Waiting => PendingParseHasWork
  BY DEF Waiting
<1>3. QED
  BY <1>1, <1>2, InitTyped, NextTyped, UntouchedKept, StoredKept, WaitingKept, PTL DEF Spec
=============================================================================
