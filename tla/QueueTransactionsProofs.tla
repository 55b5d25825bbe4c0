----------------------- MODULE QueueTransactionsProofs -----------------------
(***************************************************************************)
(* Theorems about QueueTransactions, for any number of sessions and any    *)
(* finite sets of tasks, batches and resources.                            *)
(*                                                                         *)
(* Every action first gets a lemma with its facts, field by field          *)
(* (...Facts); OwnSteps then says what all statements have in common: they *)
(* move one session, write nothing that is committed, and take locks for   *)
(* that session alone.  The inductive invariant is built in stages, each   *)
(* of which uses those before it:                                          *)
(*   Typed      the types, and that a session which locks rows has some;   *)
(*   Shape      what a transaction looks like at each of its statements;   *)
(*   Existence  which batches exist, and who creates the others;           *)
(*   Locks      who holds which lock, by what its transaction has done;    *)
(*   Rows       committed tasks, and the rows that are being inserted;     *)
(*   Counts     what batch rows count, committed or about to be.           *)
(* LockOrder follows: what a session holds while it waits for more.        *)
(***************************************************************************)
EXTENDS QueueTransactions, FiniteSetTheorems, WellFoundedInduction, TLAPS

\* The least element of a set of naturals, which the lock order is made of.
LEMMA MinIsLeast ==
    ASSUME NEW S \in SUBSET Nat, S # {}
    PROVE  Min(S) \in S /\ \A y \in S : Min(S) <= y
<1> DEFINE R == OpToRel(<, Nat)
<1>1. IsWellFoundedOn(R, Nat)
  BY NatLessThanWellFounded
<1>2. \A x, y \in Nat : <<y, x>> \in R <=> y < x
  BY DEF OpToRel
<1> HIDE DEF R
<1>3. PICK x \in S : \A y \in S : <<y, x>> \notin R
  BY <1>1, WFMin
<1>4. \A y \in S : x <= y
  <2> SUFFICES ASSUME NEW y \in S PROVE x <= y
    OBVIOUS
  <2>1. <<y, x>> \notin R /\ x \in Nat /\ y \in Nat
    BY <1>3
  <2>2. ~(y < x)
    BY <1>2, <2>1
  <2>3. QED
    BY <2>1, <2>2
<1>5. QED
  BY <1>4 DEF Min

\* The sessions other than x are where they were.
Others(x) == \A y \in Txn \ {x} : run'[y] = run[y]

LEMMA ContinueFacts ==
    ASSUME TypeOK, NEW x \in Txn, NEW r \in Transaction, Continue(x, r)
    PROVE  run'[x] = r /\ Others(x) /\ run' \in [Txn -> Transaction]
  BY DEF TypeOK, Continue, Others

LEMMA IdleIsTransaction == Idle \in Transaction
<1>1. NoMembers \in [Target -> Task \cup {None}]
  BY DEF NoMembers
<1>2. QED
  BY <1>1 DEF Idle, Transaction, Op, Label

LEMMA LockResourceFacts ==
    ASSUME TypeOK, NEW x \in Txn, LockResource(x)
    PROVE  LET r == run[x] n == run'[x] IN
           /\ run' \in [Txn -> Transaction] /\ Others(x)
           /\ r.at = "advisory" /\ n.at = "advisory" /\ n.op = r.op
           /\ n.todo = r.todo /\ n.rows = r.rows /\ n.batch = r.batch
           /\ n.found = r.found /\ n.batches = r.batches /\ n.draft = r.draft
           /\ n.item = r.item /\ n.view = r.view
           /\ UNCHANGED <<committed, row, share, batchRow>>
           /\ \E g \in r.targets :
                  /\ \A h \in r.targets : g <= h
                  /\ n.targets = r.targets \ {g}
                  /\ advisory[g] = None
                  /\ advisory' = [advisory EXCEPT ![g] = x]
<1> DEFINE r == run[x]
<1>1. r \in Transaction
  BY DEF TypeOK
<1>2. PICK g \in NextResource(x) :
          /\ advisory[g] = None
          /\ advisory' = [advisory EXCEPT ![g] = x]
          /\ Continue(x, [r EXCEPT !.targets = @ \ {g}])
  BY DEF LockResource
<1> DEFINE n == [r EXCEPT !.targets = @ \ {g}]
<1>3. n \in Transaction
  BY <1>1 DEF Transaction
<1>4. run'[x] = n /\ Others(x) /\ run' \in [Txn -> Transaction]
  BY <1>2, <1>3, ContinueFacts
<1>5. QED
  BY <1>1, <1>2, <1>4 DEF LockResource, Transaction, NextResource

\* What Idle holds, field by field.
LEMMA IdleFields ==
    /\ Idle.op = "none" /\ Idle.at = "none" /\ Idle.targets = {} /\ Idle.todo = {}
    /\ Idle.rows = {} /\ Idle.batch = None /\ Idle.found = None /\ Idle.batches = {}
    /\ Idle.draft = [t \in Task |-> None] /\ Idle.item = NoMembers
    /\ Idle.view = [b \in Batch |-> None]
  BY DEF Idle

LEMMA BeginEnqueueFacts ==
    ASSUME TypeOK, NEW x \in Txn, NEW b \in Batch, NEW S \in SUBSET Target,
           BeginEnqueue(x, b, S)
    PROVE  LET n == run'[x] IN
           /\ run' \in [Txn -> Transaction] /\ Others(x) /\ run[x] = Idle
           /\ n.op = "enqueue" /\ n.at = "advisory" /\ n.targets = S /\ n.todo = S
           /\ n.rows = {} /\ n.batch = b /\ n.found = None /\ n.batches = {}
           /\ n.draft = [t \in Task |-> None] /\ n.item = NoMembers
           /\ n.view = [c \in Batch |-> None]
           /\ b \in FreshBatches
           /\ UNCHANGED <<committed, locks>>
<1> DEFINE n == [Idle EXCEPT !.op = "enqueue", !.at = "advisory",
                             !.targets = S, !.todo = S, !.batch = b]
<1>1. n \in Transaction
  BY IdleIsTransaction DEF Transaction, Op, Label
<1>2. run[x] = Idle /\ Continue(x, n) /\ b \in FreshBatches /\ UNCHANGED <<committed, locks>>
  BY DEF BeginEnqueue, Begin
<1>3. run'[x] = n /\ Others(x) /\ run' \in [Txn -> Transaction]
  BY <1>1, <1>2, ContinueFacts
<1>4. QED
  BY <1>2, <1>3, IdleIsTransaction, IdleFields DEF Transaction

LEMMA LookUpTaskFacts ==
    ASSUME TypeOK, NEW x \in Txn, LookUpTask(x)
    PROVE  LET r == run[x] n == run'[x] IN
           /\ run' \in [Txn -> Transaction] /\ Others(x)
           /\ r.op = "enqueue" /\ r.at = "advisory" /\ r.targets = {} /\ r.todo # {}
           /\ n.op = "enqueue" /\ n.at = "link" /\ n.targets = {}
           /\ n.todo = r.todo /\ n.rows = r.rows /\ n.batch = r.batch
           /\ n.batches = r.batches /\ n.item = r.item /\ n.view = r.view
           /\ n.found \in Task
           /\ \/ n.found \in ActiveTasks(Min(r.todo)) /\ n.draft = r.draft
              \/ /\ ActiveTasks(Min(r.todo)) = {} /\ n.found \in FreshTasks
                 /\ n.draft = [r.draft EXCEPT ![n.found] = "pending"]
           /\ batchRow' = [batchRow EXCEPT ![r.batch] = x]
           /\ UNCHANGED <<committed, advisory, row, share>>
<1> DEFINE r == run[x]
           g == Min(r.todo)
<1>1. r \in Transaction
  BY DEF TypeOK
<1>2. /\ r.op = "enqueue" /\ r.at = "advisory" /\ r.targets = {} /\ r.todo # {}
      /\ batchRow' = [batchRow EXCEPT ![r.batch] = x]
      /\ UNCHANGED <<committed, advisory, row, share>>
  BY DEF LookUpTask
<1>3. CASE \E t \in ActiveTasks(g) : Continue(x, [r EXCEPT !.at = "link", !.found = t])
  <2>1. PICK t \in ActiveTasks(g) : Continue(x, [r EXCEPT !.at = "link", !.found = t])
    BY <1>3
  <2> DEFINE n == [r EXCEPT !.at = "link", !.found = t]
  <2>2. t \in Task
    BY DEF ActiveTasks
  <2>3. n \in Transaction
    BY <1>1, <2>2 DEF Transaction, Label
  <2>4. run'[x] = n /\ Others(x) /\ run' \in [Txn -> Transaction]
    BY <2>1, <2>3, ContinueFacts
  <2>5. QED
    BY <1>1, <1>2, <2>2, <2>4 DEF Transaction
<1>4. CASE /\ ActiveTasks(g) = {}
           /\ \E t \in FreshTasks :
                  Continue(x, [r EXCEPT !.at = "link", !.found = t, !.draft[t] = "pending"])
  <2>1. PICK t \in FreshTasks :
            Continue(x, [r EXCEPT !.at = "link", !.found = t, !.draft[t] = "pending"])
    BY <1>4
  <2> DEFINE n == [r EXCEPT !.at = "link", !.found = t, !.draft[t] = "pending"]
  <2>2. t \in Task
    BY DEF FreshTasks
  <2>3. r.draft \in [Task -> TaskStatus \cup {None}]
    BY <1>1 DEF Transaction
  <2>4. n = [r EXCEPT !.at = "link", !.found = t,
                      !.draft = [r.draft EXCEPT ![t] = "pending"]]
    BY <1>1 DEF Transaction
  <2>5. [r.draft EXCEPT ![t] = "pending"] \in [Task -> TaskStatus \cup {None}]
    BY <2>3 DEF TaskStatus, Active
  <2>6. n \in Transaction
    BY <1>1, <2>2, <2>4, <2>5 DEF Transaction, Label
  <2>7. run'[x] = n /\ Others(x) /\ run' \in [Txn -> Transaction]
    BY <2>1, <2>6, ContinueFacts
  <2>8. QED
    BY <1>1, <1>2, <1>4, <2>2, <2>4, <2>7 DEF Transaction
<1>5. QED
  BY <1>3, <1>4 DEF LookUpTask

LEMMA LinkBatchItemFacts ==
    ASSUME TypeOK, NEW x \in Txn, LinkBatchItem(x)
    PROVE  LET r == run[x] n == run'[x] IN
           /\ run' \in [Txn -> Transaction] /\ Others(x)
           /\ r.at = "link" /\ n.at = "advisory" /\ n.op = r.op /\ n.targets = r.targets
           /\ n.todo = r.todo \ {Min(r.todo)} /\ n.rows = r.rows /\ n.batch = r.batch
           /\ n.found = None /\ n.batches = r.batches /\ n.draft = r.draft
           /\ n.item = [r.item EXCEPT ![Min(r.todo)] = r.found] /\ n.view = r.view
           /\ WaitsFor(x) = {}
           /\ share' = [share EXCEPT ![r.found] = @ \cup {x}]
           /\ UNCHANGED <<committed, advisory, row, batchRow>>
<1> DEFINE r == run[x]
           g == Min(r.todo)
           n == [r EXCEPT !.at = "advisory", !.found = None,
                          !.todo = @ \ {g}, !.item[g] = r.found]
           i == [r.item EXCEPT ![g] = r.found]
<1>1. r \in Transaction
  BY DEF TypeOK
<1>2. /\ r.at = "link" /\ WaitsFor(x) = {} /\ Continue(x, n)
      /\ share' = [share EXCEPT ![r.found] = @ \cup {x}]
      /\ UNCHANGED <<committed, advisory, row, batchRow>>
  BY DEF LinkBatchItem
<1> HIDE DEF g
<1>3. n = [r EXCEPT !.at = "advisory", !.found = None, !.todo = r.todo \ {g}, !.item = i]
  BY <1>1 DEF Transaction
<1>4. i \in [Target -> Task \cup {None}]
  BY <1>1 DEF Transaction
<1>5. n \in Transaction
  BY <1>1, <1>3, <1>4 DEF Transaction, Label
<1>6. run'[x] = n /\ Others(x) /\ run' \in [Txn -> Transaction]
  BY <1>2, <1>5, ContinueFacts
<1>7. QED
  BY <1>1, <1>2, <1>3, <1>6 DEF Transaction, g

LEMMA ViewSeenType ==
    ASSUME TypeOK, NEW x \in Txn, NEW b \in Batch
    PROVE  ViewSeen(x, b) \in View
<1> DEFINE members == IF run[x].op = "enqueue" THEN run[x].item ELSE item[b]
<1>1. members \in [Target -> Task \cup {None}]
  BY DEF TypeOK, Transaction
<1>2. \A t \in Task : StatusSeen(x, t) \in TaskStatus \cup {None}
  BY DEF StatusSeen, TypeOK, Transaction
<1> HIDE DEF members
<1>3. \A g \in Target : (IF members[g] = None THEN None ELSE StatusSeen(x, members[g]))
                            \in TaskStatus \cup {None}
  BY <1>1, <1>2
<1>4. QED
  BY <1>3 DEF ViewSeen, View, members

LEMMA SealBatchFacts ==
    ASSUME TypeOK, NEW x \in Txn, SealBatch(x)
    PROVE  LET r == run[x] n == run'[x] IN
           /\ run' \in [Txn -> Transaction] /\ Others(x)
           /\ r.op = "enqueue" /\ r.at = "advisory" /\ r.targets = {} /\ r.todo = {}
           /\ n.at = "refresh" /\ n.op = "enqueue" /\ n.targets = {}
           /\ n.todo = {} /\ n.rows = r.rows /\ n.batch = r.batch
           /\ n.found = r.found /\ n.batches = r.batches /\ n.draft = r.draft
           /\ n.item = r.item
           /\ n.view = [r.view EXCEPT ![r.batch] = ViewSeen(x, r.batch)]
           /\ UNCHANGED <<committed, locks>>
<1> DEFINE r == run[x]
           v == [r.view EXCEPT ![r.batch] = ViewSeen(x, r.batch)]
           n == [r EXCEPT !.at = "refresh", !.view[r.batch] = ViewSeen(x, r.batch)]
<1>1. r \in Transaction
  BY DEF TypeOK
<1>2. /\ r.op = "enqueue" /\ r.at = "advisory" /\ r.targets = {} /\ r.todo = {}
      /\ Continue(x, n) /\ UNCHANGED <<committed, locks>>
  BY DEF SealBatch
<1>3. n = [r EXCEPT !.at = "refresh", !.view = v]
  BY <1>1 DEF Transaction
<1>4. v \in [Batch -> View \cup {None}]
  BY <1>1, ViewSeenType DEF Transaction
<1> HIDE DEF v
<1>5. n \in Transaction
  BY <1>1, <1>3, <1>4 DEF Transaction, Label
<1>6. run'[x] = n /\ Others(x) /\ run' \in [Txn -> Transaction]
  BY <1>2, <1>5, ContinueFacts
<1>7. QED
  BY <1>1, <1>2, <1>3, <1>6 DEF Transaction, v

LEMMA BeginSettleFacts ==
    ASSUME TypeOK, NEW x \in Txn, NEW t \in Task, BeginSettle(x, t)
    PROVE  LET n == run'[x] IN
           /\ run' \in [Txn -> Transaction] /\ Others(x) /\ run[x] = Idle
           /\ n.op = "settle" /\ n.at = "lock" /\ n.targets = {} /\ n.todo = {}
           /\ n.rows = {t} /\ n.batch = None /\ n.found = None /\ n.batches = {}
           /\ n.draft = [u \in Task |-> None] /\ n.item = NoMembers
           /\ n.view = [c \in Batch |-> None]
           /\ status[t] \in Active
           /\ UNCHANGED <<committed, locks>>
<1> DEFINE n == [Idle EXCEPT !.op = "settle", !.at = "lock", !.rows = {t}]
<1>1. n \in Transaction
  BY IdleIsTransaction DEF Transaction, Op, Label
<1>2. run[x] = Idle /\ Continue(x, n) /\ status[t] \in Active /\ UNCHANGED <<committed, locks>>
  BY DEF BeginSettle, Begin
<1>3. run'[x] = n /\ Others(x) /\ run' \in [Txn -> Transaction]
  BY <1>1, <1>2, ContinueFacts
<1>4. QED
  BY <1>2, <1>3, IdleIsTransaction, IdleFields DEF Transaction

LEMMA BeginCancelFacts ==
    ASSUME TypeOK, NEW x \in Txn, NEW S \in SUBSET Target, BeginCancel(x, S)
    PROVE  LET n == run'[x] IN
           /\ run' \in [Txn -> Transaction] /\ Others(x) /\ run[x] = Idle
           /\ n.op = "cancel" /\ n.at = "advisory" /\ n.targets = S /\ n.todo = S
           /\ n.rows = {} /\ n.batch = None /\ n.found = None /\ n.batches = {}
           /\ n.draft = [u \in Task |-> None] /\ n.item = NoMembers
           /\ n.view = [c \in Batch |-> None]
           /\ UNCHANGED <<committed, locks>>
<1> DEFINE n == [Idle EXCEPT !.op = "cancel", !.at = "advisory",
                             !.targets = S, !.todo = S]
<1>1. n \in Transaction
  BY IdleIsTransaction DEF Transaction, Op, Label
<1>2. run[x] = Idle /\ Continue(x, n) /\ UNCHANGED <<committed, locks>>
  BY DEF BeginCancel, Begin
<1>3. run'[x] = n /\ Others(x) /\ run' \in [Txn -> Transaction]
  BY <1>1, <1>2, ContinueFacts
<1>4. QED
  BY <1>2, <1>3, IdleIsTransaction, IdleFields DEF Transaction

LEMMA CancelMoreFacts ==
    ASSUME TypeOK, NEW x \in Txn, NEW S \in SUBSET Target, CancelMore(x, S)
    PROVE  LET r == run[x] n == run'[x] IN
           /\ run' \in [Txn -> Transaction] /\ Others(x)
           /\ r.op = "cancel" /\ r.at = "refresh" /\ r.batches = {} /\ r.todo = {}
           /\ n.op = "cancel" /\ n.at = "advisory" /\ n.targets = S /\ n.todo = S
           /\ n.rows = r.rows /\ n.batch = r.batch /\ n.found = r.found
           /\ n.batches = {} /\ n.draft = r.draft /\ n.item = r.item
           /\ n.view = r.view
           /\ \A g \in S, h \in Target : advisory[h] = x => h < g
           /\ UNCHANGED <<committed, locks>>
<1> DEFINE r == run[x]
           n == [r EXCEPT !.at = "advisory", !.targets = S, !.todo = S]
<1>1. r \in Transaction
  BY DEF TypeOK
<1>2. /\ r.op = "cancel" /\ r.at = "refresh" /\ r.batches = {} /\ r.todo = {}
      /\ \A g \in S, h \in Target : advisory[h] = x => h < g
      /\ Continue(x, n) /\ UNCHANGED <<committed, locks>>
  BY DEF CancelMore, Refreshed
<1>3. n \in Transaction
  BY <1>1 DEF Transaction, Label
<1>4. run'[x] = n /\ Others(x) /\ run' \in [Txn -> Transaction]
  BY <1>2, <1>3, ContinueFacts
<1>5. QED
  BY <1>1, <1>2, <1>4 DEF Transaction

LEMMA BeginPollFacts ==
    ASSUME TypeOK, NEW x \in Txn, NEW b \in Batch, BeginPoll(x, b)
    PROVE  LET n == run'[x] IN
           /\ run' \in [Txn -> Transaction] /\ Others(x) /\ run[x] = Idle
           /\ n.op = "poll" /\ n.at = "answer" /\ n.targets = {} /\ n.todo = {}
           /\ n.rows = {} /\ n.batch = None /\ n.found = None /\ n.batches = {}
           /\ n.draft = [u \in Task |-> None] /\ n.item = NoMembers
           /\ n.view = [c \in Batch |-> IF c = b THEN view[b] ELSE None]
           /\ view[b] # None
           /\ UNCHANGED <<committed, locks>>
<1> DEFINE v == [c \in Batch |-> IF c = b THEN view[b] ELSE None]
           n == [Idle EXCEPT !.op = "poll", !.at = "answer", !.view[b] = view[b]]
<1>1. n = [Idle EXCEPT !.op = "poll", !.at = "answer", !.view = v]
  <2>1. [Idle.view EXCEPT ![b] = view[b]] = v
    BY IdleFields
  <2>2. n = [Idle EXCEPT !.op = "poll", !.at = "answer",
                         !.view = [Idle.view EXCEPT ![b] = view[b]]]
    BY IdleIsTransaction DEF Transaction
  <2>3. QED
    BY <2>1, <2>2
<1>2. v \in [Batch -> View \cup {None}]
  BY DEF TypeOK
<1> HIDE DEF v
<1>3. n \in Transaction
  BY <1>1, <1>2, IdleIsTransaction DEF Transaction, Op, Label
<1>4. run[x] = Idle /\ Continue(x, n) /\ view[b] # None /\ UNCHANGED <<committed, locks>>
  BY DEF BeginPoll, Begin
<1>5. run'[x] = n /\ Others(x) /\ run' \in [Txn -> Transaction]
  BY <1>3, <1>4, ContinueFacts
<1>6. /\ n.op = "poll" /\ n.at = "answer" /\ n.targets = {} /\ n.todo = {}
      /\ n.rows = {} /\ n.batch = None /\ n.found = None /\ n.batches = {}
      /\ n.draft = [u \in Task |-> None] /\ n.item = NoMembers /\ n.view = v
  BY <1>1, IdleIsTransaction, IdleFields DEF Transaction
<1> HIDE DEF n
<1>7. QED
  BY <1>4, <1>5, <1>6 DEF v

LEMMA SettleTaskFacts ==
    ASSUME TypeOK, NEW x \in Txn, NEW s \in TaskStatus, SettleTask(x, s)
    PROVE  LET r == run[x] n == run'[x] IN
           /\ run' \in [Txn -> Transaction] /\ Others(x)
           /\ r.op = "settle" /\ r.at = "lock" /\ n.op = "settle" /\ n.at = "refresh"
           /\ n.targets = r.targets /\ n.rows = {} /\ n.batch = r.batch
           /\ n.found = r.found /\ n.batches = r.batches /\ n.item = r.item
           /\ n.view = r.view
           /\ WaitsFor(x) = {}
           /\ \E t \in r.rows :
                  /\ t \in Task /\ status[t] \in Active
                  /\ n.todo = {t} /\ n.draft = [r.draft EXCEPT ![t] = s]
                  /\ row' = [row EXCEPT ![t] = x]
           /\ UNCHANGED <<committed, advisory, share, batchRow>>
<1> DEFINE r == run[x]
<1>1. r \in Transaction
  BY DEF TypeOK
<1>2. PICK t \in r.rows :
          /\ status[t] \in {"processing", "pending"}
          /\ row' = [row EXCEPT ![t] = x]
          /\ Continue(x, [r EXCEPT !.at = "refresh", !.rows = {},
                                   !.draft[t] = s, !.todo = {t}])
  BY DEF SettleTask
<1> DEFINE d == [r.draft EXCEPT ![t] = s]
           n == [r EXCEPT !.at = "refresh", !.rows = {}, !.draft[t] = s, !.todo = {t}]
<1>3. t \in Task
  BY <1>1 DEF Transaction
<1>4. n = [r EXCEPT !.at = "refresh", !.rows = {}, !.draft = d, !.todo = {t}]
  BY <1>1 DEF Transaction
<1>5. d \in [Task -> TaskStatus \cup {None}]
  BY <1>1 DEF Transaction
<1> HIDE DEF d
<1>6. n \in Transaction
  BY <1>1, <1>3, <1>4, <1>5 DEF Transaction, Label
<1>7. run'[x] = n /\ Others(x) /\ run' \in [Txn -> Transaction]
  BY <1>2, <1>6, ContinueFacts
<1>8. QED
  BY <1>1, <1>2, <1>3, <1>4, <1>7 DEF SettleTask, Transaction, d, Active

\* The one row a settling locks and writes.
LEMMA SettleTaskRow ==
    ASSUME TypeOK, NEW x \in Txn, NEW s \in TaskStatus, SettleTask(x, s)
    PROVE  \E t \in run[x].rows : /\ t \in Task
                                 /\ run'[x].todo = {t}
                                 /\ row' = [row EXCEPT ![t] = x]
<1>1. \E t \in run[x].rows :
          /\ t \in Task /\ status[t] \in Active
          /\ run'[x].todo = {t} /\ run'[x].draft = [run[x].draft EXCEPT ![t] = s]
          /\ row' = [row EXCEPT ![t] = x]
  BY SettleTaskFacts
<1>2. QED
  BY <1>1

LEMMA SelectTasksFacts ==
    ASSUME TypeOK, NEW x \in Txn, SelectTasks(x)
    PROVE  LET r == run[x] n == run'[x] IN
           /\ run' \in [Txn -> Transaction] /\ Others(x)
           /\ r.op = "cancel" /\ r.at = "advisory" /\ r.targets = {}
           /\ n.op = "cancel" /\ n.targets = {} /\ n.todo = {} /\ n.batch = r.batch
           /\ n.found = r.found /\ n.batches = r.batches /\ n.draft = r.draft
           /\ n.item = r.item /\ n.view = r.view
           /\ n.rows = UNION {ActiveTasks(g) : g \in r.todo}
           /\ n.at = LockOrRefresh(n.rows)
           /\ UNCHANGED <<committed, locks>>
<1> DEFINE r == run[x]
           rows == UNION {ActiveTasks(g) : g \in r.todo}
           n == [r EXCEPT !.at = LockOrRefresh(rows), !.todo = {}, !.rows = rows]
<1>1. r \in Transaction
  BY DEF TypeOK
<1>2. /\ r.op = "cancel" /\ r.at = "advisory" /\ r.targets = {}
      /\ Continue(x, n) /\ UNCHANGED <<committed, locks>>
  BY DEF SelectTasks
<1>3. rows \subseteq Task
  BY DEF ActiveTasks
<1> HIDE DEF rows
<1>4. LockOrRefresh(rows) \in Label
  BY DEF LockOrRefresh, Label
<1>5. n \in Transaction
  BY <1>1, <1>3, <1>4 DEF Transaction
<1>6. run'[x] = n /\ Others(x) /\ run' \in [Txn -> Transaction]
  BY <1>2, <1>5, ContinueFacts
<1>7. QED
  BY <1>1, <1>2, <1>6 DEF Transaction, rows

LEMMA LockTaskFacts ==
    ASSUME TypeOK, NEW x \in Txn, LockTask(x), run[x].rows # {}
    PROVE  LET r == run[x] n == run'[x] t == Min(run[x].rows) IN
           /\ run' \in [Txn -> Transaction] /\ Others(x)
           /\ r.op = "cancel" /\ r.at = "lock" /\ n.op = "cancel"
           /\ t \in r.rows /\ t \in Task
           /\ n.targets = r.targets /\ n.batch = r.batch
           /\ n.found = r.found /\ n.batches = r.batches
           /\ n.item = r.item /\ n.view = r.view
           /\ n.rows = r.rows \ {t} /\ n.at = LockOrRefresh(n.rows)
           /\ WaitsFor(x) = {}
           /\ \/ /\ status[t] \in Active
                 /\ n.todo = r.todo \cup {t}
                 /\ n.draft = [r.draft EXCEPT ![t] = "cancelled"]
                 /\ row' = [row EXCEPT ![t] = x]
              \/ n.todo = r.todo /\ n.draft = r.draft /\ row' = row
           /\ UNCHANGED <<committed, advisory, share, batchRow>>
<1> DEFINE r == run[x]
           t == Min(r.rows)
           next == [r EXCEPT !.rows = @ \ {t}, !.at = LockOrRefresh(r.rows \ {t})]
<1>1. r \in Transaction
  BY DEF TypeOK
<1>2. /\ r.op = "cancel" /\ r.at = "lock" /\ WaitsFor(x) = {}
      /\ UNCHANGED <<committed, advisory, share, batchRow>>
  BY DEF LockTask
<1>3. \/ /\ status[t] \in Active
         /\ row' = [row EXCEPT ![t] = x]
         /\ Continue(x, [next EXCEPT !.todo = @ \cup {t}, !.draft[t] = "cancelled"])
      \/ Continue(x, next) /\ row' = row
  BY DEF LockTask
<1>t. t \in r.rows /\ t \in Task
  <2>1. r.rows \in SUBSET Task /\ r.rows \in SUBSET Nat
    BY <1>1, TransactionsAssumption DEF Transaction
  <2>2. QED
    BY <2>1, MinIsLeast
<1> HIDE DEF t
<1>4. LockOrRefresh(r.rows \ {t}) \in Label
  BY DEF LockOrRefresh, Label
<1>5. next \in Transaction
  BY <1>1, <1>4 DEF Transaction
<1>6. CASE Continue(x, next) /\ row' = row
  <2>1. run'[x] = next /\ Others(x) /\ run' \in [Txn -> Transaction]
    BY <1>5, <1>6, ContinueFacts
  <2>2. QED
    BY <1>1, <1>2, <1>t, <1>6, <2>1 DEF Transaction, t
<1>7. CASE /\ status[t] \in Active
           /\ row' = [row EXCEPT ![t] = x]
           /\ Continue(x, [next EXCEPT !.todo = @ \cup {t}, !.draft[t] = "cancelled"])
  <2> DEFINE d == [r.draft EXCEPT ![t] = "cancelled"]
             n == [next EXCEPT !.todo = @ \cup {t}, !.draft[t] = "cancelled"]
  <2>1. next.todo = r.todo /\ next.draft = r.draft
    BY <1>1 DEF Transaction
  <2>2. n = [next EXCEPT !.todo = r.todo \cup {t}, !.draft = d]
    BY <1>5, <2>1 DEF Transaction
  <2>3. d \in [Task -> TaskStatus \cup {None}]
    BY <1>1 DEF Transaction, TaskStatus, Terminal
  <2> HIDE DEF d
  <2>4. r.todo \cup {t} \in SUBSET (Target \cup Task)
    BY <1>1, <1>t DEF Transaction
  <2> HIDE DEF next
  <2>5. n \in Transaction
    BY <1>5, <2>2, <2>3, <2>4 DEF Transaction
  <2>6. run'[x] = n /\ Others(x) /\ run' \in [Txn -> Transaction]
    BY <1>7, <2>5, ContinueFacts
  <2>7. /\ next.op = r.op /\ next.targets = r.targets /\ next.batch = r.batch
        /\ next.found = r.found /\ next.batches = r.batches
        /\ next.item = r.item /\ next.view = r.view
        /\ next.rows = r.rows \ {t} /\ next.at = LockOrRefresh(r.rows \ {t})
    BY <1>1 DEF Transaction, next
  <2>8. /\ n.op = r.op /\ n.targets = r.targets /\ n.batch = r.batch
        /\ n.found = r.found /\ n.batches = r.batches
        /\ n.item = r.item /\ n.view = r.view
        /\ n.rows = r.rows \ {t} /\ n.at = LockOrRefresh(r.rows \ {t})
        /\ n.todo = r.todo \cup {t} /\ n.draft = d
    BY <1>5, <2>2, <2>7 DEF Transaction
  <2> HIDE DEF n
  <2>9. QED
    BY <1>2, <1>t, <1>7, <2>6, <2>8 DEF t, d
<1>8. QED
  BY <1>3, <1>6, <1>7

\* FailExhausted and TakeClaimable end alike.
LEMMA TakeRowsFacts ==
    ASSUME TypeOK, NEW x \in Txn, NEW T \in SUBSET Task, NEW s \in TaskStatus,
           NEW op \in Op, TakeRows(x, T, s, op)
    PROVE  LET r == run[x] n == run'[x] IN
           /\ run' \in [Txn -> Transaction] /\ Others(x)
           /\ n.op = op /\ n.at = "refresh" /\ n.todo = T
           /\ n.targets = r.targets /\ n.rows = r.rows /\ n.batch = r.batch
           /\ n.found = r.found /\ n.batches = r.batches
           /\ n.item = r.item /\ n.view = r.view
           /\ \A t \in Task : n.draft[t] = IF t \in T THEN s ELSE r.draft[t]
           /\ T \subseteq Unlocked(x)
           /\ \A t \in Task : row'[t] = IF t \in T THEN x ELSE row[t]
           /\ UNCHANGED <<committed, advisory, share, batchRow>>
<1> DEFINE r == run[x]
           d == [t \in Task |-> IF t \in T THEN s ELSE r.draft[t]]
           n == [r EXCEPT !.op = op, !.at = "refresh", !.todo = T, !.draft = d]
<1>1. r \in Transaction
  BY DEF TypeOK
<1>2. /\ T \subseteq Unlocked(x)
      /\ row' = [t \in Task |-> IF t \in T THEN x ELSE row[t]]
      /\ Continue(x, n)
      /\ UNCHANGED <<committed, advisory, share, batchRow>>
  BY DEF TakeRows
<1>3. d \in [Task -> TaskStatus \cup {None}]
  BY <1>1 DEF Transaction
<1> HIDE DEF d
<1>4. n \in Transaction
  BY <1>1, <1>3 DEF Transaction, Label
<1>5. run'[x] = n /\ Others(x) /\ run' \in [Txn -> Transaction]
  BY <1>2, <1>4, ContinueFacts
<1>6. QED
  BY <1>1, <1>2, <1>5 DEF Transaction, d

LEMMA FindBatchIdsFacts ==
    ASSUME TypeOK, NEW x \in Txn, FindBatchIds(x)
    PROVE  LET r == run[x] n == run'[x] IN
           /\ run' \in [Txn -> Transaction] /\ Others(x)
           /\ r.at = "refresh" /\ r.batches = {} /\ n.op = r.op /\ n.at = "refresh"
           /\ n.targets = r.targets /\ n.rows = r.rows /\ n.batch = r.batch
           /\ n.found = r.found /\ n.draft = r.draft
           /\ n.item = r.item /\ n.view = r.view
           /\ \E t \in r.todo :
                  /\ n.todo = r.todo \ {t}
                  /\ n.batches = {b \in Batch : \E g \in Target : item[b][g] = t}
           /\ UNCHANGED <<committed, locks>>
<1> DEFINE r == run[x]
<1>1. r \in Transaction
  BY DEF TypeOK
<1>2. /\ r.at = "refresh" /\ r.batches = {} /\ r.todo # {} /\ UNCHANGED <<committed, locks>>
  BY DEF FindBatchIds
<1>3. PICK t \in NextTask(x) : Continue(x, [r EXCEPT
          !.todo = @ \ {t},
          !.batches = {b \in Batch : \E g \in Target : item[b][g] = t}])
  BY DEF FindBatchIds
<1>4. t \in r.todo
  <2>1. r.op = "cancel" => Min(r.todo) \in r.todo
    <3>1. r.todo \in SUBSET Nat
      BY <1>1, TransactionsAssumption DEF Transaction
    <3>2. QED
      BY <1>2, <3>1, MinIsLeast
  <2>2. QED
    BY <1>3, <2>1 DEF NextTask
<1> DEFINE B == {b \in Batch : \E g \in Target : item[b][g] = t}
           n == [r EXCEPT !.todo = @ \ {t}, !.batches = B]
<1>5. B \subseteq Batch
  OBVIOUS
<1> HIDE DEF B
<1>6. n \in Transaction
  BY <1>1, <1>5 DEF Transaction
<1>7. run'[x] = n /\ Others(x) /\ run' \in [Txn -> Transaction]
  BY <1>3, <1>6, ContinueFacts DEF B
<1>8. QED
  BY <1>1, <1>2, <1>4, <1>7 DEF Transaction, B

LEMMA LockBatchFacts ==
    ASSUME TypeOK, NEW x \in Txn, LockBatch(x)
    PROVE  LET r == run[x] n == run'[x] b == Min(run[x].batches) IN
           /\ run' \in [Txn -> Transaction] /\ Others(x)
           /\ r.at = "refresh" /\ n.at = "count" /\ n.op = r.op
           /\ b \in r.batches /\ b \in Batch /\ n.batch = b /\ n.batches = r.batches \ {b}
           /\ n.targets = r.targets /\ n.todo = r.todo /\ n.rows = r.rows
           /\ n.found = r.found /\ n.draft = r.draft
           /\ n.item = r.item /\ n.view = r.view
           /\ WaitsFor(x) = {}
           /\ batchRow' = [batchRow EXCEPT ![b] = x]
           /\ UNCHANGED <<committed, advisory, row, share>>
<1> DEFINE r == run[x]
           b == Min(r.batches)
           n == [r EXCEPT !.at = "count", !.batch = b, !.batches = @ \ {b}]
<1>1. r \in Transaction
  BY DEF TypeOK
<1>2. /\ r.at = "refresh" /\ r.batches # {} /\ WaitsFor(x) = {}
      /\ batchRow' = [batchRow EXCEPT ![b] = x]
      /\ Continue(x, n)
      /\ UNCHANGED <<committed, advisory, row, share>>
  BY DEF LockBatch
<1>3. b \in r.batches /\ b \in Batch
  <2>1. r.batches \in SUBSET Batch /\ r.batches \in SUBSET Nat
    BY <1>1, TransactionsAssumption DEF Transaction
  <2>2. QED
    BY <1>2, <2>1, MinIsLeast
<1> HIDE DEF b
<1>4. n \in Transaction
  BY <1>1, <1>3 DEF Transaction, Label
<1>5. run'[x] = n /\ Others(x) /\ run' \in [Txn -> Transaction]
  BY <1>2, <1>4, ContinueFacts
<1>6. QED
  BY <1>1, <1>2, <1>3, <1>5 DEF Transaction, b

LEMMA CountTasksFacts ==
    ASSUME TypeOK, NEW x \in Txn, CountTasks(x)
    PROVE  LET r == run[x] n == run'[x] IN
           /\ run' \in [Txn -> Transaction] /\ Others(x)
           /\ r.at = "count" /\ n.at = "refresh" /\ n.op = r.op /\ n.batch = None
           /\ n.targets = r.targets /\ n.todo = r.todo /\ n.rows = r.rows
           /\ n.found = r.found /\ n.batches = r.batches /\ n.draft = r.draft
           /\ n.item = r.item
           /\ n.view = [r.view EXCEPT ![r.batch] = ViewSeen(x, r.batch)]
           /\ UNCHANGED <<committed, locks>>
<1> DEFINE r == run[x]
           v == [r.view EXCEPT ![r.batch] = ViewSeen(x, r.batch)]
           n == [r EXCEPT !.at = "refresh", !.batch = None,
                          !.view[r.batch] = ViewSeen(x, r.batch)]
<1>1. r \in Transaction
  BY DEF TypeOK
<1>2. r.at = "count" /\ Continue(x, n) /\ UNCHANGED <<committed, locks>>
  BY DEF CountTasks
<1>3. n = [r EXCEPT !.at = "refresh", !.batch = None, !.view = v]
  BY <1>1 DEF Transaction
<1>4. v \in [Batch -> View \cup {None}]
  BY <1>1, ViewSeenType DEF Transaction
<1> HIDE DEF v
<1>5. n \in Transaction
  BY <1>1, <1>3, <1>4 DEF Transaction, Label
<1>6. run'[x] = n /\ Others(x) /\ run' \in [Txn -> Transaction]
  BY <1>2, <1>5, ContinueFacts
<1>7. QED
  BY <1>1, <1>2, <1>3, <1>6 DEF Transaction, v

LEMMA ReleaseFacts ==
    ASSUME TypeOK, NEW x \in Txn, Release(x)
    PROVE  /\ run' \in [Txn -> Transaction] /\ Others(x) /\ run'[x] = Idle
           /\ advisory' = [g \in Target |-> IF advisory[g] = x THEN None ELSE advisory[g]]
           /\ row' = [t \in Task |-> IF row[t] = x THEN None ELSE row[t]]
           /\ share' = [t \in Task |-> share[t] \ {x}]
           /\ batchRow' = [b \in Batch |-> IF batchRow[b] = x THEN None ELSE batchRow[b]]
  BY IdleIsTransaction, ContinueFacts DEF Release

\* The guards of WaitsFor exclude each other.
LEMMA WaitsForCases ==
    ASSUME NEW x \in Txn
    PROVE  LET r == run[x] IN
           /\ r.at = "link" => WaitsFor(x) = KeyShareBlockers(r.found) \ {None, x}
           /\ r.at = "lock" => WaitsFor(x) = UpdateBlockers(Min(r.rows)) \ {None, x}
           /\ r.at = "refresh" /\ r.batches # {} =>
                  WaitsFor(x) = {batchRow[Min(r.batches)]} \ {None, x}
           /\ r.at = "advisory" =>
                  \/ WaitsFor(x) = {}
                  \/ WaitsFor(x) = {advisory[g] : g \in NextResource(x)} \ {None, x}
           /\ r.at \notin {"link", "lock", "advisory"}
              /\ (r.at = "refresh" => r.batches = {}) => WaitsFor(x) = {}
<1> DEFINE r == run[x]
<1>1. r.at = "link" => WaitsFor(x) = KeyShareBlockers(r.found) \ {None, x}
  BY DEF WaitsFor
<1>2. r.at = "lock" => WaitsFor(x) = UpdateBlockers(Min(r.rows)) \ {None, x}
  BY DEF WaitsFor
<1>3. r.at = "refresh" /\ r.batches # {} =>
          WaitsFor(x) = {batchRow[Min(r.batches)]} \ {None, x}
  BY DEF WaitsFor
<1>4. r.at = "advisory" =>
          \/ WaitsFor(x) = {}
          \/ WaitsFor(x) = {advisory[g] : g \in NextResource(x)} \ {None, x}
  BY DEF WaitsFor
<1>5. r.at \notin {"link", "lock", "advisory"}
      /\ (r.at = "refresh" => r.batches = {}) => WaitsFor(x) = {}
  BY DEF WaitsFor
<1>6. QED
  BY <1>1, <1>2, <1>3, <1>4, <1>5

-----------------------------------------------------------------------------
(* Types, and what one statement may touch. *)

\* A session that locks task rows has rows to lock, and one that settles a
\* task has only that one.
RowsToLock ==
    \A x \in Txn : run[x].at = "lock" =>
        /\ run[x].rows # {}
        /\ run[x].op = "settle" => \E t \in Task : run[x].rows = {t}

Typed == TypeOK /\ RowsToLock

\* The steps of session x within its transaction.
Own(x) ==
    \/ \E b \in Batch, S \in SUBSET Target \ {{}} : BeginEnqueue(x, b, S)
    \/ \E t \in Task : BeginSettle(x, t)
    \/ \E S \in SUBSET Target \ {{}} : BeginCancel(x, S) \/ CancelMore(x, S)
    \/ \E b \in Batch : BeginPoll(x, b)
    \/ Statement(x)

\* The locks that such a step takes: only for x, and only where the holder
\* is x or nobody (a batch that is being created is not looked at yet).
Takes(x) ==
    /\ advisory' \in [Target -> Txn \cup {None}]
    /\ row' \in [Task -> Txn \cup {None}]
    /\ share' \in [Task -> SUBSET Txn]
    /\ batchRow' \in [Batch -> Txn \cup {None}]
    /\ \A g \in Target :
           advisory'[g] = advisory[g] \/ (advisory[g] = None /\ advisory'[g] = x)
    /\ \A t \in Task :
           \/ row'[t] = row[t]
           \/ row'[t] = x /\ row[t] \in {None, x} /\ share[t] \subseteq {x}
    /\ \A t \in Task :
           \/ share'[t] = share[t]
           \/ share'[t] = share[t] \cup {x} /\ row[t] \in {None, x}
    /\ \A b \in Batch : batchRow'[b] \in {batchRow[b], x}

OwnStep(x) ==
    /\ UNCHANGED <<status, target, item, view>>
    /\ run' \in [Txn -> Transaction] /\ Others(x)
    /\ run'[x].at # "none"
    /\ Takes(x)

LEMMA NoLocksTaken ==
    ASSUME TypeOK, NEW x \in Txn, UNCHANGED locks
    PROVE  Takes(x)
  BY DEF TypeOK, Takes, locks

LEMMA TakeRowsOwnStep ==
    ASSUME TypeOK, NEW x \in Txn, NEW T \in SUBSET Task, NEW s \in TaskStatus,
           NEW op \in Op, TakeRows(x, T, s, op)
    PROVE  OwnStep(x)
<1>a. run' \in [Txn -> Transaction] /\ Others(x) /\ run'[x].at = "refresh"
  BY TakeRowsFacts
<1>1. /\ run' \in [Txn -> Transaction] /\ Others(x) /\ run'[x].at = "refresh"
      /\ T \subseteq Unlocked(x)
      /\ row' = [t \in Task |-> IF t \in T THEN x ELSE row[t]]
      /\ UNCHANGED <<committed, advisory, share, batchRow>>
  BY <1>a DEF TakeRows
<1>2. \A t \in T : row[t] \in {None, x} /\ share[t] \subseteq {None, x}
  BY <1>1 DEF Unlocked, UpdateBlockers
<1>3. \A t \in T : share[t] \subseteq {x}
  BY <1>2, TransactionsAssumption DEF TypeOK
<1>4. Takes(x)
  BY <1>1, <1>2, <1>3 DEF Takes, TypeOK
<1>5. QED
  BY <1>1, <1>4 DEF OwnStep, committed

LEMMA OwnSteps ==
    ASSUME Typed, NEW x \in Txn, Own(x)
    PROVE  OwnStep(x)
<1> USE DEF Typed
<1>1. ASSUME UNCHANGED <<committed, locks>>, run' \in [Txn -> Transaction],
             Others(x), run'[x].at # "none"
      PROVE  OwnStep(x)
  BY <1>1, NoLocksTaken DEF OwnStep, committed
<1>2. ASSUME NEW b \in Batch, NEW S \in SUBSET Target, BeginEnqueue(x, b, S)
      PROVE  OwnStep(x)
  BY <1>1, <1>2, BeginEnqueueFacts
<1>3. ASSUME NEW t \in Task, BeginSettle(x, t)
      PROVE  OwnStep(x)
  BY <1>1, <1>3, BeginSettleFacts
<1>4. ASSUME NEW S \in SUBSET Target, BeginCancel(x, S) \/ CancelMore(x, S)
      PROVE  OwnStep(x)
  BY <1>1, <1>4, BeginCancelFacts, CancelMoreFacts
<1>5. ASSUME NEW b \in Batch, BeginPoll(x, b)
      PROVE  OwnStep(x)
  BY <1>1, <1>5, BeginPollFacts
<1>6. CASE LockResource(x)
  <2>1. /\ run' \in [Txn -> Transaction] /\ Others(x) /\ run'[x].at = "advisory"
        /\ UNCHANGED <<committed, row, share, batchRow>>
    BY <1>6, LockResourceFacts
  <2>2. PICK g \in run[x].targets :
            advisory[g] = None /\ advisory' = [advisory EXCEPT ![g] = x]
    BY <1>6, LockResourceFacts
  <2>3. Takes(x)
    BY <2>1, <2>2 DEF Takes, TypeOK
  <2>4. QED
    BY <2>1, <2>3 DEF OwnStep, committed
<1>7. CASE LookUpTask(x)
  <2>1. /\ run' \in [Txn -> Transaction] /\ Others(x) /\ run'[x].at = "link"
        /\ batchRow' = [batchRow EXCEPT ![run[x].batch] = x]
        /\ UNCHANGED <<committed, advisory, row, share>>
    BY <1>7, LookUpTaskFacts
  <2>2. Takes(x)
    BY <2>1 DEF Takes, TypeOK
  <2>3. QED
    BY <2>1, <2>2 DEF OwnStep, committed
<1>8. CASE LinkBatchItem(x)
  <2>1. /\ run' \in [Txn -> Transaction] /\ Others(x) /\ run'[x].at = "advisory"
        /\ WaitsFor(x) = {} /\ run[x].at = "link"
        /\ share' = [share EXCEPT ![run[x].found] = @ \cup {x}]
        /\ UNCHANGED <<committed, advisory, row, batchRow>>
    BY <1>8, LinkBatchItemFacts
  <2>2. row[run[x].found] \in {None, x}
    <3>1. WaitsFor(x) = KeyShareBlockers(run[x].found) \ {None, x}
      BY <2>1, WaitsForCases
    <3>2. QED
      BY <2>1, <3>1 DEF KeyShareBlockers
  <2>3. Takes(x)
    BY <2>1, <2>2 DEF Takes, TypeOK
  <2>4. QED
    BY <2>1, <2>3 DEF OwnStep, committed
<1>9. CASE SealBatch(x)
  BY <1>1, <1>9, SealBatchFacts
<1>10. ASSUME NEW s \in TaskStatus, SettleTask(x, s)
       PROVE  OwnStep(x)
  <2>1. /\ run' \in [Txn -> Transaction] /\ Others(x) /\ run'[x].at = "refresh"
        /\ run[x].op = "settle" /\ run[x].at = "lock" /\ WaitsFor(x) = {}
        /\ UNCHANGED <<committed, advisory, share, batchRow>>
    BY <1>10, SettleTaskFacts
  <2>2. PICK t \in run[x].rows : t \in Task /\ row' = [row EXCEPT ![t] = x]
    BY <1>10, SettleTaskRow
  <2>3. Min(run[x].rows) = t
    <3>1. run[x].rows = {t}
      BY <2>1, <2>2 DEF RowsToLock
    <3>2. {t} \in SUBSET Nat
      BY <2>2, TransactionsAssumption
    <3>3. QED
      BY <3>1, <3>2, MinIsLeast
  <2>4. row[t] \in {None, x} /\ share[t] \subseteq {None, x}
    BY <2>1, <2>3, WaitsForCases DEF UpdateBlockers
  <2>5. share[t] \subseteq {x}
    BY <2>2, <2>4, TransactionsAssumption DEF TypeOK
  <2>6. Takes(x)
    BY <2>1, <2>2, <2>4, <2>5 DEF Takes, TypeOK
  <2>7. QED
    BY <2>1, <2>6 DEF OwnStep, committed
<1>11. CASE SelectTasks(x)
  <2>1. run'[x].at # "none"
    BY <1>11, SelectTasksFacts DEF LockOrRefresh
  <2>2. QED
    BY <1>1, <1>11, <2>1, SelectTasksFacts
<1>12. CASE LockTask(x)
  <2> DEFINE t == Min(run[x].rows)
  <2>0. run[x].rows # {}
    BY <1>12 DEF LockTask, RowsToLock
  <2>1. /\ run' \in [Txn -> Transaction] /\ Others(x)
        /\ run'[x].at = LockOrRefresh(run'[x].rows)
        /\ run[x].at = "lock" /\ WaitsFor(x) = {} /\ t \in Task
        /\ row' = [row EXCEPT ![t] = x] \/ row' = row
        /\ UNCHANGED <<committed, advisory, share, batchRow>>
    BY <1>12, <2>0, LockTaskFacts
  <2>2. row[t] \in {None, x} /\ share[t] \subseteq {None, x}
    BY <2>1, WaitsForCases DEF UpdateBlockers
  <2> HIDE DEF t
  <2>3. share[t] \subseteq {x}
    BY <2>1, <2>2, TransactionsAssumption DEF TypeOK
  <2>4. Takes(x)
    BY <2>1, <2>2, <2>3 DEF Takes, TypeOK
  <2>5. run'[x].at # "none"
    BY <2>1 DEF LockOrRefresh
  <2>6. QED
    BY <2>1, <2>4, <2>5 DEF OwnStep, committed
<1>13. ASSUME NEW T \in SUBSET Task, FailExhausted(x, T) \/ TakeClaimable(x, T)
       PROVE  OwnStep(x)
  <2>1. "failed" \in TaskStatus /\ "processing" \in TaskStatus
        /\ "exhaust" \in Op /\ "claim" \in Op
    BY DEF TaskStatus, Active, Terminal, Op
  <2>2. QED
    BY <1>13, <2>1, TakeRowsOwnStep DEF FailExhausted, TakeClaimable
<1>14. CASE FindBatchIds(x)
  BY <1>1, <1>14, FindBatchIdsFacts
<1>15. CASE LockBatch(x)
  <2>1. /\ run' \in [Txn -> Transaction] /\ Others(x) /\ run'[x].at = "count"
        /\ batchRow' = [batchRow EXCEPT ![Min(run[x].batches)] = x]
        /\ UNCHANGED <<committed, advisory, row, share>>
    BY <1>15, LockBatchFacts
  <2>2. Takes(x)
    BY <2>1 DEF Takes, TypeOK
  <2>3. QED
    BY <2>1, <2>2 DEF OwnStep, committed
<1>16. CASE CountTasks(x)
  BY <1>1, <1>16, CountTasksFacts
<1>17. QED
  BY <1>2, <1>3, <1>4, <1>5, <1>6, <1>7, <1>8, <1>9, <1>10, <1>11, <1>12, <1>13,
     <1>14, <1>15, <1>16 DEF Own, Statement

LEMMA NextForms ==
    ASSUME [Next]_vars
    PROVE  (\E x \in Txn : Own(x) \/ Commit(x) \/ Rollback(x)) \/ UNCHANGED vars
  BY DEF Next, Own

\* What a commit writes.
LEMMA CommitFacts ==
    ASSUME TypeOK, NEW x \in Txn, Commit(x)
    PROVE  LET r == run[x] IN
           /\ Release(x) /\ r.at = "refresh" /\ r.batches = {} /\ r.todo = {}
           /\ status' \in [Task -> TaskStatus \cup {None}]
           /\ target' \in [Task -> Target \cup {None}]
           /\ item' \in [Batch -> [Target -> Task \cup {None}]]
           /\ view' \in [Batch -> View \cup {None}]
           /\ \A t \in Task : status'[t] = StatusSeen(x, t)
           /\ \A t \in Task :
                  \/ target[t] # None /\ target'[t] = target[t]
                  \/ target[t] = None /\ target'[t] \in Target
                     /\ r.item[target'[t]] = t
                  \/ target[t] = None /\ target'[t] = None
                     /\ \A g \in Target : r.item[g] # t
           /\ \A b \in Batch :
                  item'[b] = IF r.op = "enqueue" /\ b = r.batch THEN r.item ELSE item[b]
           /\ \A b \in Batch :
                  view'[b] = IF r.view[b] # None THEN r.view[b] ELSE view[b]
<1> DEFINE r == run[x]
<1>1. r \in Transaction
  BY DEF TypeOK
<1>2. /\ Release(x) /\ r.at = "refresh" /\ r.batches = {} /\ r.todo = {}
      /\ status' = [t \in Task |-> StatusSeen(x, t)]
      /\ target' = [t \in Task |->
             IF target[t] = None /\ \E g \in Target : r.item[g] = t
             THEN CHOOSE g \in Target : r.item[g] = t
             ELSE target[t]]
      /\ item' = IF r.op = "enqueue" THEN [item EXCEPT ![r.batch] = r.item] ELSE item
      /\ view' = [b \in Batch |-> IF r.view[b] # None THEN r.view[b] ELSE view[b]]
  BY DEF Commit, Refreshed
<1>3. /\ status' \in [Task -> TaskStatus \cup {None}]
      /\ \A t \in Task : status'[t] = StatusSeen(x, t)
  <2>1. \A t \in Task : StatusSeen(x, t) \in TaskStatus \cup {None}
    BY <1>1 DEF StatusSeen, TypeOK, Transaction
  <2>2. QED
    BY <1>2, <2>1
<1>4. ASSUME NEW t \in Task
      PROVE  \/ target[t] # None /\ target'[t] = target[t]
             \/ target[t] = None /\ target'[t] \in Target /\ r.item[target'[t]] = t
             \/ target[t] = None /\ target'[t] = None /\ \A g \in Target : r.item[g] # t
  <2> DEFINE g0 == CHOOSE g \in Target : r.item[g] = t
  <2>1. (\E g \in Target : r.item[g] = t) => g0 \in Target /\ r.item[g0] = t
    OBVIOUS
  <2>2. target'[t] = IF target[t] = None /\ \E g \in Target : r.item[g] = t
                     THEN g0 ELSE target[t]
    BY <1>2
  <2> HIDE DEF g0
  <2>3. QED
    BY <2>1, <2>2
<1>5. target' \in [Task -> Target \cup {None}]
  <2>1. \A t \in Task : target'[t] \in Target \cup {None}
    BY <1>4 DEF TypeOK
  <2> DEFINE f == [t \in Task |->
             IF target[t] = None /\ \E g \in Target : r.item[g] = t
             THEN CHOOSE g \in Target : r.item[g] = t
             ELSE target[t]]
  <2>2. target' = f /\ f = [t \in Task |-> f[t]]
    BY <1>2
  <2> HIDE DEF f
  <2>3. QED
    BY <2>1, <2>2
<1>6. /\ item' \in [Batch -> [Target -> Task \cup {None}]]
      /\ \A b \in Batch :
             item'[b] = IF r.op = "enqueue" /\ b = r.batch THEN r.item ELSE item[b]
  <2>1. /\ r.item \in [Target -> Task \cup {None}]
        /\ item \in [Batch -> [Target -> Task \cup {None}]]
    BY <1>1 DEF TypeOK, Transaction
  <2>2. QED
    BY <1>2, <2>1
<1>7. /\ view' \in [Batch -> View \cup {None}]
      /\ \A b \in Batch : view'[b] = IF r.view[b] # None THEN r.view[b] ELSE view[b]
  <2>1. r.view \in [Batch -> View \cup {None}] /\ view \in [Batch -> View \cup {None}]
    BY <1>1 DEF TypeOK, Transaction
  <2>2. QED
    BY <1>2, <2>1
<1>8. QED
  BY <1>2, <1>3, <1>4, <1>5, <1>6, <1>7

LEMMA TypedStep ==
    ASSUME Typed, [Next]_vars
    PROVE  Typed'
<1> USE DEF Typed
<1>1. ASSUME NEW x \in Txn, Release(x),
             status' \in [Task -> TaskStatus \cup {None}],
             target' \in [Task -> Target \cup {None}],
             item' \in [Batch -> [Target -> Task \cup {None}]],
             view' \in [Batch -> View \cup {None}]
      PROVE  Typed'
  <2>1. /\ run' \in [Txn -> Transaction] /\ Others(x) /\ run'[x] = Idle
        /\ advisory' = [g \in Target |-> IF advisory[g] = x THEN None ELSE advisory[g]]
        /\ row' = [t \in Task |-> IF row[t] = x THEN None ELSE row[t]]
        /\ share' = [t \in Task |-> share[t] \ {x}]
        /\ batchRow' = [b \in Batch |-> IF batchRow[b] = x THEN None ELSE batchRow[b]]
    BY <1>1, ReleaseFacts
  <2>2. /\ advisory' \in [Target -> Txn \cup {None}] /\ row' \in [Task -> Txn \cup {None}]
        /\ share' \in [Task -> SUBSET Txn] /\ batchRow' \in [Batch -> Txn \cup {None}]
    BY <2>1 DEF TypeOK
  <2>3. x # None
    BY TransactionsAssumption
  <2>4. ASSUME NEW y \in Txn, run'[y] = Idle
        PROVE  /\ \A g \in Target : advisory'[g] # y
               /\ \A t \in Task : row'[t] # y /\ y \notin share'[t]
               /\ \A b \in Batch : batchRow'[b] # y
    <3>1. CASE y = x
      BY <2>1, <2>3, <3>1
    <3>2. CASE y # x
      <4>1. run[y] = Idle
        BY <2>1, <2>4, <3>2 DEF Others
      <4>2. y # None
        BY TransactionsAssumption
      <4>3. QED
        BY <2>1, <4>1, <4>2 DEF TypeOK
    <3>3. QED
      BY <3>1, <3>2
  <2>5. RowsToLock'
    <3>1. ASSUME NEW y \in Txn, run'[y].at = "lock"
          PROVE  y # x /\ run'[y] = run[y]
      BY <2>1, <3>1, IdleFields DEF Others
    <3>2. QED
      BY <3>1 DEF RowsToLock
  <2>6. QED
    BY <1>1, <2>1, <2>2, <2>4, <2>5 DEF TypeOK
<1>2. ASSUME NEW x \in Txn, Own(x)
      PROVE  Typed'
  <2>1. OwnStep(x)
    BY <1>2, OwnSteps
  <2>2. /\ UNCHANGED <<status, target, item, view>>
        /\ run' \in [Txn -> Transaction] /\ run'[x].at # "none"
        /\ \A y \in Txn \ {x} : run'[y] = run[y]
    BY <2>1 DEF OwnStep, Others
  <2>3. ASSUME NEW y \in Txn, run'[y] = Idle
        PROVE  /\ \A g \in Target : advisory'[g] # y
               /\ \A t \in Task : row'[t] # y /\ y \notin share'[t]
               /\ \A b \in Batch : batchRow'[b] # y
    <3>1. y # x /\ run[y] = Idle
      BY <2>2, <2>3, IdleFields
    <3>2. /\ \A g \in Target : advisory[g] # y
          /\ \A t \in Task : row[t] # y /\ y \notin share[t]
          /\ \A b \in Batch : batchRow[b] # y
      BY <3>1 DEF TypeOK
    <3>3. Takes(x)
      BY <2>1 DEF OwnStep
    <3>4. QED
      BY <3>1, <3>2, <3>3 DEF Takes
  <2>4. TypeOK'
    BY <2>1, <2>2, <2>3 DEF TypeOK, OwnStep, Takes
  <2>5. RowsToLock'
    <3>1. run'[x].at = "lock" => /\ run'[x].rows # {}
                                 /\ run'[x].op = "settle" => \E t \in Task : run'[x].rows = {t}
      <4>1. CASE \E b \in Batch, S \in SUBSET Target \ {{}} : BeginEnqueue(x, b, S)
        BY <4>1, BeginEnqueueFacts
      <4>2. CASE \E t \in Task : BeginSettle(x, t)
        BY <4>2, BeginSettleFacts
      <4>3. CASE \E S \in SUBSET Target \ {{}} : BeginCancel(x, S) \/ CancelMore(x, S)
        BY <4>3, BeginCancelFacts, CancelMoreFacts
      <4>4. CASE \E b \in Batch : BeginPoll(x, b)
        BY <4>4, BeginPollFacts
      <4>5. CASE LockResource(x)
        BY <4>5, LockResourceFacts
      <4>6. CASE LookUpTask(x)
        BY <4>6, LookUpTaskFacts
      <4>7. CASE LinkBatchItem(x)
        BY <4>7, LinkBatchItemFacts
      <4>8. CASE SealBatch(x)
        BY <4>8, SealBatchFacts
      <4>9. CASE \E s \in TaskStatus : SettleTask(x, s)
        BY <4>9, SettleTaskFacts
      <4>10. CASE SelectTasks(x)
        BY <4>10, SelectTasksFacts DEF LockOrRefresh
      <4>11. CASE LockTask(x)
        <5>1. run[x].rows # {}
          BY <4>11 DEF LockTask, RowsToLock
        <5>2. run'[x].at = LockOrRefresh(run'[x].rows) /\ run'[x].op = "cancel"
          BY <4>11, <5>1, LockTaskFacts
        <5>3. QED
          BY <5>2 DEF LockOrRefresh
      <4>12. CASE \E T \in SUBSET Task : FailExhausted(x, T) \/ TakeClaimable(x, T)
        <5>1. ASSUME NEW T \in SUBSET Task, NEW s \in TaskStatus, NEW op \in Op,
                     TakeRows(x, T, s, op)
              PROVE  run'[x].at = "refresh"
          BY <5>1, TakeRowsFacts
        <5>2. "failed" \in TaskStatus /\ "processing" \in TaskStatus
              /\ "exhaust" \in Op /\ "claim" \in Op
          BY DEF TaskStatus, Active, Terminal, Op
        <5>3. run'[x].at = "refresh"
          BY <4>12, <5>1, <5>2 DEF FailExhausted, TakeClaimable
        <5>4. QED
          BY <5>3
      <4>13. CASE FindBatchIds(x)
        BY <4>13, FindBatchIdsFacts
      <4>14. CASE LockBatch(x)
        BY <4>14, LockBatchFacts
      <4>15. CASE CountTasks(x)
        BY <4>15, CountTasksFacts
      <4>16. QED
        BY <1>2, <4>1, <4>2, <4>3, <4>4, <4>5, <4>6, <4>7, <4>8, <4>9, <4>10, <4>11,
           <4>12, <4>13, <4>14, <4>15 DEF Own, Statement
    <3>2. QED
      BY <2>2, <3>1 DEF RowsToLock
  <2>6. QED
    BY <2>4, <2>5
<1>3. CASE \E x \in Txn : Own(x) \/ Commit(x) \/ Rollback(x)
  <2>1. ASSUME NEW x \in Txn, Commit(x) PROVE Typed'
    BY <1>1, <2>1, CommitFacts
  <2>2. ASSUME NEW x \in Txn, Rollback(x) PROVE Typed'
    BY <1>1, <2>2 DEF Rollback, committed, TypeOK
  <2>3. QED
    BY <1>2, <1>3, <2>1, <2>2
<1>4. CASE UNCHANGED vars
  BY <1>4 DEF vars, committed, locks, TypeOK, RowsToLock
<1>5. QED
  BY <1>3, <1>4, NextForms

LEMMA TypedCorrect == Spec => []Typed
<1>1. Init => Typed
  <2> SUFFICES ASSUME Init PROVE Typed
    OBVIOUS
  <2>1. NoMembers \in [Target -> Task \cup {None}]
    BY DEF NoMembers
  <2>2. TypeOK
    BY <2>1, IdleIsTransaction, TransactionsAssumption DEF Init, TypeOK
  <2>3. RowsToLock
    BY IdleFields DEF Init, RowsToLock
  <2>4. QED
    BY <2>2, <2>3 DEF Typed
<1>2. Typed /\ [Next]_vars => Typed'
  BY TypedStep
<1>3. QED
  BY <1>1, <1>2, PTL DEF Spec

\* Rows, locks and transactions are well formed in every reachable state, and
\* a session without a transaction holds no lock.
THEOREM TransactionsTypeCorrect == Spec => []TypeOK
<1>1. Typed => TypeOK
  BY DEF Typed
<1>2. QED
  BY <1>1, TypedCorrect, PTL

-----------------------------------------------------------------------------
(* What a transaction's fields hold, by its function and next statement. *)

\* The functions that lock and write existing task rows.
TaskOps == {"settle", "cancel", "exhaust", "claim"}

Drafted(x, t) == run[x].draft[t] # None
NoDrafts(x) == \A t \in Task : run[x].draft[t] = None
NoViews(x) == \A b \in Batch : run[x].view[b] = None

\* Session x has linked task t in the batch it creates.
Linked(x, t) == \E g \in Target : run[x].item[g] = t

EnqueueShape(x) ==
    LET r == run[x]
    IN  r.op = "enqueue" =>
        /\ r.at \in {"advisory", "link", "refresh"}
        /\ r.batches = {} /\ r.batch \in Batch
        /\ r.todo \subseteq Target /\ r.targets \subseteq r.todo
        /\ r.at = "link" <=> r.found # None
        /\ r.at = "link" => r.targets = {} /\ r.todo # {}
        /\ r.at = "refresh" => /\ r.todo = {} /\ r.targets = {}
                               /\ r.view[r.batch] # None
        /\ r.targets # {} => r.item = NoMembers /\ NoDrafts(x)
        /\ \A g \in Target : r.item[g] # None => g \notin r.todo
        /\ \A t \in Task : r.draft[t] \in {None, "pending"}
        /\ \A b \in Batch : r.view[b] # None => b = r.batch /\ r.at = "refresh"

TaskShape(x) ==
    LET r == run[x]
    IN  r.op \in TaskOps =>
        /\ r.at \in {"advisory", "lock", "refresh", "count"}
        /\ r.at = "advisory" => /\ r.op = "cancel" /\ r.todo \subseteq Target
                                /\ r.targets \subseteq r.todo /\ r.rows = {}
        /\ r.at = "lock" => r.op \in {"settle", "cancel"}
        /\ r.at = "lock" /\ r.op = "settle" => NoDrafts(x) /\ NoViews(x)
        /\ r.at \in {"advisory", "lock"} => r.batches = {}
        /\ r.at \in {"refresh", "count"} /\ r.op = "cancel" => r.rows = {}
        /\ r.at # "advisory" => \A t \in r.todo : t \in Task /\ Drafted(x, t)
        /\ r.at = "count" => r.batch \in Batch

RestShape(x) ==
    LET r == run[x]
    IN  /\ r.op = "none" => r = Idle
        /\ r.op = "poll" => r.at = "answer" /\ NoDrafts(x)
        /\ r.op # "enqueue" => r.item = NoMembers

ShapeOf(x) == EnqueueShape(x) /\ TaskShape(x) /\ RestShape(x)
Shape == \A x \in Txn : ShapeOf(x)

LEMMA OpCases ==
    ASSUME TypeOK, NEW x \in Txn
    PROVE  \/ run[x].op = "enqueue" \/ run[x].op \in TaskOps
           \/ run[x].op = "poll" \/ run[x].op = "none"
  BY DEF TypeOK, Transaction, Op, TaskOps

LEMMA NoneIsNoView == None \notin View /\ None \notin TaskStatus /\ None \notin Txn
                      /\ None \notin Task /\ None \notin Batch /\ None \notin Target
  BY TransactionsAssumption

\* The labels at which only some functions are.
LEMMA LabelCases ==
    ASSUME TypeOK, Shape, NEW x \in Txn
    PROVE  LET r == run[x] IN
           /\ r.at = "link" => r.op = "enqueue"
           /\ r.at \in {"lock", "count"} => r.op \in TaskOps
           /\ r.at = "advisory" => r.op \in {"enqueue", "cancel"}
           /\ r.at = "refresh" => r.op = "enqueue" \/ r.op \in TaskOps
<1>1. CASE run[x].op = "enqueue"
  BY <1>1 DEF Shape, ShapeOf, EnqueueShape
<1>2. CASE run[x].op \in TaskOps
  BY <1>2 DEF Shape, ShapeOf, TaskShape
<1>3. CASE run[x].op = "poll" \/ run[x].op = "none"
  BY <1>3, IdleFields DEF Shape, ShapeOf, RestShape
<1>4. QED
  BY <1>1, <1>2, <1>3, OpCases

LEMMA ShapeOwnStep ==
    ASSUME Typed, Shape, NEW x \in Txn, Own(x)
    PROVE  ShapeOf(x)'
<1> USE DEF Typed
<1> DEFINE r == run[x]
           n == run'[x]
<1>a. r \in Transaction /\ EnqueueShape(x) /\ TaskShape(x) /\ RestShape(x)
  BY DEF TypeOK, Shape, ShapeOf
<1>b. n \in Transaction
  BY TypedStep, OwnSteps DEF OwnStep
<1>1. ASSUME NEW b \in Batch, NEW S \in SUBSET Target, BeginEnqueue(x, b, S)
      PROVE  ShapeOf(x)'
  <2>1. /\ n.op = "enqueue" /\ n.at = "advisory" /\ n.targets = S /\ n.todo = S
        /\ n.batch = b /\ n.found = None /\ n.batches = {}
        /\ n.draft = [t \in Task |-> None] /\ n.item = NoMembers
        /\ n.view = [c \in Batch |-> None]
    BY <1>1, BeginEnqueueFacts
  <2> HIDE DEF n
  <2>2. QED
    BY <2>1 DEF ShapeOf, EnqueueShape, TaskShape, RestShape, TaskOps, NoDrafts, NoMembers, n
<1>2. ASSUME NEW t \in Task, BeginSettle(x, t)
      PROVE  ShapeOf(x)'
  <2>1. /\ n.op = "settle" /\ n.at = "lock" /\ n.todo = {} /\ n.batches = {}
        /\ n.draft = [u \in Task |-> None] /\ n.item = NoMembers
        /\ n.view = [c \in Batch |-> None]
    BY <1>2, BeginSettleFacts
  <2>2. QED
    BY <2>1 DEF ShapeOf, EnqueueShape, TaskShape, RestShape, TaskOps, NoDrafts, NoViews
<1>3. ASSUME NEW S \in SUBSET Target, BeginCancel(x, S)
      PROVE  ShapeOf(x)'
  <2>1. /\ n.op = "cancel" /\ n.at = "advisory" /\ n.targets = S /\ n.todo = S
        /\ n.rows = {} /\ n.batches = {}
        /\ n.draft = [u \in Task |-> None] /\ n.item = NoMembers
        /\ n.view = [c \in Batch |-> None]
    BY <1>3, BeginCancelFacts
  <2>2. QED
    BY <2>1 DEF ShapeOf, EnqueueShape, TaskShape, RestShape, TaskOps, NoDrafts, NoViews
<1>17. ASSUME NEW S \in SUBSET Target, CancelMore(x, S)
       PROVE  ShapeOf(x)'
  <2>1. /\ r.op = "cancel" /\ r.at = "refresh"
        /\ n.op = "cancel" /\ n.at = "advisory" /\ n.targets = S /\ n.todo = S
        /\ n.rows = r.rows /\ n.batches = {} /\ n.item = r.item
    BY <1>17, CancelMoreFacts
  <2>2. r.rows = {} /\ r.item = NoMembers
    BY <1>a, <2>1 DEF TaskShape, RestShape, TaskOps
  <2>3. QED
    BY <2>1, <2>2 DEF ShapeOf, EnqueueShape, TaskShape, RestShape, TaskOps
<1>4. ASSUME NEW b \in Batch, BeginPoll(x, b)
      PROVE  ShapeOf(x)'
  <2>1. /\ n.op = "poll" /\ n.at = "answer" /\ n.item = NoMembers
        /\ n.draft = [u \in Task |-> None]
    BY <1>4, BeginPollFacts
  <2>2. QED
    BY <2>1 DEF ShapeOf, EnqueueShape, TaskShape, RestShape, TaskOps, NoDrafts
<1>5. CASE LockResource(x)
  <2>1. /\ r.at = "advisory" /\ n.at = "advisory" /\ n.op = r.op
        /\ n.todo = r.todo /\ n.rows = r.rows /\ n.batch = r.batch
        /\ n.found = r.found /\ n.batches = r.batches /\ n.draft = r.draft
        /\ n.item = r.item /\ n.view = r.view
    BY <1>5, LockResourceFacts
  <2>2. n.targets \subseteq r.targets
    BY <1>5, LockResourceFacts
  <2>3. r.op # "none"
    BY <1>a, <2>1, IdleFields DEF RestShape
  <2>4. r.targets # {}
    BY <1>5, LockResourceFacts
  <2>5. EnqueueShape(x)'
    BY <1>a, <2>1, <2>2, <2>4 DEF EnqueueShape, NoDrafts
  <2>6. TaskShape(x)'
    BY <1>a, <2>1, <2>2 DEF TaskShape, NoDrafts, NoViews, Drafted
  <2>7. RestShape(x)'
    BY <1>a, <2>1, <2>3 DEF RestShape, NoDrafts
  <2>8. QED
    BY <2>5, <2>6, <2>7 DEF ShapeOf
<1>6. CASE LookUpTask(x)
  <2>1. /\ r.op = "enqueue" /\ r.at = "advisory" /\ r.targets = {} /\ r.todo # {}
        /\ n.op = "enqueue" /\ n.at = "link" /\ n.targets = {}
        /\ n.todo = r.todo /\ n.rows = r.rows /\ n.batch = r.batch
        /\ n.batches = r.batches /\ n.item = r.item /\ n.view = r.view
        /\ n.found \in Task
        /\ n.draft = r.draft \/ n.draft = [r.draft EXCEPT ![n.found] = "pending"]
    BY <1>6, LookUpTaskFacts
  <2>2. \A t \in Task : n.draft[t] \in {None, "pending"}
    BY <1>a, <2>1 DEF EnqueueShape, Transaction
  <2>3. EnqueueShape(x)'
    BY <1>a, <2>1, <2>2, NoneIsNoView DEF EnqueueShape
  <2>4. QED
    BY <2>1, <2>3 DEF ShapeOf, TaskShape, RestShape, TaskOps
<1>7. CASE LinkBatchItem(x)
  <2>1. /\ r.at = "link" /\ n.at = "advisory" /\ n.op = r.op /\ n.targets = r.targets
        /\ n.todo = r.todo \ {Min(r.todo)} /\ n.batch = r.batch
        /\ n.found = None /\ n.batches = r.batches /\ n.draft = r.draft
        /\ n.item = [r.item EXCEPT ![Min(r.todo)] = r.found] /\ n.view = r.view
    BY <1>7, LinkBatchItemFacts
  <2>2. r.op = "enqueue"
    BY <2>1, LabelCases
  <2>3. \A g \in Target : n.item[g] # None => g \notin n.todo
    BY <1>a, <2>1, <2>2 DEF EnqueueShape, Transaction
  <2>4. r.targets = {}
    BY <1>a, <2>1, <2>2 DEF EnqueueShape
  <2>5. EnqueueShape(x)'
    BY <1>a, <2>1, <2>2, <2>3, <2>4 DEF EnqueueShape
  <2>6. QED
    BY <2>1, <2>2, <2>5 DEF ShapeOf, TaskShape, RestShape, TaskOps
<1>8. CASE SealBatch(x)
  <2>1. /\ r.op = "enqueue" /\ r.at = "advisory" /\ r.targets = {} /\ r.todo = {}
        /\ n.at = "refresh" /\ n.op = "enqueue" /\ n.targets = {}
        /\ n.todo = {} /\ n.rows = r.rows /\ n.batch = r.batch
        /\ n.found = r.found /\ n.batches = r.batches /\ n.draft = r.draft
        /\ n.item = r.item
        /\ n.view = [r.view EXCEPT ![r.batch] = ViewSeen(x, r.batch)]
    BY <1>8, SealBatchFacts
  <2>2. r.batch \in Batch
    BY <1>a, <2>1 DEF EnqueueShape
  <2>3. n.view[n.batch] # None
    BY <1>a, <2>1, <2>2, ViewSeenType, NoneIsNoView DEF Transaction
  <2>4. \A b \in Batch : n.view[b] # None => b = n.batch
    BY <1>a, <2>1, <2>2 DEF EnqueueShape, Transaction
  <2>5. EnqueueShape(x)'
    BY <1>a, <2>1, <2>3, <2>4 DEF EnqueueShape
  <2>6. QED
    BY <2>1, <2>5 DEF ShapeOf, TaskShape, RestShape, TaskOps
<1>9. ASSUME NEW s \in TaskStatus, SettleTask(x, s)
      PROVE  ShapeOf(x)'
  <2>1. /\ r.op = "settle" /\ r.at = "lock" /\ n.op = "settle" /\ n.at = "refresh"
        /\ n.batches = r.batches /\ n.item = r.item
    BY <1>9, SettleTaskFacts
  <2>2. PICK t \in Task : n.todo = {t} /\ n.draft = [r.draft EXCEPT ![t] = s]
    BY <1>9, SettleTaskFacts
  <2>3. n.draft[t] # None
    BY <1>a, <2>2, NoneIsNoView DEF Transaction
  <2>4. TaskShape(x)'
    BY <2>1, <2>2, <2>3 DEF TaskShape, TaskOps, Drafted
  <2>5. QED
    BY <1>a, <2>1, <2>4 DEF ShapeOf, EnqueueShape, RestShape
<1>10. CASE SelectTasks(x)
  <2>1. /\ r.op = "cancel" /\ r.at = "advisory" /\ r.targets = {}
        /\ n.op = "cancel" /\ n.targets = {} /\ n.todo = {} /\ n.batch = r.batch
        /\ n.batches = r.batches /\ n.draft = r.draft /\ n.item = r.item
        /\ n.view = r.view /\ n.at = LockOrRefresh(n.rows)
    BY <1>10, SelectTasksFacts
  <2>2. n.at \in {"lock", "refresh"} /\ (n.at = "refresh" => n.rows = {})
    BY <2>1 DEF LockOrRefresh
  <2>3. TaskShape(x)'
    BY <1>a, <2>1, <2>2 DEF TaskShape, TaskOps, NoViews
  <2>4. QED
    BY <1>a, <2>1, <2>3 DEF ShapeOf, EnqueueShape, RestShape
<1>11. CASE LockTask(x)
  <2> DEFINE t == Min(r.rows)
  <2>0. r.rows # {}
    BY <1>11 DEF LockTask, RowsToLock
  <2>1. /\ r.op = "cancel" /\ r.at = "lock" /\ n.op = "cancel" /\ n.batches = r.batches
        /\ n.item = r.item /\ n.view = r.view /\ n.at = LockOrRefresh(n.rows)
        /\ t \in Task
        /\ \/ n.todo = r.todo \cup {t} /\ n.draft = [r.draft EXCEPT ![t] = "cancelled"]
           \/ n.todo = r.todo /\ n.draft = r.draft
    BY <1>11, <2>0, LockTaskFacts
  <2>2. n.at \in {"lock", "refresh"} /\ (n.at = "refresh" => n.rows = {})
    BY <2>1 DEF LockOrRefresh
  <2> HIDE DEF t
  <2>3. "cancelled" # None
    BY NoneIsNoView DEF TaskStatus, Terminal
  <2>4. \A u \in r.todo : u \in Task /\ r.draft[u] # None
    BY <1>a, <2>1 DEF TaskShape, TaskOps, Drafted
  <2>5. \A u \in n.todo : u \in Task /\ n.draft[u] # None
    BY <1>a, <2>1, <2>3, <2>4 DEF Transaction
  <2>6. TaskShape(x)'
    BY <1>a, <2>1, <2>2, <2>5 DEF TaskShape, TaskOps, NoViews, Drafted
  <2>7. QED
    BY <1>a, <2>1, <2>6 DEF ShapeOf, EnqueueShape, RestShape
<1>12. ASSUME NEW T \in SUBSET Task, FailExhausted(x, T) \/ TakeClaimable(x, T)
       PROVE  ShapeOf(x)'
  <2>1. PICK s \in TaskStatus, op \in {"exhaust", "claim"} : TakeRows(x, T, s, op)
    BY <1>12 DEF FailExhausted, TakeClaimable, TaskStatus, Active, Terminal
  <2>2. op \in Op
    BY DEF Op
  <2>3. /\ n.op = op /\ n.at = "refresh" /\ n.todo = T /\ n.item = r.item
        /\ \A t \in Task : n.draft[t] = IF t \in T THEN s ELSE r.draft[t]
    BY <2>1, <2>2, TakeRowsFacts
  <2>4. \A t \in T : n.draft[t] # None
    BY <2>3, NoneIsNoView
  <2>5. r.item = NoMembers
    BY <1>12, <1>a, IdleFields DEF FailExhausted, TakeClaimable, RestShape
  <2>6. TaskShape(x)'
    BY <2>3, <2>4 DEF TaskShape, TaskOps, Drafted
  <2>7. QED
    BY <2>3, <2>5, <2>6 DEF ShapeOf, EnqueueShape, RestShape
<1>13. CASE FindBatchIds(x)
  <2>1. /\ r.at = "refresh" /\ n.op = r.op /\ n.at = "refresh"
        /\ n.batch = r.batch /\ n.draft = r.draft /\ n.item = r.item
        /\ n.rows = r.rows
    BY <1>13, FindBatchIdsFacts
  <2>2. r.todo # {} /\ n.todo \subseteq r.todo
    BY <1>13, FindBatchIdsFacts
  <2>3. r.op \in TaskOps
    BY <1>a, <2>1, <2>2, LabelCases DEF EnqueueShape
  <2>4. TaskShape(x)'
    BY <1>a, <2>1, <2>2, <2>3 DEF TaskShape, Drafted
  <2>5. QED
    BY <1>a, <2>1, <2>3, <2>4 DEF ShapeOf, EnqueueShape, RestShape, TaskOps
<1>14. CASE LockBatch(x)
  <2>1. /\ r.at = "refresh" /\ n.at = "count" /\ n.op = r.op
        /\ n.batch \in Batch /\ r.batches # {}
        /\ n.todo = r.todo /\ n.draft = r.draft /\ n.item = r.item
        /\ n.rows = r.rows
    BY <1>14, LockBatchFacts
  <2>2. r.op \in TaskOps
    BY <1>a, <2>1, LabelCases DEF EnqueueShape
  <2>3. TaskShape(x)'
    BY <1>a, <2>1, <2>2 DEF TaskShape, Drafted
  <2>4. QED
    BY <1>a, <2>1, <2>2, <2>3 DEF ShapeOf, EnqueueShape, RestShape, TaskOps
<1>15. CASE CountTasks(x)
  <2>1. /\ r.at = "count" /\ n.at = "refresh" /\ n.op = r.op
        /\ n.todo = r.todo /\ n.draft = r.draft /\ n.item = r.item
        /\ n.rows = r.rows
    BY <1>15, CountTasksFacts
  <2>2. r.op \in TaskOps
    BY <2>1, LabelCases
  <2>3. TaskShape(x)'
    BY <1>a, <2>1, <2>2 DEF TaskShape, Drafted
  <2>4. QED
    BY <1>a, <2>1, <2>2, <2>3 DEF ShapeOf, EnqueueShape, RestShape, TaskOps
<1>16. QED
  BY <1>1, <1>2, <1>3, <1>4, <1>5, <1>6, <1>7, <1>8, <1>9, <1>10, <1>11, <1>12, <1>13,
     <1>14, <1>15, <1>17 DEF Own, Statement

\* A transaction that ends leaves an idle session and no lock of its own.
LEMMA EndFacts ==
    ASSUME TypeOK, NEW x \in Txn, Commit(x) \/ Rollback(x)
    PROVE  /\ run' \in [Txn -> Transaction] /\ Others(x) /\ run'[x] = Idle
           /\ \A g \in Target : advisory'[g] = IF advisory[g] = x THEN None ELSE advisory[g]
           /\ \A t \in Task : row'[t] = IF row[t] = x THEN None ELSE row[t]
           /\ \A t \in Task : share'[t] = share[t] \ {x}
           /\ \A b \in Batch : batchRow'[b] = IF batchRow[b] = x THEN None ELSE batchRow[b]
<1>1. Release(x)
  BY DEF Commit, Rollback
<1>2. QED
  BY <1>1, ReleaseFacts

\* The shape of a transaction depends on its own fields only.
LEMMA ShapeKept ==
    ASSUME NEW y \in Txn, ShapeOf(y), run'[y] = run[y]
    PROVE  ShapeOf(y)'
  BY DEF ShapeOf, EnqueueShape, TaskShape, RestShape, NoDrafts, NoViews, Drafted

LEMMA IdleShape ==
    ASSUME NEW x \in Txn, run'[x] = Idle
    PROVE  ShapeOf(x)'
  BY IdleFields DEF ShapeOf, EnqueueShape, TaskShape, RestShape, TaskOps

LEMMA ShapeStep ==
    ASSUME Typed, Shape, [Next]_vars
    PROVE  Shape'
<1>1. ASSUME NEW x \in Txn, Own(x) PROVE Shape'
  <2>1. Others(x)
    BY <1>1, OwnSteps DEF OwnStep
  <2>2. ASSUME NEW y \in Txn PROVE ShapeOf(y)'
    <3>1. CASE y = x
      BY <1>1, <3>1, ShapeOwnStep
    <3>2. CASE y # x
      BY <2>1, <3>2, ShapeKept DEF Shape, Others
    <3>3. QED
      BY <3>1, <3>2
  <2>3. QED
    BY <2>2 DEF Shape
<1>2. ASSUME NEW x \in Txn, Commit(x) \/ Rollback(x) PROVE Shape'
  <2>1. Others(x) /\ run'[x] = Idle
    BY <1>2, EndFacts DEF Typed
  <2>2. ASSUME NEW y \in Txn PROVE ShapeOf(y)'
    <3>1. CASE y = x
      BY <2>1, <3>1, IdleShape
    <3>2. CASE y # x
      BY <2>1, <3>2, ShapeKept DEF Shape, Others
    <3>3. QED
      BY <3>1, <3>2
  <2>3. QED
    BY <2>2 DEF Shape
<1>3. CASE UNCHANGED vars
  BY <1>3, ShapeKept DEF vars, Shape
<1>4. QED
  BY <1>1, <1>2, <1>3, NextForms

-----------------------------------------------------------------------------
(* Which batches exist. *)

\* A batch that is refreshed exists, and its row was read.
RefreshedExist ==
    \A x \in Txn :
        /\ \A b \in run[x].batches : view[b] # None
        /\ run[x].at = "count" => view[run[x].batch] # None
        /\ \A b \in Batch : run[x].op # "enqueue" /\ run[x].view[b] # None => view[b] # None

\* A batch that is being created does not exist yet, and is created once.
NewBatches ==
    \A x \in Txn : run[x].op = "enqueue" =>
        /\ view[run[x].batch] = None
        /\ \A y \in Txn : run[y].op = "enqueue" /\ run[y].batch = run[x].batch => y = x

\* Members belong to a committed batch.
MembersExist == \A b \in Batch, g \in Target : item[b][g] # None => view[b] # None

Existence == RefreshedExist /\ NewBatches /\ MembersExist

\* A commit of any other function than an enqueue writes no new batch.
LEMMA BatchesWritten ==
    ASSUME Typed, Shape, Existence, NEW x \in Txn, Commit(x)
    PROVE  LET r == run[x] IN
           /\ r.op = "enqueue" \/ r.op \in TaskOps
           /\ r.op = "enqueue" =>
                  /\ r.batch \in Batch /\ r.view[r.batch] # None /\ view[r.batch] = None
                  /\ view'[r.batch] = r.view[r.batch] /\ item'[r.batch] = r.item
                  /\ \A b \in Batch \ {r.batch} : view'[b] = view[b] /\ item'[b] = item[b]
           /\ r.op \in TaskOps =>
                  \A b \in Batch : /\ item'[b] = item[b]
                                   /\ view'[b] # None => view[b] # None
                                   /\ view'[b] = IF r.view[b] # None THEN r.view[b] ELSE view[b]
           /\ \A b \in Batch : view[b] # None => view'[b] # None
<1> USE DEF Typed
<1> DEFINE r == run[x]
<1>1. /\ r.at = "refresh"
      /\ \A b \in Batch :
             /\ item'[b] = IF r.op = "enqueue" /\ b = r.batch THEN r.item ELSE item[b]
             /\ view'[b] = IF r.view[b] # None THEN r.view[b] ELSE view[b]
  BY CommitFacts
<1>2. r.op = "enqueue" \/ r.op \in TaskOps
  BY <1>1, LabelCases
<1>3. r.op \in TaskOps => r.op # "enqueue"
  BY DEF TaskOps
<1>4. r.op = "enqueue" => /\ r.batch \in Batch /\ r.view[r.batch] # None
                          /\ view[r.batch] = None
                          /\ \A b \in Batch : r.view[b] # None => b = r.batch
  BY <1>1 DEF Shape, ShapeOf, EnqueueShape, Existence, NewBatches
<1>5. \A b \in Batch : r.op \in TaskOps /\ r.view[b] # None => view[b] # None
  BY <1>3 DEF Existence, RefreshedExist
<1>6. QED
  BY <1>1, <1>2, <1>3, <1>4, <1>5

LEMMA ExistenceStep ==
    ASSUME Typed, Shape, Existence, [Next]_vars
    PROVE  Existence'
<1> USE DEF Typed
<1>1. ASSUME NEW x \in Txn, Own(x) PROVE Existence'
  <2> DEFINE r == run[x]
             n == run'[x]
  <2>1. /\ UNCHANGED <<status, target, item, view>> /\ Others(x)
        /\ n \in Transaction
    BY <1>1, OwnSteps DEF OwnStep
  <2>a. r \in Transaction
    BY DEF TypeOK
  <2> DEFINE Good ==
        /\ \A b \in n.batches : view[b] # None
        /\ n.at = "count" => view[n.batch] # None
        /\ \A b \in Batch : n.op # "enqueue" /\ n.view[b] # None => view[b] # None
        /\ n.op = "enqueue" =>
               /\ view[n.batch] = None
               /\ \A y \in Txn : run[y].op = "enqueue" /\ run[y].batch = n.batch => y = x
  <2>2. Good
    <3>a. /\ \A b \in r.batches : view[b] # None
          /\ r.at = "count" => view[r.batch] # None
          /\ \A b \in Batch : r.op # "enqueue" /\ r.view[b] # None => view[b] # None
          /\ r.op = "enqueue" =>
                 /\ view[r.batch] = None
                 /\ \A y \in Txn : run[y].op = "enqueue" /\ run[y].batch = r.batch => y = x
      BY DEF Existence, RefreshedExist, NewBatches
    <3>1. ASSUME NEW b \in Batch, NEW S \in SUBSET Target, BeginEnqueue(x, b, S) PROVE Good
      BY <3>1, BeginEnqueueFacts DEF FreshBatches
    <3>2. ASSUME NEW t \in Task, BeginSettle(x, t) PROVE Good
      BY <3>2, BeginSettleFacts
    <3>3. ASSUME NEW S \in SUBSET Target, BeginCancel(x, S) PROVE Good
      BY <3>3, BeginCancelFacts
    <3>17. ASSUME NEW S \in SUBSET Target, CancelMore(x, S) PROVE Good
      BY <3>a, <3>17, CancelMoreFacts
    <3>4. ASSUME NEW b \in Batch, BeginPoll(x, b) PROVE Good
      <4>1. /\ n.op = "poll" /\ n.at = "answer" /\ n.batches = {} /\ view[b] # None
            /\ n.view = [c \in Batch |-> IF c = b THEN view[b] ELSE None]
        BY <3>4, BeginPollFacts
      <4>2. QED
        BY <4>1
    <3>5. CASE LockResource(x)
      BY <3>a, <3>5, LockResourceFacts
    <3>6. CASE LookUpTask(x)
      <4>1. /\ r.op = "enqueue" /\ n.op = "enqueue" /\ n.at = "link" /\ n.batch = r.batch
            /\ n.batches = r.batches /\ n.view = r.view
        BY <3>6, LookUpTaskFacts
      <4>2. QED
        BY <3>a, <4>1
    <3>7. CASE LinkBatchItem(x)
      <4>1. /\ n.at = "advisory" /\ n.op = r.op /\ n.batch = r.batch
            /\ n.batches = r.batches /\ n.view = r.view
        BY <3>7, LinkBatchItemFacts
      <4>2. QED
        BY <3>a, <4>1
    <3>8. CASE SealBatch(x)
      <4>1. /\ r.op = "enqueue" /\ n.op = "enqueue" /\ n.at = "refresh"
            /\ n.batch = r.batch /\ n.batches = r.batches
        BY <3>8, SealBatchFacts
      <4>2. QED
        BY <3>a, <4>1
    <3>9. ASSUME NEW s \in TaskStatus, SettleTask(x, s) PROVE Good
      BY <3>a, <3>9, SettleTaskFacts
    <3>10. CASE SelectTasks(x)
      BY <3>a, <3>10, SelectTasksFacts DEF LockOrRefresh
    <3>11. CASE LockTask(x)
      <4>1. r.rows # {}
        BY <3>11 DEF LockTask, RowsToLock
      <4>2. n.op = "cancel" /\ n.batches = r.batches /\ n.view = r.view
            /\ n.at # "count" /\ r.op = "cancel"
        BY <3>11, <4>1, LockTaskFacts DEF LockOrRefresh
      <4>3. QED
        BY <3>a, <4>2
    <3>12. ASSUME NEW T \in SUBSET Task, FailExhausted(x, T) \/ TakeClaimable(x, T) PROVE Good
      <4>1. PICK s \in TaskStatus, op \in {"exhaust", "claim"} : TakeRows(x, T, s, op)
        BY <3>12 DEF FailExhausted, TakeClaimable, TaskStatus, Active, Terminal
      <4>2. op \in Op
        BY DEF Op
      <4>3. n.op = op /\ n.at = "refresh" /\ n.batches = r.batches /\ n.view = r.view
        BY <4>1, <4>2, TakeRowsFacts
      <4>4. r.op \in {"none", "exhaust"}
        BY <3>12, IdleFields DEF FailExhausted, TakeClaimable
      <4>5. QED
        BY <3>a, <4>3, <4>4
    <3>13. CASE FindBatchIds(x)
      <4>1. /\ n.op = r.op /\ n.at = "refresh" /\ n.batch = r.batch /\ n.view = r.view
            /\ \A b \in n.batches : b \in Batch /\ \E g \in Target : item[b][g] \in r.todo
        BY <3>13, FindBatchIdsFacts
      <4>2. r.todo \subseteq Target \cup Task
        BY <2>a DEF Transaction
      <4>3. None \notin r.todo
        BY <4>2, NoneIsNoView
      <4>4. \A b \in n.batches : view[b] # None
        BY <4>1, <4>3 DEF Existence, MembersExist
      <4>5. QED
        BY <3>a, <4>1, <4>4
    <3>14. CASE LockBatch(x)
      <4>1. /\ n.op = r.op /\ n.at = "count" /\ n.batch \in r.batches
            /\ n.batches \subseteq r.batches /\ n.view = r.view /\ r.batches # {}
        BY <3>14, LockBatchFacts
      <4>2. r.op # "enqueue"
        BY <4>1 DEF Shape, ShapeOf, EnqueueShape
      <4>3. QED
        BY <3>a, <4>1, <4>2
    <3>15. CASE CountTasks(x)
      <4>1. /\ n.op = r.op /\ n.at = "refresh" /\ n.batches = r.batches /\ r.at = "count"
            /\ n.view = [r.view EXCEPT ![r.batch] = ViewSeen(x, r.batch)]
        BY <3>15, CountTasksFacts
      <4>2. r.op # "enqueue"
        BY <4>1, LabelCases DEF TaskOps
      <4>3. \A b \in Batch : n.view[b] # None => b = r.batch \/ r.view[b] # None
        BY <2>a, <4>1 DEF Transaction
      <4>4. QED
        BY <3>a, <4>1, <4>2, <4>3
    <3>16. QED
      BY <1>1, <3>1, <3>2, <3>3, <3>4, <3>5, <3>6, <3>7, <3>8, <3>9, <3>10, <3>11, <3>12,
         <3>13, <3>14, <3>15, <3>17 DEF Own, Statement
  <2> HIDE DEF r, n
  <2>3. RefreshedExist'
    BY <2>1, <2>2 DEF Existence, RefreshedExist, Others, n
  <2>4. NewBatches'
    BY <2>1, <2>2 DEF Existence, NewBatches, Others, n
  <2>5. MembersExist'
    BY <2>1 DEF Existence, MembersExist
  <2>6. QED
    BY <2>3, <2>4, <2>5 DEF Existence
<1>2. ASSUME NEW x \in Txn, Commit(x) PROVE Existence'
  <2> DEFINE r == run[x]
  <2>1. Others(x) /\ run'[x] = Idle
    BY <1>2, EndFacts
  <2>a. ASSUME NEW y \in Txn PROVE run[y] \in Transaction
    BY DEF TypeOK
  <2>2. \A b \in Batch : view[b] # None => view'[b] # None
    BY <1>2, BatchesWritten
  <2>3. RefreshedExist'
    <3>1. ASSUME NEW y \in Txn, y # x
          PROVE  /\ \A b \in run[y].batches : view'[b] # None
                 /\ run[y].at = "count" => view'[run[y].batch] # None
                 /\ \A b \in Batch : run[y].op # "enqueue" /\ run[y].view[b] # None
                                         => view'[b] # None
      <4>1. run[y].at = "count" => run[y].batch \in Batch
        BY LabelCases DEF Shape, ShapeOf, TaskShape
      <4>2. run[y].batches \subseteq Batch
        BY <2>a DEF Transaction
      <4>3. QED
        BY <2>2, <4>1, <4>2 DEF Existence, RefreshedExist
    <3>2. QED
      BY <2>1, <3>1, IdleFields DEF RefreshedExist, Others
  <2>4. NewBatches'
    <3>1. ASSUME NEW y \in Txn, y # x, run[y].op = "enqueue"
          PROVE  view'[run[y].batch] = None
      <4>1. run[y].batch \in Batch /\ view[run[y].batch] = None
        BY <3>1 DEF Shape, ShapeOf, EnqueueShape, Existence, NewBatches
      <4>2. r.op = "enqueue" => run[y].batch # r.batch
        BY <3>1 DEF Existence, NewBatches
      <4>3. QED
        BY <1>2, <4>1, <4>2, BatchesWritten
    <3>2. QED
      BY <2>1, <3>1, IdleFields DEF Existence, NewBatches, Others
  <2>5. MembersExist'
    <3>1. ASSUME NEW b \in Batch, NEW g \in Target, item'[b][g] # None PROVE view'[b] # None
      <4>1. CASE r.op = "enqueue" /\ b = r.batch
        BY <1>2, <4>1, BatchesWritten
      <4>2. CASE ~(r.op = "enqueue" /\ b = r.batch)
        BY <1>2, <2>2, <3>1, <4>2, CommitFacts DEF Existence, MembersExist
      <4>3. QED
        BY <4>1, <4>2
    <3>2. QED
      BY <3>1 DEF MembersExist
  <2>6. QED
    BY <2>3, <2>4, <2>5 DEF Existence
<1>3. ASSUME NEW x \in Txn, Rollback(x) PROVE Existence'
  <2>1. Others(x) /\ run'[x] = Idle /\ UNCHANGED <<status, target, item, view>>
    BY <1>3, EndFacts DEF Rollback, committed
  <2>2. QED
    BY <2>1, IdleFields DEF Existence, RefreshedExist, NewBatches, MembersExist, Others
<1>4. CASE UNCHANGED vars
  BY <1>4 DEF vars, committed, Existence, RefreshedExist, NewBatches, MembersExist
<1>5. QED
  BY <1>1, <1>2, <1>3, <1>4, NextForms

-----------------------------------------------------------------------------
(* Who holds which lock, by what its transaction has done. *)

\* The row locks are of the tasks the transaction has written ...
RowLocksOf(x) ==
    \A t \in Task : row[t] = x <=> run[x].op \in TaskOps /\ Drafted(x, t)

\* ... the key shares of those it has linked ...
ShareLocksOf(x) == \A t \in Task : x \in share[t] <=> Linked(x, t)

\* ... the batch rows of those it refreshes or creates ...
Refreshes(x, b) == run[x].view[b] # None \/ (run[x].at = "count" /\ run[x].batch = b)

BatchLocksOf(x) ==
    LET r == run[x]
    IN  \A b \in Batch :
            /\ batchRow[b] = x =>
                   \/ r.op = "enqueue" /\ r.targets = {} /\ b = r.batch
                   \/ r.op \in TaskOps /\ Refreshes(x, b)
            /\ r.op \in TaskOps /\ Refreshes(x, b) => batchRow[b] = x

\* ... and the resource locks of the targets it has looked up, below all that
\* it has still to lock.
AdvisoryLocksOf(x) ==
    LET r == run[x]
    IN  /\ \A g \in Target : advisory[g] = x =>
               /\ r.op \in {"enqueue", "cancel"}
               /\ r.at = "advisory" => \A h \in r.targets : g < h
        /\ r.op = "enqueue" =>
               \A g \in Target :
                   (g \in r.todo /\ g \notin r.targets) \/ r.item[g] # None => advisory[g] = x
        /\ r.op = "cancel" /\ r.at = "advisory" =>
               \A g \in Target : g \in r.todo /\ g \notin r.targets => advisory[g] = x
        /\ r.op = "cancel" => \A t \in r.rows : target[t] \in Target /\ advisory[target[t]] = x

LocksOf(x) == RowLocksOf(x) /\ ShareLocksOf(x) /\ BatchLocksOf(x) /\ AdvisoryLocksOf(x)

\* SELECT ... FOR UPDATE and the key share of a foreign key exclude each other.
LockExclusion == \A t \in Task : row[t] # None => share[t] = {}

Locks == (\A x \in Txn : LocksOf(x)) /\ LockExclusion

\* The first statement of a transaction takes no lock.
LEMMA BeginLocks ==
    ASSUME TypeOK, NEW x \in Txn, run[x] = Idle, UNCHANGED <<committed, locks>>,
           run'[x].item = NoMembers, run'[x].rows = {} \/ run'[x].op # "cancel",
           run'[x].draft = [t \in Task |-> None],
           run'[x].op \in TaskOps => /\ run'[x].view = [b \in Batch |-> None]
                                     /\ run'[x].at # "count",
           run'[x].targets = run'[x].todo
    PROVE  LocksOf(x)'
<1>1. /\ \A g \in Target : advisory'[g] # x
      /\ \A t \in Task : row'[t] # x /\ x \notin share'[t]
      /\ \A b \in Batch : batchRow'[b] # x
  BY DEF TypeOK, locks
<1>2. RowLocksOf(x)'
  BY <1>1 DEF RowLocksOf, Drafted
<1>3. ShareLocksOf(x)'
  BY <1>1, NoneIsNoView DEF ShareLocksOf, Linked, NoMembers
<1>4. BatchLocksOf(x)'
  BY <1>1 DEF BatchLocksOf, Refreshes
<1>5. AdvisoryLocksOf(x)'
  BY <1>1 DEF AdvisoryLocksOf, NoMembers
<1>6. QED
  BY <1>2, <1>3, <1>4, <1>5 DEF LocksOf

LEMMA LocksOwnStep ==
    ASSUME Typed, Shape, Existence, Locks, NEW x \in Txn, Own(x)
    PROVE  LocksOf(x)'
<1> USE DEF Typed
<1> DEFINE r == run[x]
           n == run'[x]
<1>a. r \in Transaction /\ EnqueueShape(x) /\ TaskShape(x) /\ RestShape(x)
      /\ RowLocksOf(x) /\ ShareLocksOf(x) /\ BatchLocksOf(x) /\ AdvisoryLocksOf(x)
  BY DEF TypeOK, Shape, ShapeOf, Locks, LocksOf
<1>1. ASSUME NEW b \in Batch, NEW S \in SUBSET Target, BeginEnqueue(x, b, S)
      PROVE  LocksOf(x)'
  BY <1>1, BeginEnqueueFacts, BeginLocks DEF TaskOps
<1>2. ASSUME NEW t \in Task, BeginSettle(x, t)
      PROVE  LocksOf(x)'
  BY <1>2, BeginSettleFacts, BeginLocks
<1>3. ASSUME NEW S \in SUBSET Target, BeginCancel(x, S)
      PROVE  LocksOf(x)'
  BY <1>3, BeginCancelFacts, BeginLocks
<1>17. ASSUME NEW S \in SUBSET Target, CancelMore(x, S)
       PROVE  LocksOf(x)'
  <2>1. /\ r.op = "cancel" /\ r.at = "refresh"
        /\ n.op = "cancel" /\ n.at = "advisory" /\ n.targets = S /\ n.todo = S
        /\ n.rows = r.rows /\ n.draft = r.draft /\ n.item = r.item /\ n.view = r.view
        /\ \A g \in S, h \in Target : advisory[h] = x => h < g
        /\ UNCHANGED <<committed, locks>>
    BY <1>17, CancelMoreFacts
  <2>2. RowLocksOf(x)' /\ ShareLocksOf(x)' /\ BatchLocksOf(x)'
    BY <1>a, <2>1 DEF RowLocksOf, Drafted, ShareLocksOf, Linked, BatchLocksOf,
                      Refreshes, locks
  <2>3. AdvisoryLocksOf(x)'
    BY <1>a, <2>1 DEF AdvisoryLocksOf, locks, committed
  <2>4. QED
    BY <2>2, <2>3 DEF LocksOf
<1>4. ASSUME NEW b \in Batch, BeginPoll(x, b)
      PROVE  LocksOf(x)'
  BY <1>4, BeginPollFacts, BeginLocks DEF TaskOps
<1>5. CASE LockResource(x)
  <2>1. /\ r.at = "advisory" /\ n.at = "advisory" /\ n.op = r.op
        /\ n.todo = r.todo /\ n.rows = r.rows /\ n.batch = r.batch
        /\ n.draft = r.draft /\ n.item = r.item /\ n.view = r.view
        /\ UNCHANGED <<committed, row, share, batchRow>>
    BY <1>5, LockResourceFacts
  <2>2. PICK g \in r.targets : /\ \A h \in r.targets : g <= h
                               /\ n.targets = r.targets \ {g}
                               /\ advisory' = [advisory EXCEPT ![g] = x]
    BY <1>5, LockResourceFacts
  <2>3. r.targets \subseteq Target /\ Target \subseteq Nat
    BY <1>a, TransactionsAssumption DEF Transaction
  <2>4. ASSUME NEW h \in n.targets PROVE g < h
    <3>1. h \in r.targets /\ h # g /\ g <= h
      BY <2>2
    <3>2. g \in Nat /\ h \in Nat
      BY <2>3, <3>1
    <3>3. QED
      BY <3>1, <3>2
  <2>5. \A h \in Target : advisory'[h] = x <=> advisory[h] = x \/ h = g
    BY <2>2, <2>3 DEF TypeOK
  <2>6. r.op \in {"enqueue", "cancel"}
    BY <2>1, LabelCases
  <2>7. RowLocksOf(x)' /\ ShareLocksOf(x)'
    BY <1>a, <2>1 DEF RowLocksOf, ShareLocksOf, Drafted, Linked
  <2>8. BatchLocksOf(x)'
    BY <1>a, <2>1, <2>2 DEF BatchLocksOf, Refreshes
  <2>9. AdvisoryLocksOf(x)'
    <3>1. \A h \in Target : advisory'[h] = x => \A k \in n.targets : h < k
      BY <1>a, <2>1, <2>2, <2>4, <2>5 DEF AdvisoryLocksOf
    <3>2. n.op = "enqueue" =>
              \A h \in Target : (h \in n.todo /\ h \notin n.targets) \/ n.item[h] # None
                                    => advisory'[h] = x
      BY <1>a, <2>1, <2>2, <2>5 DEF AdvisoryLocksOf
    <3>3. n.op = "cancel" =>
              \A h \in Target : h \in n.todo /\ h \notin n.targets => advisory'[h] = x
      BY <1>a, <2>1, <2>2, <2>5 DEF AdvisoryLocksOf
    <3>4. n.op = "cancel" => \A t \in n.rows : target'[t] \in Target /\ advisory'[target'[t]] = x
      BY <1>a, <2>1, <2>5 DEF AdvisoryLocksOf, committed
    <3>5. QED
      BY <2>1, <2>6, <3>1, <3>2, <3>3, <3>4 DEF AdvisoryLocksOf
  <2>10. QED
    BY <2>7, <2>8, <2>9 DEF LocksOf
<1>6. CASE LookUpTask(x)
  <2>1. /\ r.op = "enqueue" /\ r.at = "advisory" /\ r.targets = {}
        /\ n.op = "enqueue" /\ n.at = "link" /\ n.targets = {}
        /\ n.todo = r.todo /\ n.batch = r.batch /\ n.item = r.item
        /\ batchRow' = [batchRow EXCEPT ![r.batch] = x]
        /\ UNCHANGED <<committed, advisory, row, share>>
    BY <1>6, LookUpTaskFacts
  <2>2. RowLocksOf(x)' /\ ShareLocksOf(x)'
    BY <1>a, <2>1 DEF RowLocksOf, ShareLocksOf, TaskOps, Linked
  <2>3. \A b \in Batch : batchRow'[b] = x => b = r.batch \/ batchRow[b] = x
    BY <2>1 DEF TypeOK
  <2>4. BatchLocksOf(x)'
    BY <1>a, <2>1, <2>3 DEF BatchLocksOf, TaskOps
  <2>5. AdvisoryLocksOf(x)'
    BY <1>a, <2>1 DEF AdvisoryLocksOf
  <2>6. QED
    BY <2>2, <2>4, <2>5 DEF LocksOf
<1>7. CASE LinkBatchItem(x)
  <2> DEFINE m == Min(r.todo)
  <2>1. /\ r.at = "link" /\ n.at = "advisory" /\ n.op = r.op /\ n.targets = r.targets
        /\ n.todo = r.todo \ {m} /\ n.batch = r.batch
        /\ n.draft = r.draft /\ n.item = [r.item EXCEPT ![m] = r.found]
        /\ share' = [share EXCEPT ![r.found] = @ \cup {x}]
        /\ UNCHANGED <<committed, advisory, row, batchRow>>
    BY <1>7, LinkBatchItemFacts
  <2>2. r.op = "enqueue"
    BY <2>1, LabelCases
  <2>3. /\ r.todo # {} /\ r.todo \subseteq Target /\ r.targets = {} /\ r.found # None
        /\ r.found \in Task
    BY <1>a, <2>1, <2>2 DEF EnqueueShape, Transaction
  <2>4. m \in r.todo /\ m \in Target
    BY <2>3, MinIsLeast, TransactionsAssumption
  <2> HIDE DEF m
  <2>5. RowLocksOf(x)'
    BY <1>a, <2>1, <2>2 DEF RowLocksOf, TaskOps
  <2>6. ShareLocksOf(x)'
    <3>1. \A t \in Task : x \in share'[t] <=> x \in share[t] \/ t = r.found
      BY <2>1, <2>3 DEF TypeOK
    <3>2. r.item[m] = None
      BY <1>a, <2>2, <2>4 DEF EnqueueShape
    <3>3. \A t \in Task : Linked(x, t)' <=> Linked(x, t) \/ t = r.found
      BY <1>a, <2>1, <2>4, <3>2, NoneIsNoView DEF Linked, Transaction
    <3>4. QED
      BY <1>a, <3>1, <3>3 DEF ShareLocksOf
  <2>7. BatchLocksOf(x)'
    BY <1>a, <2>1, <2>2 DEF BatchLocksOf, TaskOps
  <2>8. AdvisoryLocksOf(x)'
    <3>1. \A g \in Target : n.item[g] # None => g = m \/ r.item[g] # None
      BY <1>a, <2>1 DEF Transaction
    <3>2. QED
      BY <1>a, <2>1, <2>2, <2>3, <2>4, <3>1 DEF AdvisoryLocksOf
  <2>9. QED
    BY <2>5, <2>6, <2>7, <2>8 DEF LocksOf
<1>8. CASE SealBatch(x)
  <2>1. /\ r.op = "enqueue" /\ r.targets = {} /\ r.todo = {}
        /\ n.at = "refresh" /\ n.op = "enqueue" /\ n.targets = {}
        /\ n.todo = {} /\ n.batch = r.batch /\ n.item = r.item
        /\ UNCHANGED <<committed, locks>>
    BY <1>8, SealBatchFacts
  <2>2. RowLocksOf(x)' /\ ShareLocksOf(x)' /\ BatchLocksOf(x)'
    BY <1>a, <2>1 DEF RowLocksOf, ShareLocksOf, BatchLocksOf, TaskOps, Linked, locks
  <2>3. AdvisoryLocksOf(x)'
    BY <1>a, <2>1 DEF AdvisoryLocksOf, locks
  <2>4. QED
    BY <2>2, <2>3 DEF LocksOf
<1>9. ASSUME NEW s \in TaskStatus, SettleTask(x, s)
      PROVE  LocksOf(x)'
  <2>1. /\ r.op = "settle" /\ r.at = "lock" /\ n.op = "settle" /\ n.at = "refresh"
        /\ n.item = r.item /\ n.view = r.view
        /\ UNCHANGED <<committed, advisory, share, batchRow>>
    BY <1>9, SettleTaskFacts
  <2>2. PICK t \in Task : /\ n.draft = [r.draft EXCEPT ![t] = s]
                          /\ row' = [row EXCEPT ![t] = x]
    BY <1>9, SettleTaskFacts
  <2>3. \A u \in Task : row'[u] = x <=> row[u] = x \/ u = t
    BY <2>2 DEF TypeOK
  <2>4. \A u \in Task : n.draft[u] # None <=> r.draft[u] # None \/ u = t
    BY <1>a, <2>2, NoneIsNoView DEF Transaction
  <2>5. RowLocksOf(x)'
    BY <1>a, <2>1, <2>3, <2>4 DEF RowLocksOf, Drafted, TaskOps
  <2>6. ShareLocksOf(x)' /\ BatchLocksOf(x)'
    BY <1>a, <2>1 DEF ShareLocksOf, Linked, BatchLocksOf, Refreshes
  <2>7. AdvisoryLocksOf(x)'
    BY <1>a, <2>1 DEF AdvisoryLocksOf
  <2>8. QED
    BY <2>5, <2>6, <2>7 DEF LocksOf
<1>10. CASE SelectTasks(x)
  <2>1. /\ r.op = "cancel" /\ r.at = "advisory" /\ r.targets = {}
        /\ n.op = "cancel" /\ n.targets = {} /\ n.draft = r.draft
        /\ n.item = r.item /\ n.view = r.view
        /\ n.rows = UNION {ActiveTasks(g) : g \in r.todo}
        /\ n.at = LockOrRefresh(n.rows)
        /\ UNCHANGED <<committed, locks>>
    BY <1>10, SelectTasksFacts
  <2>2. n.at \in {"lock", "refresh"}
    BY <2>1 DEF LockOrRefresh
  <2>3. RowLocksOf(x)' /\ ShareLocksOf(x)' /\ BatchLocksOf(x)'
    BY <1>a, <2>1, <2>2 DEF RowLocksOf, Drafted, ShareLocksOf, Linked, BatchLocksOf,
                            Refreshes, locks
  <2>4. r.todo \subseteq Target
    BY <1>a, <2>1 DEF TaskShape, TaskOps
  <2>5. \A t \in n.rows : target[t] \in r.todo
    BY <2>1 DEF ActiveTasks
  <2>6. AdvisoryLocksOf(x)'
    BY <1>a, <2>1, <2>2, <2>4, <2>5 DEF AdvisoryLocksOf, locks, committed
  <2>7. QED
    BY <2>3, <2>6 DEF LocksOf
<1>11. CASE LockTask(x)
  <2> DEFINE t == Min(r.rows)
  <2>0. r.rows # {}
    BY <1>11 DEF LockTask, RowsToLock
  <2>1. /\ r.op = "cancel" /\ r.at = "lock" /\ n.op = "cancel" /\ n.targets = r.targets
        /\ n.item = r.item /\ n.view = r.view /\ n.rows \subseteq r.rows
        /\ n.at = LockOrRefresh(n.rows) /\ t \in Task
        /\ \/ /\ n.draft = [r.draft EXCEPT ![t] = "cancelled"]
              /\ row' = [row EXCEPT ![t] = x]
           \/ n.draft = r.draft /\ row' = row
        /\ UNCHANGED <<committed, advisory, share, batchRow>>
    BY <1>11, <2>0, LockTaskFacts
  <2>2. n.at \in {"lock", "refresh"}
    BY <2>1 DEF LockOrRefresh
  <2> HIDE DEF t
  <2>3. RowLocksOf(x)'
    <3>1. CASE n.draft = r.draft /\ row' = row
      BY <1>a, <2>1, <3>1 DEF RowLocksOf, Drafted
    <3>2. CASE /\ n.draft = [r.draft EXCEPT ![t] = "cancelled"]
               /\ row' = [row EXCEPT ![t] = x]
      <4>1. "cancelled" # None
        BY NoneIsNoView DEF TaskStatus, Terminal
      <4>2. \A u \in Task : row'[u] = x <=> row[u] = x \/ u = t
        BY <2>1, <3>2 DEF TypeOK
      <4>3. \A u \in Task : n.draft[u] # None <=> r.draft[u] # None \/ u = t
        BY <1>a, <2>1, <3>2, <4>1 DEF Transaction
      <4>4. QED
        BY <1>a, <2>1, <4>2, <4>3 DEF RowLocksOf, Drafted, TaskOps
    <3>3. QED
      BY <2>1, <3>1, <3>2
  <2>4. ShareLocksOf(x)' /\ BatchLocksOf(x)'
    BY <1>a, <2>1, <2>2 DEF ShareLocksOf, Linked, BatchLocksOf, Refreshes
  <2>5. AdvisoryLocksOf(x)'
    BY <1>a, <2>1, <2>2 DEF AdvisoryLocksOf, committed
  <2>6. QED
    BY <2>3, <2>4, <2>5 DEF LocksOf
<1>12. ASSUME NEW T \in SUBSET Task, FailExhausted(x, T) \/ TakeClaimable(x, T)
       PROVE  LocksOf(x)'
  <2>1. PICK s \in TaskStatus, op \in {"exhaust", "claim"} : TakeRows(x, T, s, op)
    BY <1>12 DEF FailExhausted, TakeClaimable, TaskStatus, Active, Terminal
  <2>2. op \in Op
    BY DEF Op
  <2>3. /\ n.op = op /\ n.at = "refresh" /\ n.item = r.item /\ n.view = r.view
        /\ n.rows = r.rows
        /\ \A t \in Task : n.draft[t] = IF t \in T THEN s ELSE r.draft[t]
        /\ \A t \in Task : row'[t] = IF t \in T THEN x ELSE row[t]
        /\ UNCHANGED <<committed, advisory, share, batchRow>>
    BY <2>1, <2>2, TakeRowsFacts
  <2>4. r = Idle \/ (r.op = "exhaust" /\ r.at = "refresh")
    BY <1>12 DEF FailExhausted, TakeClaimable, Refreshed
  <2>5. /\ r.op \notin {"enqueue", "cancel"} /\ r.at # "count"
        /\ \A t \in Task : row[t] = x <=> r.draft[t] # None
        /\ \A b \in Batch : batchRow[b] = x <=> r.view[b] # None
    <3>1. CASE r = Idle
      BY <3>1, IdleFields DEF TypeOK
    <3>2. CASE r.op = "exhaust" /\ r.at = "refresh"
      BY <1>a, <3>2 DEF RowLocksOf, BatchLocksOf, Drafted, Refreshes, TaskOps
    <3>3. QED
      BY <2>4, <3>1, <3>2
  <2>6. RowLocksOf(x)'
    BY <2>3, <2>5, NoneIsNoView DEF RowLocksOf, Drafted, TaskOps
  <2>7. ShareLocksOf(x)'
    BY <1>a, <2>3 DEF ShareLocksOf, Linked
  <2>8. BatchLocksOf(x)'
    BY <2>3, <2>5 DEF BatchLocksOf, Refreshes, TaskOps
  <2>9. AdvisoryLocksOf(x)'
    BY <1>a, <2>3, <2>5 DEF AdvisoryLocksOf
  <2>10. QED
    BY <2>6, <2>7, <2>8, <2>9 DEF LocksOf
<1>13. CASE FindBatchIds(x)
  <2>1. /\ r.at = "refresh" /\ n.op = r.op /\ n.at = "refresh" /\ n.targets = r.targets
        /\ n.batch = r.batch /\ n.draft = r.draft /\ n.item = r.item /\ n.view = r.view
        /\ n.rows = r.rows /\ UNCHANGED <<committed, locks>>
    BY <1>13, FindBatchIdsFacts
  <2>2. n.todo \subseteq r.todo
    BY <1>13, FindBatchIdsFacts
  <2>3. RowLocksOf(x)' /\ ShareLocksOf(x)' /\ BatchLocksOf(x)'
    BY <1>a, <2>1 DEF RowLocksOf, Drafted, ShareLocksOf, Linked, BatchLocksOf, Refreshes, locks
  <2>4. AdvisoryLocksOf(x)'
    BY <1>a, <2>1, <2>2 DEF AdvisoryLocksOf, locks, committed
  <2>5. QED
    BY <2>3, <2>4 DEF LocksOf
<1>14. CASE LockBatch(x)
  <2> DEFINE b == Min(r.batches)
  <2>1. /\ r.at = "refresh" /\ n.at = "count" /\ n.op = r.op /\ r.batches # {}
        /\ b \in Batch /\ n.batch = b /\ n.targets = r.targets /\ n.todo = r.todo
        /\ n.rows = r.rows /\ n.draft = r.draft /\ n.item = r.item /\ n.view = r.view
        /\ batchRow' = [batchRow EXCEPT ![b] = x]
        /\ UNCHANGED <<committed, advisory, row, share>>
    BY <1>14, LockBatchFacts
  <2> HIDE DEF b
  <2>2. r.op \in TaskOps
    BY <1>a, <2>1, LabelCases DEF EnqueueShape
  <2>3. \A c \in Batch : batchRow'[c] = x <=> batchRow[c] = x \/ c = b
    BY <2>1 DEF TypeOK
  <2>4. RowLocksOf(x)' /\ ShareLocksOf(x)'
    BY <1>a, <2>1 DEF RowLocksOf, Drafted, ShareLocksOf, Linked
  <2>5. BatchLocksOf(x)'
    BY <1>a, <2>1, <2>2, <2>3 DEF BatchLocksOf, Refreshes, TaskOps
  <2>6. AdvisoryLocksOf(x)'
    BY <1>a, <2>1, <2>2 DEF AdvisoryLocksOf, TaskOps, committed
  <2>7. QED
    BY <2>4, <2>5, <2>6 DEF LocksOf
<1>15. CASE CountTasks(x)
  <2>1. /\ r.at = "count" /\ n.at = "refresh" /\ n.op = r.op
        /\ n.rows = r.rows /\ n.draft = r.draft /\ n.item = r.item
        /\ n.view = [r.view EXCEPT ![r.batch] = ViewSeen(x, r.batch)]
        /\ UNCHANGED <<committed, locks>>
    BY <1>15, CountTasksFacts
  <2>2. r.op \in TaskOps /\ r.batch \in Batch
    BY <1>a, <2>1, LabelCases DEF TaskShape
  <2>3. \A c \in Batch : n.view[c] # None <=> r.view[c] # None \/ c = r.batch
    BY <1>a, <2>1, <2>2, ViewSeenType, NoneIsNoView DEF Transaction
  <2>4. RowLocksOf(x)' /\ ShareLocksOf(x)'
    BY <1>a, <2>1 DEF RowLocksOf, Drafted, ShareLocksOf, Linked, locks
  <2>5. BatchLocksOf(x)'
    BY <1>a, <2>1, <2>2, <2>3 DEF BatchLocksOf, Refreshes, TaskOps, locks
  <2>6. AdvisoryLocksOf(x)'
    BY <1>a, <2>1, <2>2 DEF AdvisoryLocksOf, TaskOps, committed, locks
  <2>7. QED
    BY <2>4, <2>5, <2>6 DEF LocksOf
<1>16. QED
  BY <1>1, <1>2, <1>3, <1>4, <1>5, <1>6, <1>7, <1>8, <1>9, <1>10, <1>11, <1>12, <1>13,
     <1>14, <1>15, <1>17 DEF Own, Statement

\* No step of another session takes a batch row from its holder.
LEMMA BatchRowsStay ==
    ASSUME Typed, Shape, Existence, Locks, NEW x \in Txn, Own(x),
           NEW b \in Batch, batchRow[b] \notin {None, x}
    PROVE  batchRow'[b] = batchRow[b]
<1> USE DEF Typed
<1> DEFINE r == run[x]
<1>1. CASE LookUpTask(x)
  <2>1. r.op = "enqueue" /\ batchRow' = [batchRow EXCEPT ![r.batch] = x]
    BY <1>1, LookUpTaskFacts
  <2>2. b # r.batch
    <3> SUFFICES ASSUME b = r.batch PROVE FALSE
      OBVIOUS
    <3>1. PICK y \in Txn : y # x /\ batchRow[b] = y
      BY DEF TypeOK
    <3>2. \/ run[y].op = "enqueue" /\ run[y].batch = b
          \/ run[y].op \in TaskOps /\ Refreshes(y, b)
      BY <3>1 DEF Locks, LocksOf, BatchLocksOf
    <3>3. view[b] = None
      BY <2>1 DEF Existence, NewBatches
    <3>4. run[y].op \in TaskOps /\ Refreshes(y, b) => view[b] # None
      BY DEF Existence, RefreshedExist, Refreshes, TaskOps
    <3>5. QED
      BY <2>1, <3>1, <3>2, <3>3, <3>4 DEF Existence, NewBatches
  <2>3. QED
    BY <2>1, <2>2 DEF TypeOK
<1>2. CASE LockBatch(x)
  <2> DEFINE c == Min(r.batches)
  <2>1. /\ batchRow' = [batchRow EXCEPT ![c] = x] /\ WaitsFor(x) = {}
        /\ r.at = "refresh" /\ r.batches # {}
    BY <1>2, LockBatchFacts
  <2> HIDE DEF c
  <2>2. batchRow[c] \in {None, x}
    BY <2>1, WaitsForCases DEF c
  <2>3. QED
    BY <2>1, <2>2 DEF TypeOK
<1>3. CASE \E T \in SUBSET Task : FailExhausted(x, T) \/ TakeClaimable(x, T)
  BY <1>3 DEF FailExhausted, TakeClaimable, TakeRows
<1>4. CASE LockTask(x) \/ LinkBatchItem(x) \/ \E s \in TaskStatus : SettleTask(x, s)
  BY <1>4 DEF LockTask, LinkBatchItem, SettleTask
<1>5. CASE LockResource(x) \/ SealBatch(x) \/ SelectTasks(x) \/ FindBatchIds(x) \/ CountTasks(x)
  BY <1>5 DEF LockResource, SealBatch, SelectTasks, FindBatchIds, CountTasks, locks
<1>6. CASE \/ \E c \in Batch, S \in SUBSET Target \ {{}} : BeginEnqueue(x, c, S)
           \/ \E t \in Task : BeginSettle(x, t)
           \/ \E S \in SUBSET Target \ {{}} : BeginCancel(x, S) \/ CancelMore(x, S)
           \/ \E c \in Batch : BeginPoll(x, c)
  BY <1>6 DEF BeginEnqueue, BeginSettle, BeginCancel, CancelMore, BeginPoll, locks
<1>7. QED
  BY <1>1, <1>2, <1>3, <1>4, <1>5, <1>6 DEF Own, Statement

\* The locks of a session are those it had when its fields, the targets of
\* existing tasks and its entries in the lock tables are what they were.
LEMMA LocksKept ==
    ASSUME NEW y \in Txn, LocksOf(y), run'[y] = run[y],
           \A g \in Target : advisory'[g] = y <=> advisory[g] = y,
           \A t \in Task : row'[t] = y <=> row[t] = y,
           \A t \in Task : y \in share'[t] <=> y \in share[t],
           \A b \in Batch : batchRow'[b] = y <=> batchRow[b] = y,
           run[y].rows \subseteq Task,
           \A t \in Task : target[t] \in Target => target'[t] = target[t]
    PROVE  LocksOf(y)'
<1>1. RowLocksOf(y)'
  BY DEF LocksOf, RowLocksOf, Drafted
<1>2. ShareLocksOf(y)'
  BY DEF LocksOf, ShareLocksOf, Linked
<1>3. BatchLocksOf(y)'
  BY DEF LocksOf, BatchLocksOf, Refreshes
<1>4. AdvisoryLocksOf(y)'
  <2>1. AdvisoryLocksOf(y)
    BY DEF LocksOf
  <2>2. run[y].op = "cancel" =>
            \A t \in run[y].rows : target'[t] \in Target /\ advisory'[target'[t]] = y
    <3>1. ASSUME NEW t \in run[y].rows, run[y].op = "cancel"
          PROVE  target'[t] \in Target /\ advisory'[target'[t]] = y
      <4>1. t \in Task /\ target[t] \in Target /\ advisory[target[t]] = y
        BY <2>1, <3>1 DEF AdvisoryLocksOf
      <4>2. QED
        BY <4>1
    <3>2. QED
      BY <3>1
  <2>3. \A g \in Target : advisory'[g] = y =>
            /\ run[y].op \in {"enqueue", "cancel"}
            /\ run[y].at = "advisory" => \A h \in run[y].targets : g < h
    BY <2>1 DEF AdvisoryLocksOf
  <2>4. run[y].op = "enqueue" =>
            \A g \in Target : (g \in run[y].todo /\ g \notin run[y].targets)
                               \/ run[y].item[g] # None => advisory'[g] = y
    BY <2>1 DEF AdvisoryLocksOf
  <2>5. ASSUME run[y].op = "cancel", run[y].at = "advisory",
               NEW g \in Target, g \in run[y].todo, g \notin run[y].targets
        PROVE  advisory'[g] = y
    <3>1. advisory[g] = y
      BY <2>1, <2>5 DEF AdvisoryLocksOf
    <3>2. QED
      BY <3>1
  <2>6. QED
    BY <2>2, <2>3, <2>4, <2>5 DEF AdvisoryLocksOf
<1>5. QED
  BY <1>1, <1>2, <1>3, <1>4 DEF LocksOf

LEMMA LocksStep ==
    ASSUME Typed, Shape, Existence, Locks, [Next]_vars
    PROVE  Locks'
<1> USE DEF Typed
<1>a. \A y \in Txn : run[y].rows \subseteq Task
  BY DEF TypeOK, Transaction
<1>1. ASSUME NEW x \in Txn, Own(x) PROVE Locks'
  <2>1. UNCHANGED target /\ Others(x) /\ Takes(x)
    BY <1>1, OwnSteps DEF OwnStep
  <2>2. LocksOf(x)'
    BY <1>1, LocksOwnStep
  <2>3. ASSUME NEW y \in Txn, y # x PROVE LocksOf(y)'
    <3>1. run'[y] = run[y] /\ y # None
      BY <2>1, <2>3, NoneIsNoView DEF Others
    <3>2. /\ \A g \in Target : advisory'[g] = y <=> advisory[g] = y
          /\ \A t \in Task : row'[t] = y <=> row[t] = y
          /\ \A t \in Task : y \in share'[t] <=> y \in share[t]
      BY <2>1, <2>3, <3>1 DEF Takes
    <3>3. \A b \in Batch : batchRow'[b] = y <=> batchRow[b] = y
      BY <1>1, <2>1, <2>3, <3>1, BatchRowsStay DEF Takes
    <3>4. QED
      BY <1>a, <2>1, <3>1, <3>2, <3>3, LocksKept DEF Locks
  <2>4. ASSUME NEW t \in Task, row'[t] # None PROVE share'[t] = {}
    <3>1. row'[t] = x => x \notin share'[t]
      <4>1. row'[t] = x => run'[x].op \in TaskOps
        BY <2>2 DEF LocksOf, RowLocksOf
      <4>2. run'[x].op \in TaskOps => run'[x].item = NoMembers
        BY <1>1, ShapeOwnStep DEF ShapeOf, RestShape, TaskOps
      <4>3. x \in share'[t] => \E g \in Target : run'[x].item[g] = t
        BY <2>2 DEF LocksOf, ShareLocksOf, Linked
      <4>4. QED
        BY <4>1, <4>2, <4>3, NoneIsNoView DEF NoMembers
    <3>2. share'[t] \subseteq share[t] \cup {x}
      BY <2>1 DEF Takes
    <3>3. row'[t] # row[t] => row'[t] = x /\ share[t] \subseteq {x}
      BY <2>1 DEF Takes
    <3>4. row'[t] = row[t] => share[t] = {} /\ (share'[t] = share[t] \/ row'[t] = x)
      BY <2>1, <2>4 DEF Locks, LockExclusion, Takes
    <3>5. QED
      BY <3>1, <3>2, <3>3, <3>4
  <2>5. QED
    BY <2>2, <2>3, <2>4 DEF Locks, LockExclusion
<1>2. ASSUME NEW x \in Txn, Commit(x) \/ Rollback(x) PROVE Locks'
  <2>1. /\ Others(x) /\ run'[x] = Idle
        /\ \A g \in Target : advisory'[g] = IF advisory[g] = x THEN None ELSE advisory[g]
        /\ \A t \in Task : row'[t] = IF row[t] = x THEN None ELSE row[t]
        /\ \A t \in Task : share'[t] = share[t] \ {x}
        /\ \A b \in Batch : batchRow'[b] = IF batchRow[b] = x THEN None ELSE batchRow[b]
    BY <1>2, EndFacts
  <2>2. \A t \in Task : target[t] \in Target => target'[t] = target[t]
    BY <1>2, CommitFacts, NoneIsNoView DEF Rollback, committed
  <2>3. LocksOf(x)'
    <3>1. x # None
      BY NoneIsNoView
    <3>2. QED
      BY <2>1, <3>1, IdleFields, NoneIsNoView DEF LocksOf, RowLocksOf, ShareLocksOf, BatchLocksOf,
         AdvisoryLocksOf, Linked, TaskOps, NoMembers
  <2>4. ASSUME NEW y \in Txn, y # x PROVE LocksOf(y)'
    <3>1. run'[y] = run[y] /\ y # None
      BY <2>1, <2>4, NoneIsNoView DEF Others
    <3>2. QED
      BY <1>a, <2>1, <2>2, <2>4, <3>1, LocksKept DEF Locks
  <2>5. LockExclusion'
    BY <2>1 DEF Locks, LockExclusion
  <2>6. QED
    BY <2>3, <2>4, <2>5 DEF Locks
<1>3. CASE UNCHANGED vars
  <2>1. UNCHANGED <<run, target, advisory, row, share, batchRow>>
    BY <1>3 DEF vars, committed, locks
  <2>2. \A y \in Txn : LocksOf(y)'
    BY <1>a, <2>1, LocksKept DEF Locks
  <2>3. QED
    BY <2>1, <2>2 DEF Locks, LockExclusion
<1>4. QED
  BY <1>1, <1>2, <1>3, NextForms

-----------------------------------------------------------------------------
(* Task rows: what is committed, and what an enqueue may add to it. *)

TasksHaveTargets == \A t \in Task : status[t] = None <=> target[t] = None

\* A member is a task of the target it is a member for.
MembersAreTasks ==
    \A b \in Batch, g \in Target : item[b][g] # None =>
        status[item[b][g]] # None /\ target[item[b][g]] = g

\* What the partial unique index demands of committed rows.
OneActive ==
    \A t, u \in Task : status[t] \in Active /\ status[u] \in Active /\ target[t] = target[u]
        => t = u

\* A row of g that x found committed, or the one x inserts because there is
\* no active one.
Linkable(x, g, t) ==
    \/ status[t] # None /\ target[t] = g /\ run[x].draft[t] = None
    \/ status[t] = None /\ run[x].draft[t] = "pending" /\ ActiveTasks(g) = {}

NewRowsOf(x) ==
    LET r == run[x]
    IN  r.op = "enqueue" =>
        /\ \A t \in Task : Drafted(x, t) => status[t] = None /\ (Linked(x, t) \/ r.found = t)
        /\ \A g \in Target : r.item[g] # None => Linkable(x, g, r.item[g])
        /\ \A g, h \in Target : r.item[g] # None /\ r.item[g] = r.item[h] => g = h
        /\ r.at = "link" => /\ Linkable(x, Min(r.todo), r.found)
                            /\ \A g \in Target : r.item[g] # r.found

\* No two enqueues insert the same row.
InsertedOnce ==
    \A x, y \in Txn, t \in Task :
        run[x].op = "enqueue" /\ run[y].op = "enqueue" /\ Drafted(x, t) /\ Drafted(y, t)
        => x = y

\* Only rows that are still active are rewritten: settled tasks are final.
WritesOf(x) == run[x].op \in TaskOps => \A t \in Task : Drafted(x, t) => status[t] \in Active

Rows ==
    /\ TasksHaveTargets /\ MembersAreTasks /\ OneActive /\ InsertedOnce
    /\ \A x \in Txn : NewRowsOf(x) /\ WritesOf(x)

LEMMA ActiveIsStatus == /\ \A s \in Active : s \in TaskStatus /\ s # None /\ s \notin Terminal
                        /\ \A s \in Terminal : s \in TaskStatus /\ s # None
                        /\ None \notin Active /\ "pending" \in Active
  BY NoneIsNoView DEF TaskStatus, Active, Terminal

\* The session that has written a row is an enqueue that inserts it or holds
\* its lock.
LEMMA WriterCases ==
    ASSUME Typed, Shape, Locks, Rows, NEW x \in Txn, NEW t \in Task, Drafted(x, t)
    PROVE  \/ run[x].op = "enqueue" /\ status[t] = None /\ run[x].draft[t] = "pending"
           \/ run[x].op \in TaskOps /\ status[t] \in Active /\ row[t] = x
<1>1. CASE run[x].op = "enqueue"
  BY <1>1 DEF Rows, NewRowsOf, Shape, ShapeOf, EnqueueShape, Drafted
<1>2. CASE run[x].op \in TaskOps
  BY <1>2 DEF Rows, WritesOf, Locks, LocksOf, RowLocksOf
<1>3. CASE run[x].op = "poll" \/ run[x].op = "none"
  BY <1>3, IdleFields DEF Shape, ShapeOf, RestShape, NoDrafts, Drafted
<1>4. QED
  BY <1>1, <1>2, <1>3, OpCases DEF Typed

\* What an enqueue knows of its rows depends on its fields and on the rows.
LEMMA NewRowsKept ==
    ASSUME NEW y \in Txn, NewRowsOf(y), run'[y] = run[y], UNCHANGED <<status, target>>
    PROVE  NewRowsOf(y)'
<1>1. \A g, t : Linkable(y, g, t) => Linkable(y, g, t)'
  BY DEF Linkable, ActiveTasks
<1>2. QED
  BY <1>1 DEF NewRowsOf, Drafted, Linked

LEMMA RowsOwnStep ==
    ASSUME Typed, Shape, Existence, Locks, Rows, NEW x \in Txn, Own(x)
    PROVE  /\ NewRowsOf(x)' /\ WritesOf(x)'
           /\ \A t \in Task : run'[x].op = "enqueue" /\ Drafted(x, t)' =>
                  \/ run[x].op = "enqueue" /\ Drafted(x, t)
                  \/ t \in FreshTasks
<1> USE DEF Typed
<1> DEFINE r == run[x]
           n == run'[x]
           Inserts == \A t \in Task : n.op = "enqueue" /\ n.draft[t] # None =>
                          \/ r.op = "enqueue" /\ r.draft[t] # None
                          \/ t \in FreshTasks
           Good == NewRowsOf(x)' /\ WritesOf(x)' /\ Inserts
           Fits(g, t) ==
               \/ status[t] # None /\ target[t] = g /\ n.draft[t] = None
               \/ status[t] = None /\ n.draft[t] = "pending" /\ ActiveTasks(g) = {}
<1>g. SUFFICES Good
  BY DEF Drafted
<1>a. r \in Transaction /\ EnqueueShape(x) /\ TaskShape(x) /\ RestShape(x)
      /\ NewRowsOf(x) /\ WritesOf(x)
  BY DEF TypeOK, Shape, ShapeOf, Rows
<1>b. UNCHANGED <<status, target>>
  BY OwnSteps DEF OwnStep
<1>e. ASSUME n.op = "enqueue" =>
                 /\ \A t \in Task : n.draft[t] # None =>
                        /\ status[t] = None
                        /\ (\E g \in Target : n.item[g] = t) \/ n.found = t
                 /\ \A g \in Target : n.item[g] # None => Fits(g, n.item[g])
                 /\ \A g, h \in Target : n.item[g] # None /\ n.item[g] = n.item[h] => g = h
                 /\ n.at = "link" => /\ Fits(Min(n.todo), n.found)
                                     /\ \A g \in Target : n.item[g] # n.found
      PROVE  NewRowsOf(x)'
  BY <1>b, <1>e DEF NewRowsOf, Linkable, ActiveTasks, Drafted, Linked
<1>f. \A g, t : Linkable(x, g, t) /\ n.draft[t] = r.draft[t] => Fits(g, t)
  BY DEF Linkable
<1> HIDE DEF Fits
\* The steps of the other functions.
<1>c. ASSUME n.op # "enqueue", n.op \in TaskOps => r.op \in TaskOps /\ n.draft = r.draft
      PROVE  Good
  <2>1. NewRowsOf(x)' /\ Inserts
    BY <1>c DEF NewRowsOf
  <2>2. WritesOf(x)'
    BY <1>a, <1>b, <1>c DEF WritesOf, Drafted
  <2>3. QED
    BY <2>1, <2>2
\* The steps of an enqueue that neither look up nor link.
<1>d. ASSUME n.op = "enqueue", r.op = "enqueue", n.draft = r.draft, n.item = r.item,
             n.found = r.found, n.at # "link", r.at # "link"
      PROVE  Good
  <2>1. WritesOf(x)' /\ Inserts
    BY <1>d DEF WritesOf, TaskOps
  <2>3. NewRowsOf(x)'
    BY <1>a, <1>d, <1>e, <1>f DEF NewRowsOf, Drafted, Linked
  <2>4. QED
    BY <2>1, <2>3
<1>1. ASSUME NEW b \in Batch, NEW S \in SUBSET Target, BeginEnqueue(x, b, S)
      PROVE  Good
  <2>1. /\ n.op = "enqueue" /\ n.at = "advisory" /\ n.found = None
        /\ n.draft = [t \in Task |-> None] /\ n.item = NoMembers
    BY <1>1, BeginEnqueueFacts
  <2>2. NewRowsOf(x)'
    BY <1>e, <2>1 DEF NoMembers
  <2>3. QED
    BY <2>1, <2>2 DEF WritesOf, TaskOps
<1>2. ASSUME NEW t \in Task, BeginSettle(x, t)
      PROVE  Good
  <2>1. n.op = "settle" /\ n.draft = [u \in Task |-> None]
    BY <1>2, BeginSettleFacts
  <2>2. QED
    BY <2>1 DEF NewRowsOf, WritesOf, Drafted
<1>3. ASSUME NEW S \in SUBSET Target, BeginCancel(x, S)
      PROVE  Good
  <2>1. n.op = "cancel" /\ n.draft = [u \in Task |-> None]
    BY <1>3, BeginCancelFacts
  <2>2. QED
    BY <2>1 DEF NewRowsOf, WritesOf, Drafted
<1>17. ASSUME NEW S \in SUBSET Target, CancelMore(x, S)
       PROVE  Good
  <2>1. r.op = "cancel" /\ n.op = "cancel" /\ n.draft = r.draft
    BY <1>17, CancelMoreFacts
  <2>2. QED
    BY <1>c, <2>1 DEF TaskOps
<1>4. ASSUME NEW b \in Batch, BeginPoll(x, b)
      PROVE  Good
  <2>1. n.op = "poll"
    BY <1>4, BeginPollFacts
  <2>2. QED
    BY <1>c, <2>1 DEF TaskOps
<1>5. CASE LockResource(x)
  <2>1. /\ r.at = "advisory" /\ n.at = "advisory" /\ n.op = r.op /\ n.draft = r.draft
        /\ n.item = r.item /\ n.found = r.found
    BY <1>5, LockResourceFacts
  <2>2. QED
    BY <1>c, <1>d, <2>1
<1>6. CASE LookUpTask(x)
  <2> DEFINE g == Min(r.todo)
  <2>1. /\ r.op = "enqueue" /\ r.at = "advisory" /\ r.todo # {}
        /\ n.op = "enqueue" /\ n.at = "link"
        /\ n.todo = r.todo /\ n.item = r.item /\ n.found \in Task
    BY <1>6, LookUpTaskFacts
  <2>2. \/ n.found \in ActiveTasks(g) /\ n.draft = r.draft
        \/ /\ ActiveTasks(g) = {} /\ n.found \in FreshTasks
           /\ n.draft = [r.draft EXCEPT ![n.found] = "pending"]
    BY <1>6, LookUpTaskFacts
  <2>3. /\ r.todo \subseteq Target /\ r.found = None
        /\ \A h \in Target : r.item[h] # None => h \notin r.todo
        /\ \A t \in Task : r.draft[t] # None => status[t] = None /\ Linked(x, t)
    <3>1. r.found = None
      BY <1>a, <2>1 DEF EnqueueShape
    <3>2. QED
      BY <1>a, <2>1, <3>1, NoneIsNoView DEF EnqueueShape, NewRowsOf, Drafted
  <2>4. g \in r.todo /\ g \in Target
    BY <2>1, <2>3, MinIsLeast, TransactionsAssumption
  <2>g. n.todo = r.todo /\ Min(n.todo) = g
    BY <2>1
  <2> HIDE DEF g
  <2>5. CASE n.found \in ActiveTasks(g) /\ n.draft = r.draft
    <3>1. status[n.found] \in Active /\ target[n.found] = g
      BY <2>5 DEF ActiveTasks
    <3>2. r.draft[n.found] = None
      BY <2>1, <2>3, <3>1, ActiveIsStatus
    <3>3. Fits(g, n.found)
      BY <2>5, <3>1, <3>2, ActiveIsStatus DEF Fits
    <3>4. \A h \in Target : r.item[h] # n.found
      <4>1. ASSUME NEW h \in Target, r.item[h] = n.found PROVE FALSE
        <5>1. Linkable(x, h, n.found) /\ h \notin r.todo
          BY <1>a, <2>1, <2>3, <4>1, NoneIsNoView DEF NewRowsOf
        <5>2. target[n.found] = h
          BY <3>1, <5>1, ActiveIsStatus DEF Linkable
        <5>3. QED
          BY <2>4, <3>1, <5>1, <5>2
      <4>2. QED
        BY <4>1
    <3>5. \A h \in Target : n.item[h] # None => Fits(h, n.item[h])
      BY <1>a, <1>f, <2>1, <2>5 DEF NewRowsOf
    <3>6. NewRowsOf(x)'
      BY <1>a, <1>e, <2>1, <2>3, <2>5, <2>g, <3>3, <3>4, <3>5 DEF NewRowsOf, Linked
    <3>7. QED
      BY <2>1, <2>5, <3>6 DEF WritesOf, TaskOps
  <2>6. CASE /\ ActiveTasks(g) = {} /\ n.found \in FreshTasks
             /\ n.draft = [r.draft EXCEPT ![n.found] = "pending"]
    <3>1. status[n.found] = None /\ r.draft[n.found] = None
      BY <2>6 DEF FreshTasks
    <3>2. /\ n.draft[n.found] = "pending"
          /\ \A t \in Task : t # n.found => n.draft[t] = r.draft[t]
      BY <1>a, <2>1, <2>6 DEF Transaction
    <3>3. Fits(g, n.found)
      BY <2>6, <3>1, <3>2 DEF Fits
    <3>4. \A h \in Target : r.item[h] # n.found
      BY <1>a, <2>1, <3>1, NoneIsNoView, ActiveIsStatus DEF NewRowsOf, Linkable
    <3>6. \A h \in Target : r.item[h] # None => r.item[h] \in Task
      BY <1>a DEF Transaction
    <3>7. \A h \in Target : n.item[h] # None => Fits(h, n.item[h])
      BY <1>a, <1>f, <2>1, <3>2, <3>4, <3>6 DEF NewRowsOf
    <3>8. \A t \in Task : n.draft[t] # None =>
              status[t] = None /\ ((\E h \in Target : n.item[h] = t) \/ n.found = t)
      BY <2>1, <2>3, <3>1, <3>2 DEF Linked
    <3>9. NewRowsOf(x)'
      BY <1>a, <1>e, <2>1, <2>g, <3>3, <3>4, <3>7, <3>8 DEF NewRowsOf
    <3>10. QED
      BY <2>1, <2>6, <3>2, <3>9 DEF WritesOf, TaskOps
  <2>7. QED
    BY <2>2, <2>5, <2>6 DEF g
<1>7. CASE LinkBatchItem(x)
  <2> DEFINE m == Min(r.todo)
  <2>1. /\ r.at = "link" /\ n.at = "advisory" /\ n.op = r.op /\ n.draft = r.draft
        /\ n.found = None /\ n.item = [r.item EXCEPT ![m] = r.found]
    BY <1>7, LinkBatchItemFacts
  <2>2. r.op = "enqueue"
    BY <2>1, LabelCases
  <2>3. /\ r.todo # {} /\ r.todo \subseteq Target /\ r.found # None
        /\ r.found \in Task
    BY <1>a, <2>1, <2>2 DEF EnqueueShape, Transaction
  <2>4. m \in r.todo /\ m \in Target
    BY <2>3, MinIsLeast, TransactionsAssumption
  <2>5. Linkable(x, m, r.found) /\ \A g \in Target : r.item[g] # r.found
    BY <1>a, <2>1, <2>2 DEF NewRowsOf
  <2>6. r.item[m] = None
    BY <1>a, <2>2, <2>4 DEF EnqueueShape
  <2> HIDE DEF m
  <2>7. n.item[m] = r.found /\ \A g \in Target : g # m => n.item[g] = r.item[g]
    BY <1>a, <2>1, <2>4 DEF Transaction
  <2>9. \A g \in Target : n.item[g] # None => Fits(g, n.item[g])
    BY <1>a, <1>f, <2>1, <2>2, <2>5, <2>7 DEF NewRowsOf
  <2>10. \A t \in Task : n.draft[t] # None =>
             status[t] = None /\ \E g \in Target : n.item[g] = t
    <3>1. \A t \in Task : Linked(x, t) \/ r.found = t => \E g \in Target : n.item[g] = t
      BY <2>4, <2>6, <2>7, NoneIsNoView DEF Linked
    <3>2. QED
      BY <1>a, <2>1, <2>2, <3>1 DEF NewRowsOf, Drafted
  <2>11. \A g, h \in Target : n.item[g] # None /\ n.item[g] = n.item[h] => g = h
    BY <1>a, <2>2, <2>5, <2>7 DEF NewRowsOf
  <2>12. NewRowsOf(x)'
    BY <1>e, <2>1, <2>9, <2>10, <2>11
  <2>13. QED
    BY <2>1, <2>2, <2>12 DEF WritesOf, TaskOps
<1>8. CASE SealBatch(x)
  <2>1. /\ r.op = "enqueue" /\ r.at = "advisory" /\ n.at = "refresh" /\ n.op = "enqueue"
        /\ n.found = r.found /\ n.draft = r.draft /\ n.item = r.item
    BY <1>8, SealBatchFacts
  <2>2. QED
    BY <1>d, <2>1
<1>9. ASSUME NEW s \in TaskStatus, SettleTask(x, s)
      PROVE  Good
  <2>1. r.op = "settle" /\ n.op = "settle"
    BY <1>9, SettleTaskFacts
  <2>2. PICK t \in Task : status[t] \in Active /\ n.draft = [r.draft EXCEPT ![t] = s]
    BY <1>9, SettleTaskFacts
  <2>3. \A u \in Task : n.draft[u] # None => r.draft[u] # None \/ u = t
    BY <1>a, <2>2 DEF Transaction
  <2>4. WritesOf(x)'
    BY <1>a, <1>b, <2>1, <2>2, <2>3 DEF WritesOf, Drafted, TaskOps
  <2>5. QED
    BY <2>1, <2>4 DEF NewRowsOf
<1>10. CASE SelectTasks(x)
  <2>1. r.op = "cancel" /\ n.op = "cancel" /\ n.draft = r.draft
    BY <1>10, SelectTasksFacts
  <2>2. QED
    BY <1>c, <2>1 DEF TaskOps
<1>11. CASE LockTask(x)
  <2> DEFINE t == Min(r.rows)
  <2>0. r.rows # {}
    BY <1>11 DEF LockTask, RowsToLock
  <2>1. /\ r.op = "cancel" /\ n.op = "cancel" /\ t \in Task
        /\ \/ status[t] \in Active /\ n.draft = [r.draft EXCEPT ![t] = "cancelled"]
           \/ n.draft = r.draft
    BY <1>11, <2>0, LockTaskFacts
  <2> HIDE DEF t
  <2>2. \A u \in Task : n.draft[u] # None => r.draft[u] # None \/ (u = t /\ status[t] \in Active)
    BY <1>a, <2>1 DEF Transaction
  <2>3. WritesOf(x)'
    BY <1>a, <1>b, <2>1, <2>2 DEF WritesOf, Drafted, TaskOps
  <2>4. QED
    BY <2>1, <2>3 DEF NewRowsOf
<1>12. ASSUME NEW T \in SUBSET Task, FailExhausted(x, T) \/ TakeClaimable(x, T)
       PROVE  Good
  <2>1. PICK s \in TaskStatus, op \in {"exhaust", "claim"} : TakeRows(x, T, s, op)
    BY <1>12 DEF FailExhausted, TakeClaimable, TaskStatus, Active, Terminal
  <2>2. op \in Op
    BY DEF Op
  <2>3. /\ n.op = op
        /\ \A t \in Task : n.draft[t] = IF t \in T THEN s ELSE r.draft[t]
    BY <2>1, <2>2, TakeRowsFacts
  <2>4. \A t \in Task : r.draft[t] # None => status[t] \in Active
    BY <1>12, <1>a, IdleFields DEF FailExhausted, TakeClaimable, WritesOf, Drafted, TaskOps
  <2>5. \A t \in T : status[t] \in Active
    <3>1. CASE FailExhausted(x, T)
      BY <3>1 DEF FailExhausted, Active
    <3>2. CASE TakeClaimable(x, T)
      BY <2>4, <3>2 DEF TakeClaimable, StatusSeen
    <3>3. QED
      BY <1>12, <3>1, <3>2
  <2>6. WritesOf(x)'
    BY <1>b, <2>3, <2>4, <2>5 DEF WritesOf, Drafted
  <2>7. QED
    BY <2>3, <2>6 DEF NewRowsOf
<1>13. CASE FindBatchIds(x)
  <2>1. /\ n.op = r.op /\ n.draft = r.draft /\ n.item = r.item /\ n.found = r.found
        /\ n.at = "refresh" /\ r.at = "refresh"
    BY <1>13, FindBatchIdsFacts
  <2>2. QED
    BY <1>c, <1>d, <2>1
<1>14. CASE LockBatch(x)
  <2>1. /\ n.op = r.op /\ n.draft = r.draft /\ n.item = r.item /\ n.found = r.found
        /\ n.at = "count" /\ r.at = "refresh"
    BY <1>14, LockBatchFacts
  <2>2. QED
    BY <1>c, <1>d, <2>1
<1>15. CASE CountTasks(x)
  <2>1. /\ n.op = r.op /\ n.draft = r.draft /\ n.item = r.item
        /\ r.at = "count" /\ n.at = "refresh"
    BY <1>15, CountTasksFacts
  <2>2. r.op # "enqueue"
    BY <2>1, LabelCases DEF TaskOps
  <2>3. QED
    BY <1>c, <2>1, <2>2
<1>16. QED
  BY <1>1, <1>2, <1>3, <1>4, <1>5, <1>6, <1>7, <1>8, <1>9, <1>10, <1>11, <1>12, <1>13,
     <1>14, <1>15, <1>17 DEF Own, Statement

\* What a commit does to task rows: an enqueue adds rows that it has linked,
\* for targets without an active task; the others rewrite active rows.
LEMMA RowsWritten ==
    ASSUME Typed, Shape, Existence, Locks, Rows, NEW x \in Txn, Commit(x), NEW t \in Task
    PROVE  LET r == run[x] IN
           /\ status[t] # None => status'[t] # None /\ target'[t] = target[t]
           /\ status[t] # None /\ status'[t] # status[t] =>
                  r.op \in TaskOps /\ Drafted(x, t) /\ status[t] \in Active /\ row[t] = x
           /\ status[t] = None /\ status'[t] # None =>
                  /\ r.op = "enqueue" /\ Drafted(x, t) /\ status'[t] = "pending"
                  /\ target'[t] \in Target /\ r.item[target'[t]] = t
                  /\ ActiveTasks(target'[t]) = {}
           /\ status'[t] = None <=> target'[t] = None
           /\ \A g \in Target : r.item[g] = t => status'[t] # None /\ target'[t] = g
<1> USE DEF Typed
<1> DEFINE r == run[x]
<1>1. r \in Transaction /\ NewRowsOf(x) /\ WritesOf(x) /\ RestShape(x) /\ EnqueueShape(x)
  BY DEF TypeOK, Rows, Shape, ShapeOf
<1>2. /\ r.at = "refresh" /\ status'[t] = StatusSeen(x, t)
      /\ \/ target[t] # None /\ target'[t] = target[t]
         \/ target[t] = None /\ target'[t] \in Target /\ r.item[target'[t]] = t
         \/ target[t] = None /\ target'[t] = None /\ \A g \in Target : r.item[g] # t
  BY CommitFacts
<1>3. status[t] = None <=> target[t] = None
  BY DEF Rows, TasksHaveTargets
<1>4. r.found = None \/ r.op # "enqueue"
  BY <1>1, <1>2 DEF EnqueueShape
<1>5. t # None
  BY NoneIsNoView
<1>6. (\E g \in Target : r.item[g] = t) => r.op = "enqueue"
  BY <1>1, <1>5 DEF RestShape, NoMembers
<1>7. ASSUME NEW g \in Target, r.item[g] = t
      PROVE  \/ status[t] # None /\ target[t] = g /\ r.draft[t] = None
             \/ status[t] = None /\ r.draft[t] = "pending" /\ ActiveTasks(g) = {}
  BY <1>1, <1>5, <1>6, <1>7 DEF NewRowsOf, Linkable
<1>8. r.draft[t] # None /\ status[t] = None =>
          r.op = "enqueue" /\ \E g \in Target : r.item[g] = t
  <2>1. r.draft[t] # None /\ status[t] = None => r.op = "enqueue"
    BY WriterCases, ActiveIsStatus DEF Drafted
  <2>2. QED
    BY <1>1, <1>4, <1>5, <2>1 DEF NewRowsOf, Drafted, Linked
<1>9. r.draft[t] # None /\ status[t] # None =>
          r.op \in TaskOps /\ status[t] \in Active /\ row[t] = x
  BY WriterCases DEF Drafted
<1>10. status[t] # None => status'[t] # None /\ target'[t] = target[t]
  BY <1>2, <1>3 DEF StatusSeen
<1>11. status[t] # None /\ status'[t] # status[t] =>
           r.op \in TaskOps /\ Drafted(x, t) /\ status[t] \in Active /\ row[t] = x
  BY <1>2, <1>9 DEF StatusSeen, Drafted
<1>12. status[t] = None /\ status'[t] # None =>
           /\ r.op = "enqueue" /\ Drafted(x, t) /\ status'[t] = "pending"
           /\ target'[t] \in Target /\ r.item[target'[t]] = t
           /\ ActiveTasks(target'[t]) = {}
  <2>1. SUFFICES ASSUME status[t] = None, status'[t] # None
                 PROVE  /\ r.op = "enqueue" /\ Drafted(x, t) /\ status'[t] = "pending"
                        /\ target'[t] \in Target /\ r.item[target'[t]] = t
                        /\ ActiveTasks(target'[t]) = {}
    OBVIOUS
  <2>2. r.draft[t] # None /\ status'[t] = r.draft[t]
    BY <1>2, <2>1 DEF StatusSeen
  <2>3. r.op = "enqueue" /\ target'[t] \in Target /\ r.item[target'[t]] = t
    BY <1>2, <1>3, <1>8, <2>1, <2>2
  <2>4. QED
    BY <1>7, <2>1, <2>2, <2>3 DEF Drafted
<1>13. \A g \in Target : r.item[g] = t => status'[t] # None /\ target'[t] = g
  <2>1. SUFFICES ASSUME NEW g \in Target, r.item[g] = t
                 PROVE  status'[t] # None /\ target'[t] = g
    OBVIOUS
  <2>2. CASE status[t] # None
    BY <1>7, <1>10, <2>1, <2>2
  <2>3. CASE status[t] = None
    <3>1. status'[t] # None
      BY <1>2, <1>7, <2>1, <2>3, ActiveIsStatus DEF StatusSeen
    <3>2. target'[t] \in Target /\ r.item[target'[t]] = t /\ r.op = "enqueue"
      BY <1>12, <2>3, <3>1
    <3>3. QED
      BY <1>1, <1>5, <2>1, <3>1, <3>2 DEF NewRowsOf
  <2>4. QED
    BY <2>2, <2>3
<1>14. status'[t] = None <=> target'[t] = None
  BY <1>2, <1>3, <1>10, <1>12, <1>13, NoneIsNoView
<1>15. QED
  BY <1>10, <1>11, <1>12, <1>13, <1>14

\* A commit gives the target of a resource lock that another session holds no
\* active task.
LEMMA StillNoActiveTask ==
    ASSUME Typed, Shape, Existence, Locks, Rows, NEW x \in Txn, Commit(x),
           NEW g \in Target, ActiveTasks(g) = {}, advisory[g] # x
    PROVE  ActiveTasks(g)' = {}
<1> SUFFICES ASSUME NEW t \in Task, status'[t] \in Active, target'[t] = g PROVE FALSE
  BY DEF ActiveTasks
<1>1. CASE status[t] # None
  <2>1. target[t] = g
    BY <1>1, RowsWritten
  <2>2. status[t] \in Active
    BY <1>1, RowsWritten
  <2>3. QED
    BY <2>1, <2>2 DEF ActiveTasks
<1>2. CASE status[t] = None
  <2>1. status'[t] # None
    BY ActiveIsStatus
  <2>2. run[x].op = "enqueue" /\ run[x].item[g] = t
    BY <1>2, <2>1, RowsWritten
  <2>3. run[x].item[g] # None
    BY <2>2, NoneIsNoView
  <2>4. QED
    BY <2>2, <2>3 DEF Locks, LocksOf, AdvisoryLocksOf
<1>3. QED
  BY <1>1, <1>2

LEMMA RowsStep ==
    ASSUME Typed, Shape, Existence, Locks, Rows, [Next]_vars
    PROVE  Rows'
<1> USE DEF Typed
<1>1. ASSUME NEW x \in Txn, Own(x) PROVE Rows'
  <2>1. /\ UNCHANGED <<status, target, item>> /\ Others(x)
    BY <1>1, OwnSteps DEF OwnStep
  <2>2. TasksHaveTargets' /\ MembersAreTasks' /\ OneActive'
    BY <2>1 DEF Rows, TasksHaveTargets, MembersAreTasks, OneActive
  <2>3. NewRowsOf(x)' /\ WritesOf(x)'
    BY <1>1, RowsOwnStep
  <2>4. ASSUME NEW y \in Txn, y # x PROVE NewRowsOf(y)' /\ WritesOf(y)'
    <3>1. run'[y] = run[y] /\ NewRowsOf(y) /\ WritesOf(y)
      BY <2>1, <2>4 DEF Others, Rows
    <3>2. NewRowsOf(y)'
      BY <2>1, <3>1, NewRowsKept
    <3>3. QED
      BY <2>1, <3>1, <3>2 DEF WritesOf, Drafted
  <2>5. InsertedOnce'
    <3>1. \A t \in Task : run'[x].op = "enqueue" /\ run'[x].draft[t] # None =>
              \/ run[x].op = "enqueue" /\ run[x].draft[t] # None
              \/ \A y \in Txn : run[y].draft[t] = None
      BY <1>1, RowsOwnStep DEF Drafted, FreshTasks
    <3>2. ASSUME NEW y \in Txn, NEW t \in Task, run'[x].op = "enqueue", run'[y].op = "enqueue",
                 run'[x].draft[t] # None, run'[y].draft[t] # None
          PROVE  x = y
      <4>1. SUFFICES ASSUME y # x PROVE FALSE
        OBVIOUS
      <4>2. run[y].op = "enqueue" /\ run[y].draft[t] # None
        BY <2>1, <3>2, <4>1 DEF Others
      <4>3. QED
        BY <3>1, <3>2, <4>1, <4>2 DEF Rows, InsertedOnce, Drafted
    <3>3. ASSUME NEW y \in Txn, NEW z \in Txn, NEW t \in Task, y # x, z # x,
                 run'[y].op = "enqueue", run'[z].op = "enqueue",
                 run'[y].draft[t] # None, run'[z].draft[t] # None
          PROVE  y = z
      BY <2>1, <3>3 DEF Others, Rows, InsertedOnce, Drafted
    <3>4. QED
      BY <3>2, <3>3 DEF InsertedOnce, Drafted
  <2>6. QED
    BY <2>2, <2>3, <2>4, <2>5 DEF Rows
<1>2. ASSUME NEW x \in Txn, Commit(x) PROVE Rows'
  <2> DEFINE r == run[x]
  <2>1. Others(x) /\ run'[x] = Idle
    BY <1>2, EndFacts
  <2>2. TasksHaveTargets'
    BY <1>2, RowsWritten DEF TasksHaveTargets
  <2>3. MembersAreTasks'
    <3>1. ASSUME NEW b \in Batch, NEW g \in Target, item'[b][g] # None
          PROVE  status'[item'[b][g]] # None /\ target'[item'[b][g]] = g
      <4>0. item'[b][g] \in Task
        BY <1>2, <3>1, CommitFacts
      <4>1. CASE r.op = "enqueue" /\ b = r.batch
        <5>1. item'[b][g] = r.item[g]
          BY <1>2, <4>1, CommitFacts
        <5>2. QED
          BY <1>2, <4>0, <5>1, RowsWritten
      <4>2. CASE ~(r.op = "enqueue" /\ b = r.batch)
        <5>1. item'[b][g] = item[b][g]
          BY <1>2, <4>2, CommitFacts
        <5>2. status[item[b][g]] # None /\ target[item[b][g]] = g
          BY <3>1, <5>1 DEF Rows, MembersAreTasks
        <5>3. QED
          BY <1>2, <4>0, <5>1, <5>2, RowsWritten
      <4>3. QED
        BY <4>1, <4>2
    <3>2. QED
      BY <3>1 DEF MembersAreTasks
  <2>4. OneActive'
    <3>1. ASSUME NEW t \in Task, NEW u \in Task, status'[t] \in Active, status'[u] \in Active,
                 target'[t] = target'[u]
          PROVE  t = u
      <4>1. status'[t] # None /\ status'[u] # None
        BY <3>1, ActiveIsStatus
      <4>2. \A v \in {t, u} : status[v] # None => status[v] \in Active /\ target'[v] = target[v]
        BY <1>2, <3>1, RowsWritten
      <4>3. \A v \in {t, u} : status[v] = None =>
                /\ target'[v] \in Target /\ r.item[target'[v]] = v
                /\ ActiveTasks(target'[v]) = {}
        BY <1>2, <4>1, RowsWritten
      <4>4. CASE status[t] # None /\ status[u] # None
        BY <3>1, <4>2, <4>4 DEF Rows, OneActive
      <4>5. CASE status[t] = None /\ status[u] = None
        BY <3>1, <4>3, <4>5
      <4>6. CASE status[t] = None /\ status[u] # None
        <5>1. status[u] \in Active /\ target[u] = target'[t] /\ ActiveTasks(target'[t]) = {}
          BY <3>1, <4>2, <4>3, <4>6
        <5>2. QED
          BY <5>1 DEF ActiveTasks
      <4>7. CASE status[t] # None /\ status[u] = None
        <5>1. status[t] \in Active /\ target[t] = target'[u] /\ ActiveTasks(target'[u]) = {}
          BY <3>1, <4>2, <4>3, <4>7
        <5>2. QED
          BY <5>1 DEF ActiveTasks
      <4>8. QED
        BY <4>4, <4>5, <4>6, <4>7
    <3>2. QED
      BY <3>1 DEF OneActive
  <2>5. InsertedOnce'
    <3>1. \A y \in Txn : run'[y].op = "enqueue" => y # x /\ run'[y] = run[y]
      BY <2>1, IdleFields DEF Others
    <3>2. QED
      BY <3>1 DEF Rows, InsertedOnce, Drafted
  <2>6. NewRowsOf(x)' /\ WritesOf(x)'
    BY <2>1, IdleFields DEF NewRowsOf, WritesOf, TaskOps
  <2>7. ASSUME NEW y \in Txn, y # x PROVE NewRowsOf(y)' /\ WritesOf(y)'
    <3>0. run'[y] = run[y] /\ NewRowsOf(y) /\ WritesOf(y)
      BY <2>1, <2>7 DEF Others, Rows
    <3>1. ASSUME NEW t \in Task, Drafted(y, t) PROVE status'[t] = status[t]
      <4>1. CASE run[y].op = "enqueue" /\ status[t] = None
        <5>1. status'[t] # None => run[x].op = "enqueue" /\ Drafted(x, t)
          BY <1>2, <4>1, RowsWritten
        <5>2. QED
          BY <2>7, <3>1, <4>1, <5>1 DEF Rows, InsertedOnce
      <4>2. CASE run[y].op \in TaskOps /\ status[t] \in Active /\ row[t] = y
        <5>1. status'[t] # status[t] => row[t] = x
          BY <1>2, <4>2, RowsWritten, ActiveIsStatus
        <5>2. QED
          BY <2>7, <4>2, <5>1
      <4>3. QED
        BY <3>1, <4>1, <4>2, WriterCases
    <3>2. WritesOf(y)'
      BY <3>0, <3>1 DEF WritesOf, Drafted
    <3>3. ASSUME NEW g \in Target, NEW t \in Task, advisory[g] = y, Linkable(y, g, t)
          PROVE  Linkable(y, g, t)'
      <4>1. CASE status[t] # None /\ target[t] = g /\ run[y].draft[t] = None
        <5>1. status'[t] # None /\ target'[t] = g
          BY <1>2, <4>1, RowsWritten
        <5>2. QED
          BY <3>0, <4>1, <5>1 DEF Linkable
      <4>2. CASE status[t] = None /\ run[y].draft[t] = "pending" /\ ActiveTasks(g) = {}
        <5>1. status'[t] = None
          BY <3>1, <4>2, ActiveIsStatus DEF Drafted
        <5>2. ActiveTasks(g)' = {}
          BY <1>2, <2>7, <3>3, <4>2, StillNoActiveTask
        <5>3. QED
          BY <3>0, <4>2, <5>1, <5>2 DEF Linkable
      <4>3. QED
        BY <3>3, <4>1, <4>2 DEF Linkable
    <3>4. NewRowsOf(y)'
      <4>1. SUFFICES ASSUME run[y].op = "enqueue" PROVE NewRowsOf(y)'
        BY <3>0 DEF NewRowsOf
      <4>2. run[y] \in Transaction /\ EnqueueShape(y) /\ AdvisoryLocksOf(y)
        BY DEF TypeOK, Shape, ShapeOf, Locks, LocksOf
      <4>3. \A t \in Task : Drafted(y, t)' => status'[t] = None /\ (Linked(y, t)' \/ run'[y].found = t)
        BY <3>0, <3>1, <4>1 DEF NewRowsOf, Drafted, Linked
      <4>4. ASSUME NEW g \in Target, run[y].item[g] # None
            PROVE  Linkable(y, g, run[y].item[g]) /\ advisory[g] = y /\ run[y].item[g] \in Task
        BY <3>0, <4>1, <4>2, <4>4 DEF NewRowsOf, AdvisoryLocksOf, Transaction
      <4>5. ASSUME NEW g \in Target, NEW t, t = run[y].item[g], t # None
            PROVE  Linkable(y, g, t)'
        BY <3>3, <4>4, <4>5
      <4>6. ASSUME run[y].at = "link", NEW g, g = Min(run[y].todo), NEW t, t = run[y].found
            PROVE  Linkable(y, g, t)'
        <5>1. run[y].todo # {} /\ run[y].todo \subseteq Target /\ run[y].targets = {}
              /\ t \in Task
          BY <4>1, <4>2, <4>6 DEF EnqueueShape, Transaction
        <5>2. g \in run[y].todo /\ g \in Target
          BY <4>6, <5>1, MinIsLeast, TransactionsAssumption
        <5>3. advisory[g] = y
          BY <4>1, <4>2, <5>1, <5>2 DEF AdvisoryLocksOf
        <5>4. QED
          BY <3>0, <3>3, <4>1, <4>6, <5>1, <5>2, <5>3 DEF NewRowsOf
      <4>7. QED
        BY <3>0, <4>1, <4>3, <4>5, <4>6 DEF NewRowsOf
    <3>5. QED
      BY <3>2, <3>4
  <2>8. QED
    BY <2>2, <2>3, <2>4, <2>5, <2>6, <2>7 DEF Rows
<1>3. ASSUME NEW x \in Txn, Rollback(x) PROVE Rows'
  <2>1. Others(x) /\ run'[x] = Idle /\ UNCHANGED <<status, target, item>>
    BY <1>3, EndFacts DEF Rollback, committed
  <2>2. TasksHaveTargets' /\ MembersAreTasks' /\ OneActive'
    BY <2>1 DEF Rows, TasksHaveTargets, MembersAreTasks, OneActive
  <2>3. NewRowsOf(x)' /\ WritesOf(x)'
    BY <2>1, IdleFields DEF NewRowsOf, WritesOf, TaskOps
  <2>4. ASSUME NEW y \in Txn, y # x PROVE NewRowsOf(y)' /\ WritesOf(y)'
    <3>1. run'[y] = run[y] /\ NewRowsOf(y) /\ WritesOf(y)
      BY <2>1, <2>4 DEF Others, Rows
    <3>2. NewRowsOf(y)'
      BY <2>1, <3>1, NewRowsKept
    <3>3. QED
      BY <2>1, <3>1, <3>2 DEF WritesOf, Drafted
  <2>5. InsertedOnce'
    <3>1. \A y \in Txn : run'[y].op = "enqueue" => y # x /\ run'[y] = run[y]
      BY <2>1, IdleFields DEF Others
    <3>2. QED
      BY <3>1 DEF Rows, InsertedOnce, Drafted
  <2>6. QED
    BY <2>2, <2>3, <2>4, <2>5 DEF Rows
<1>4. CASE UNCHANGED vars
  <2>1. UNCHANGED <<status, target, item, run>>
    BY <1>4 DEF vars, committed
  <2>2. \A y \in Txn : NewRowsOf(y)'
    BY <2>1, NewRowsKept DEF Rows
  <2>3. QED
    BY <2>1, <2>2 DEF Rows, TasksHaveTargets, MembersAreTasks, OneActive, InsertedOnce,
                      WritesOf, Drafted
<1>5. QED
  BY <1>1, <1>2, <1>3, <1>4, NextForms

-----------------------------------------------------------------------------
(* The inductive invariant of the lock protocol. *)

LockInv == Typed /\ Shape /\ Existence /\ Locks /\ Rows

LEMMA LockInvInit == Init => LockInv
<1> SUFFICES ASSUME Init PROVE LockInv
  OBVIOUS
<1>1. /\ \A t \in Task : status[t] = None /\ target[t] = None /\ row[t] = None /\ share[t] = {}
      /\ \A b \in Batch : view[b] = None /\ batchRow[b] = None
      /\ \A b \in Batch, g \in Target : item[b][g] = None
      /\ \A g \in Target : advisory[g] = None
      /\ \A x \in Txn : run[x] = Idle
  BY DEF Init, NoMembers
<1>2. Typed
  <2>1. NoMembers \in [Target -> Task \cup {None}]
    BY DEF NoMembers
  <2>2. TypeOK
    BY <2>1, IdleIsTransaction, TransactionsAssumption DEF Init, TypeOK
  <2>3. QED
    BY <1>1, <2>2, IdleFields DEF RowsToLock, Typed
<1>3. Shape
  BY <1>1, IdleFields DEF Shape, ShapeOf, EnqueueShape, TaskShape, RestShape, TaskOps
<1>4. Existence
  BY <1>1, IdleFields DEF Existence, RefreshedExist, NewBatches, MembersExist
<1>5. Locks
  <2>1. ASSUME NEW x \in Txn PROVE LocksOf(x)
    <3>1. run[x] = Idle /\ x # None
      BY <1>1, NoneIsNoView
    <3>2. \A g \in Target : Idle.item[g] = None
      BY IdleFields DEF NoMembers
    <3>3. RowLocksOf(x) /\ ShareLocksOf(x) /\ BatchLocksOf(x)
      BY <1>1, <3>1, <3>2, IdleFields, NoneIsNoView
         DEF RowLocksOf, ShareLocksOf, BatchLocksOf, Linked, TaskOps
    <3>4. AdvisoryLocksOf(x)
      BY <1>1, <3>1, IdleFields DEF AdvisoryLocksOf
    <3>5. QED
      BY <3>3, <3>4 DEF LocksOf
  <2>2. QED
    BY <1>1, <2>1 DEF Locks, LockExclusion
<1>6. Rows
  <2>1. TasksHaveTargets /\ MembersAreTasks /\ OneActive /\ InsertedOnce
    BY <1>1, ActiveIsStatus, IdleFields
       DEF TasksHaveTargets, MembersAreTasks, OneActive, InsertedOnce
  <2>2. \A x \in Txn : NewRowsOf(x) /\ WritesOf(x)
    BY <1>1, IdleFields DEF NewRowsOf, WritesOf, TaskOps
  <2>3. QED
    BY <2>1, <2>2 DEF Rows
<1>7. QED
  BY <1>2, <1>3, <1>4, <1>5, <1>6 DEF LockInv

LEMMA LockInvStep ==
    ASSUME LockInv, [Next]_vars
    PROVE  LockInv'
<1> USE DEF LockInv
<1>1. Typed'
  BY TypedStep
<1>2. Shape'
  BY ShapeStep
<1>3. Existence'
  BY ExistenceStep
<1>4. Locks'
  BY LocksStep
<1>5. Rows'
  BY RowsStep
<1>6. QED
  BY <1>1, <1>2, <1>3, <1>4, <1>5

LEMMA LockInvCorrect == Spec => []LockInv
<1>1. LockInv /\ [Next]_vars => LockInv'
  BY LockInvStep
<1>2. QED
  BY <1>1, LockInvInit, PTL DEF Spec

\* A row inserted for g and not yet committed: its session is an enqueue that
\* holds the lock of g, and there is no committed active row beside it.
LEMMA InsertedFacts ==
    ASSUME LockInv, NEW g \in Target, NEW x \in Txn, NEW t \in Task,
           target[t] = None, run[x].draft[t] = "pending",
           \/ run[x].item[g] = t
           \/ run[x].found = t /\ g = Min(run[x].todo)
    PROVE  /\ run[x].op = "enqueue" /\ advisory[g] = x /\ ActiveTasks(g) = {}
           /\ \A u \in Task : (\/ run[x].item[g] = u
                               \/ run[x].found = u /\ g = Min(run[x].todo)) => u = t
<1> USE DEF LockInv, Typed
<1> DEFINE r == run[x]
<1>1. r \in Transaction /\ EnqueueShape(x) /\ NewRowsOf(x) /\ AdvisoryLocksOf(x)
  BY DEF TypeOK, Shape, ShapeOf, Rows, Locks, LocksOf
<1>2. status[t] = None
  BY DEF Rows, TasksHaveTargets
<1>3. r.op = "enqueue"
  BY <1>2, WriterCases, ActiveIsStatus DEF Drafted
<1>4. t # None
  BY NoneIsNoView
<1>5. CASE r.item[g] = t
  <2>1. advisory[g] = x /\ g \notin r.todo
    BY <1>1, <1>3, <1>4, <1>5 DEF AdvisoryLocksOf, EnqueueShape
  <2>2. Linkable(x, g, t)
    BY <1>1, <1>3, <1>4, <1>5 DEF NewRowsOf
  <2>3. ActiveTasks(g) = {}
    BY <1>2, <2>2 DEF Linkable
  <2>4. ASSUME NEW u \in Task, r.found = u, g = Min(r.todo) PROVE FALSE
    <3>1. r.todo # {} /\ r.todo \subseteq Target
      BY <1>1, <1>3, <2>4, NoneIsNoView DEF EnqueueShape
    <3>2. g \in r.todo
      BY <2>4, <3>1, MinIsLeast, TransactionsAssumption
    <3>3. QED
      BY <2>1, <3>2
  <2>5. QED
    BY <1>3, <1>5, <2>1, <2>3, <2>4
<1>6. CASE r.found = t /\ g = Min(r.todo)
  <2>1. r.todo # {} /\ r.todo \subseteq Target /\ r.targets = {} /\ r.at = "link"
    BY <1>1, <1>3, <1>4, <1>6 DEF EnqueueShape
  <2>2. g \in r.todo
    BY <1>6, <2>1, MinIsLeast, TransactionsAssumption
  <2>3. advisory[g] = x
    BY <1>1, <1>3, <2>1, <2>2 DEF AdvisoryLocksOf
  <2>4. Linkable(x, g, t)
    BY <1>1, <1>3, <1>6, <2>1 DEF NewRowsOf
  <2>5. ActiveTasks(g) = {}
    BY <1>2, <2>4 DEF Linkable
  <2>6. r.item[g] = None
    BY <1>1, <1>3, <2>2 DEF EnqueueShape
  <2>7. QED
    BY <1>3, <1>6, <2>3, <2>5, <2>6, NoneIsNoView
<1>7. QED
  BY <1>5, <1>6

\* Looking up the active task of a target and inserting one are a single step
\* for everybody else: two transactions never insert an active task for the
\* same target, so the partial unique index never refuses an enqueue.
THEOREM InsertsNeverConflictCorrect == Spec => []InsertsNeverConflict
<1>1. LockInv => InsertsNeverConflict
  <2> SUFFICES ASSUME LockInv, NEW g \in Target
               PROVE  Cardinality(InsertedFor(g)) <= 1
    BY DEF InsertsNeverConflict
  <2>1. ASSUME NEW t \in InsertedFor(g), NEW u \in InsertedFor(g)
        PROVE  t = u
    <3> DEFINE New(v, x) == /\ target[v] = None /\ run[x].draft[v] = "pending"
                            /\ \/ run[x].item[g] = v
                               \/ run[x].found = v /\ g = Min(run[x].todo)
    <3>1. t \in Task /\ u \in Task
      BY DEF InsertedFor, ActiveTasks
    <3>2. /\ t \in ActiveTasks(g) \/ \E x \in Txn : New(t, x)
          /\ u \in ActiveTasks(g) \/ \E x \in Txn : New(u, x)
      BY DEF InsertedFor
    <3>3. ASSUME NEW v \in Task, NEW x \in Txn, New(v, x)
          PROVE  /\ advisory[g] = x /\ ActiveTasks(g) = {}
                 /\ \A w \in Task : (\/ run[x].item[g] = w
                                     \/ run[x].found = w /\ g = Min(run[x].todo)) => w = v
      BY <3>3, InsertedFacts
    <3>4. CASE t \in ActiveTasks(g) /\ u \in ActiveTasks(g)
      BY <3>4 DEF LockInv, Rows, OneActive, ActiveTasks
    <3>5. CASE (\E x \in Txn : New(t, x)) /\ (\E x \in Txn : New(u, x))
      BY <3>1, <3>3, <3>5
    <3>6. QED
      BY <3>1, <3>2, <3>3, <3>4, <3>5
  <2>2. CASE InsertedFor(g) = {}
    BY <2>2, FS_EmptySet
  <2>3. CASE InsertedFor(g) # {}
    <3>1. PICK t \in InsertedFor(g) : TRUE
      BY <2>3
    <3>2. InsertedFor(g) = {t}
      BY <2>1, <3>1
    <3>3. Cardinality({t}) = 1
      BY FS_Singleton
    <3>4. QED
      BY <3>2, <3>3
  <2>4. QED
    BY <2>2, <2>3
<1>2. QED
  BY <1>1, LockInvCorrect, PTL

-----------------------------------------------------------------------------
(* Settled tasks. *)

\* No outcome, cancellation or claim changes a task that has settled, however
\* long ago its session found it active.
THEOREM SettledTasksStay == Spec => SettledTasksAreFinal
<1> DEFINE Stays == \A t \in Task : status[t] \in Terminal =>
                        status'[t] = status[t] /\ target'[t] = target[t]
<1>1. LockInv /\ [Next]_vars => Stays
  <2> SUFFICES ASSUME LockInv, [Next]_vars, NEW t \in Task, status[t] \in Terminal
               PROVE  status'[t] = status[t] /\ target'[t] = target[t]
    OBVIOUS
  <2>1. status[t] # None /\ status[t] \notin Active
    BY ActiveIsStatus DEF Active, Terminal
  <2>2. ASSUME NEW x \in Txn, Commit(x)
        PROVE  status'[t] = status[t] /\ target'[t] = target[t]
    BY <2>1, <2>2, RowsWritten DEF LockInv
  <2>3. ASSUME NEW x \in Txn, Own(x)
        PROVE  status'[t] = status[t] /\ target'[t] = target[t]
    BY <2>3, OwnSteps DEF OwnStep, LockInv, Typed
  <2>4. ASSUME NEW x \in Txn, Rollback(x)
        PROVE  status'[t] = status[t] /\ target'[t] = target[t]
    BY <2>4 DEF Rollback, committed
  <2>5. CASE UNCHANGED vars
    BY <2>5 DEF vars, committed
  <2>6. QED
    BY <2>2, <2>3, <2>4, <2>5, NextForms
<1>2. QED
  BY <1>1, LockInvCorrect, PTL DEF Spec, SettledTasksAreFinal

-----------------------------------------------------------------------------
(* What the batch rows count. *)

Follows(b, t) == \E g \in Target : item[b][g] = t

\* Batch b is still to be refreshed by x.  (A cancellation that locks its
\* resources has refreshed all that it wrote before.)
Due(x, b) ==
    \/ run[x].at # "advisory" /\ \E t \in run[x].todo : Follows(b, t)
    \/ b \in run[x].batches
    \/ run[x].at = "count" /\ run[x].batch = b

\* A batch whose row or tasks the transaction has written is due, or its row
\* counts the tasks as the transaction leaves them.
CoveredOf(x) ==
    run[x].op \in TaskOps =>
        \A b \in Batch :
            (run[x].view[b] # None \/ \E t \in Task : Drafted(x, t) /\ Follows(b, t))
            => Due(x, b) \/ run[x].view[b] = ViewSeen(x, b)

\* The row a new batch is committed with counts its members.
SealedOf(x) ==
    run[x].op = "enqueue" /\ run[x].at = "refresh" =>
        run[x].view[run[x].batch] = ViewSeen(x, run[x].batch)

Counts == CommittedSummariesAgree /\ \A x \in Txn : CoveredOf(x) /\ SealedOf(x)

\* What a session counts for an existing batch, and for the one it creates.
LEMMA ViewSeenForms ==
    ASSUME NEW x \in Txn, NEW b \in Batch
    PROVE  /\ run[x].op # "enqueue" =>
                  ViewSeen(x, b) = [g \in Target |-> IF item[b][g] = None THEN None
                                                     ELSE StatusSeen(x, item[b][g])]
           /\ run[x].op = "enqueue" =>
                  ViewSeen(x, b) = [g \in Target |-> IF run[x].item[g] = None THEN None
                                                     ELSE StatusSeen(x, run[x].item[g])]
<1>1. run[x].op # "enqueue" =>
          ViewSeen(x, b) = [g \in Target |-> IF item[b][g] = None THEN None
                                             ELSE StatusSeen(x, item[b][g])]
  BY DEF ViewSeen
<1>2. run[x].op = "enqueue" =>
          ViewSeen(x, b) = [g \in Target |-> IF run[x].item[g] = None THEN None
                                             ELSE StatusSeen(x, run[x].item[g])]
  BY DEF ViewSeen
<1>3. QED
  BY <1>1, <1>2

\* A count stays what it is when its members and their statuses do.
LEMMA ViewSeenKept ==
    ASSUME TypeOK, NEW x \in Txn, NEW b \in Batch,
           run[x].op # "enqueue", run'[x].op # "enqueue", item'[b] = item[b],
           \A t \in Task : Follows(b, t) => StatusSeen(x, t)' = StatusSeen(x, t)
    PROVE  ViewSeen(x, b)' = ViewSeen(x, b)
<1>1. ASSUME NEW g \in Target, item[b][g] # None
      PROVE  StatusSeen(x, item[b][g])' = StatusSeen(x, item[b][g])
  <2>1. item[b][g] \in Task
    BY <1>1 DEF TypeOK
  <2>2. ASSUME NEW t \in Task, t = item[b][g]
        PROVE  StatusSeen(x, t)' = StatusSeen(x, t)
    BY <1>1, <2>2 DEF Follows
  <2>3. QED
    BY <2>1, <2>2 DEF StatusSeen
<1>2. ViewSeen(x, b) = [g \in Target |-> IF item[b][g] = None THEN None
                                         ELSE StatusSeen(x, item[b][g])]
  BY ViewSeenForms
<1>3. ViewSeen(x, b)' = [g \in Target |-> IF item[b][g] = None THEN None
                                          ELSE StatusSeen(x, item[b][g])']
  BY DEF ViewSeen, StatusSeen
<1>4. QED
  BY <1>1, <1>2, <1>3

\* The same for the batch a session creates.
LEMMA NewViewKept ==
    ASSUME TypeOK, NEW x \in Txn, NEW b \in Batch,
           run[x].op = "enqueue", run'[x].op = "enqueue", run'[x].item = run[x].item,
           \A t \in Task : Linked(x, t) => StatusSeen(x, t)' = StatusSeen(x, t)
    PROVE  ViewSeen(x, b)' = ViewSeen(x, b)
<1> DEFINE i == run[x].item
<1>1. ASSUME NEW g \in Target, i[g] # None
      PROVE  StatusSeen(x, i[g])' = StatusSeen(x, i[g])
  <2>1. i[g] \in Task
    BY <1>1 DEF TypeOK, Transaction
  <2>2. ASSUME NEW t \in Task, t = i[g]
        PROVE  StatusSeen(x, t)' = StatusSeen(x, t)
    BY <1>1, <2>2 DEF Linked
  <2>3. QED
    BY <2>1, <2>2 DEF StatusSeen
<1>2. ViewSeen(x, b) = [g \in Target |-> IF i[g] = None THEN None
                                         ELSE StatusSeen(x, i[g])]
  BY ViewSeenForms
<1>3. ViewSeen(x, b)' = [g \in Target |-> IF i[g] = None THEN None
                                          ELSE StatusSeen(x, i[g])']
  BY DEF ViewSeen, StatusSeen
<1>4. QED
  BY <1>1, <1>2, <1>3

LEMMA CountsOwnStep ==
    ASSUME LockInv, Counts, NEW x \in Txn, Own(x)
    PROVE  CoveredOf(x)' /\ SealedOf(x)'
<1> USE DEF LockInv, Typed
<1> DEFINE r == run[x]
           n == run'[x]
<1>a. r \in Transaction /\ EnqueueShape(x) /\ TaskShape(x) /\ RestShape(x)
      /\ CoveredOf(x) /\ SealedOf(x)
  BY DEF TypeOK, Shape, ShapeOf, Counts
<1>b. UNCHANGED <<status, target, item, view>>
  BY OwnSteps DEF OwnStep
<1>c. \A b \in Batch : \A t : Follows(b, t)' <=> Follows(b, t)
  BY <1>b DEF Follows
\* Nothing written, nothing to cover.
<1>d. ASSUME n.op # "enqueue" \/ n.at # "refresh",
             n.op \in TaskOps => /\ \A t \in Task : n.draft[t] = None
                                /\ \A b \in Batch : n.view[b] = None
      PROVE  CoveredOf(x)' /\ SealedOf(x)'
  BY <1>d DEF CoveredOf, SealedOf, Drafted
<1>e. ASSUME n.op = r.op, r.op \in TaskOps, n.draft = r.draft, NEW b \in Batch
      PROVE  ViewSeen(x, b)' = ViewSeen(x, b)
  BY <1>b, <1>e, ViewSeenKept DEF StatusSeen, TaskOps
<1>f. \A b \in Batch : ViewSeen(x, b) # None
  BY ViewSeenType, NoneIsNoView
\* A cancellation keeps what it has written while it locks resources.
<1>g. ASSUME r.op = "cancel", n.op = "cancel", n.draft = r.draft, n.view = r.view,
             \A b \in Batch : ~Due(x, b)
      PROVE  CoveredOf(x)' /\ SealedOf(x)'
  <2>1. ASSUME NEW b \in Batch, n.view[b] # None \/ \E t \in Task : n.draft[t] # None /\ Follows(b, t)
        PROVE  n.view[b] = ViewSeen(x, b)'
    <3>1. n.view[b] = ViewSeen(x, b)
      BY <1>a, <1>g, <2>1 DEF CoveredOf, Drafted, TaskOps
    <3>2. ViewSeen(x, b)' = ViewSeen(x, b)
      BY <1>e, <1>g DEF TaskOps
    <3>3. QED
      BY <3>1, <3>2
  <2>2. CoveredOf(x)'
    BY <1>c, <2>1 DEF CoveredOf, Drafted
  <2>3. QED
    BY <1>g, <2>2 DEF SealedOf
<1>1. ASSUME NEW b \in Batch, NEW S \in SUBSET Target, BeginEnqueue(x, b, S)
      PROVE  CoveredOf(x)' /\ SealedOf(x)'
  <2>1. n.op = "enqueue" /\ n.at = "advisory"
    BY <1>1, BeginEnqueueFacts
  <2>2. QED
    BY <1>d, <2>1 DEF TaskOps
<1>2. ASSUME NEW t \in Task, BeginSettle(x, t)
      PROVE  CoveredOf(x)' /\ SealedOf(x)'
  <2>1. n.op = "settle" /\ n.draft = [u \in Task |-> None] /\ n.view = [c \in Batch |-> None]
    BY <1>2, BeginSettleFacts
  <2>2. QED
    BY <1>d, <2>1
<1>3. ASSUME NEW S \in SUBSET Target, BeginCancel(x, S)
      PROVE  CoveredOf(x)' /\ SealedOf(x)'
  <2>1. n.op = "cancel" /\ n.draft = [u \in Task |-> None] /\ n.view = [c \in Batch |-> None]
    BY <1>3, BeginCancelFacts
  <2>2. QED
    BY <1>d, <2>1
<1>17. ASSUME NEW S \in SUBSET Target, CancelMore(x, S)
       PROVE  CoveredOf(x)' /\ SealedOf(x)'
  <2>1. /\ r.op = "cancel" /\ r.at = "refresh" /\ r.batches = {} /\ r.todo = {}
        /\ n.op = "cancel" /\ n.draft = r.draft /\ n.view = r.view
    BY <1>17, CancelMoreFacts
  <2>2. \A b \in Batch : ~Due(x, b)
    BY <2>1 DEF Due
  <2>3. QED
    BY <1>g, <2>1, <2>2
<1>4. ASSUME NEW b \in Batch, BeginPoll(x, b)
      PROVE  CoveredOf(x)' /\ SealedOf(x)'
  <2>1. n.op = "poll"
    BY <1>4, BeginPollFacts
  <2>2. QED
    BY <1>d, <2>1 DEF TaskOps
<1>5. CASE LockResource(x)
  <2>1. /\ r.at = "advisory" /\ n.at = "advisory" /\ n.op = r.op /\ n.draft = r.draft
        /\ n.view = r.view
    BY <1>5, LockResourceFacts
  <2>2. CASE r.op = "enqueue"
    BY <1>d, <2>1, <2>2 DEF TaskOps
  <2>3. CASE r.op = "cancel"
    <3>1. r.batches = {}
      BY <1>a, <2>1, <2>3 DEF TaskShape, TaskOps
    <3>2. \A b \in Batch : ~Due(x, b)
      BY <2>1, <3>1 DEF Due
    <3>3. QED
      BY <1>g, <2>1, <2>3, <3>2
  <2>4. QED
    BY <2>1, <2>2, <2>3, LabelCases
<1>6. CASE LookUpTask(x)
  <2>1. n.op = "enqueue" /\ n.at = "link"
    BY <1>6, LookUpTaskFacts
  <2>2. QED
    BY <1>d, <2>1 DEF TaskOps
<1>7. CASE LinkBatchItem(x)
  <2>1. r.at = "link" /\ n.at = "advisory" /\ n.op = r.op
    BY <1>7, LinkBatchItemFacts
  <2>2. r.op = "enqueue"
    BY <2>1, LabelCases
  <2>3. QED
    BY <1>d, <2>1, <2>2 DEF TaskOps
<1>8. CASE SealBatch(x)
  <2>1. /\ r.op = "enqueue" /\ n.op = "enqueue" /\ n.batch = r.batch
        /\ n.draft = r.draft /\ n.item = r.item
        /\ n.view = [r.view EXCEPT ![r.batch] = ViewSeen(x, r.batch)]
    BY <1>8, SealBatchFacts
  <2>2. r.batch \in Batch
    BY <1>a, <2>1 DEF EnqueueShape
  <2>3. n.view[n.batch] = ViewSeen(x, r.batch)
    BY <1>a, <2>1, <2>2 DEF Transaction
  <2>4. ASSUME NEW b \in Batch PROVE ViewSeen(x, b)' = ViewSeen(x, b)
    BY <1>b, <2>1, NewViewKept DEF StatusSeen
  <2>5. ASSUME NEW b \in Batch, b = r.batch PROVE n.view[n.batch] = ViewSeen(x, b)'
    BY <2>3, <2>4, <2>5
  <2>6. SealedOf(x)'
    BY <2>1, <2>2, <2>5 DEF SealedOf
  <2>7. QED
    BY <2>1, <2>6 DEF CoveredOf, TaskOps
<1>9. ASSUME NEW s \in TaskStatus, SettleTask(x, s)
      PROVE  CoveredOf(x)' /\ SealedOf(x)'
  <2>1. r.op = "settle" /\ r.at = "lock" /\ n.op = "settle" /\ n.view = r.view
        /\ n.at = "refresh"
    BY <1>9, SettleTaskFacts
  <2>2. PICK t \in Task : n.todo = {t} /\ n.draft = [r.draft EXCEPT ![t] = s]
    BY <1>9, SettleTaskFacts
  <2>3. \A u \in Task : r.draft[u] = None
    BY <1>a, <2>1 DEF TaskShape, TaskOps, NoDrafts
  <2>4. \A b \in Batch : n.view[b] = None
    BY <1>a, <2>1 DEF TaskShape, TaskOps, NoViews
  <2>5. \A u \in Task : n.draft[u] # None => u = t
    BY <1>a, <2>2, <2>3 DEF Transaction
  <2>6. CoveredOf(x)'
    BY <2>1, <2>2, <2>4, <2>5 DEF CoveredOf, Drafted, Due
  <2>7. QED
    BY <2>1, <2>6 DEF SealedOf
<1>10. CASE SelectTasks(x)
  <2>1. r.op = "cancel" /\ r.at = "advisory" /\ n.op = "cancel" /\ n.draft = r.draft
        /\ n.view = r.view
    BY <1>10, SelectTasksFacts
  <2>2. r.batches = {}
    BY <1>a, <2>1 DEF TaskShape, TaskOps
  <2>3. \A b \in Batch : ~Due(x, b)
    BY <2>1, <2>2 DEF Due
  <2>4. QED
    BY <1>g, <2>1, <2>3
<1>11. CASE LockTask(x)
  <2> DEFINE t == Min(r.rows)
  <2>0. r.rows # {}
    BY <1>11 DEF LockTask, RowsToLock
  <2>1. /\ r.op = "cancel" /\ r.at = "lock" /\ n.op = "cancel" /\ n.view = r.view /\ t \in Task
        /\ n.at = LockOrRefresh(n.rows)
        /\ \/ n.todo = r.todo \cup {t} /\ n.draft = [r.draft EXCEPT ![t] = "cancelled"]
           \/ n.todo = r.todo /\ n.draft = r.draft
    BY <1>11, <2>0, LockTaskFacts
  <2> HIDE DEF t
  <2>2. n.at # "advisory"
    BY <2>1 DEF LockOrRefresh
  <2>3. r.batches = {}
    BY <1>a, <2>1 DEF TaskShape, TaskOps
  <2>4. \A b \in Batch : Due(x, b) => \E u \in n.todo : Follows(b, u)
    BY <2>1, <2>3 DEF Due
  <2>5. \A u \in Task : u \notin n.todo => n.draft[u] = r.draft[u]
    BY <1>a, <2>1 DEF Transaction
  <2>6. ASSUME NEW b \in Batch, \A u \in n.todo : ~Follows(b, u)
        PROVE  ViewSeen(x, b)' = ViewSeen(x, b)
    <3>1. \A u \in Task : Follows(b, u) => StatusSeen(x, u)' = StatusSeen(x, u)
      BY <1>b, <2>5, <2>6 DEF StatusSeen
    <3>2. QED
      BY <1>b, <2>1, <3>1, ViewSeenKept
  <2>7. ASSUME NEW b \in Batch,
               n.view[b] # None \/ \E u \in Task : n.draft[u] # None /\ Follows(b, u),
               \A u \in n.todo : ~Follows(b, u)
        PROVE  n.view[b] = ViewSeen(x, b)'
    <3>1. r.view[b] # None \/ \E u \in Task : r.draft[u] # None /\ Follows(b, u)
      BY <2>1, <2>5, <2>7
    <3>2. ~Due(x, b)
      BY <2>4, <2>7
    <3>3. r.view[b] = ViewSeen(x, b)
      BY <1>a, <2>1, <3>1, <3>2 DEF CoveredOf, Drafted, TaskOps
    <3>4. ViewSeen(x, b)' = ViewSeen(x, b)
      BY <2>6, <2>7
    <3>5. QED
      BY <2>1, <3>3, <3>4
  <2>8. CoveredOf(x)'
    BY <1>c, <2>2, <2>7 DEF CoveredOf, Due, Drafted
  <2>9. QED
    BY <2>1, <2>8 DEF SealedOf
<1>12. ASSUME NEW T \in SUBSET Task, FailExhausted(x, T) \/ TakeClaimable(x, T)
       PROVE  CoveredOf(x)' /\ SealedOf(x)'
  <2>1. PICK s \in TaskStatus, op \in {"exhaust", "claim"} : TakeRows(x, T, s, op)
    BY <1>12 DEF FailExhausted, TakeClaimable, TaskStatus, Active, Terminal
  <2>2. op \in Op
    BY DEF Op
  <2>3. /\ n.op = op /\ n.todo = T /\ n.view = r.view /\ n.at = "refresh"
        /\ \A t \in Task : n.draft[t] = IF t \in T THEN s ELSE r.draft[t]
    BY <2>1, <2>2, TakeRowsFacts
  <2>4. n.op \in TaskOps /\ n.op # "enqueue" /\ r.op # "enqueue"
    BY <1>12, <2>3, IdleFields DEF TaskOps, FailExhausted, TakeClaimable
  <2>5. ASSUME NEW b \in Batch, r.view[b] # None \/ \E t \in Task : r.draft[t] # None /\ Follows(b, t)
        PROVE  r.view[b] = ViewSeen(x, b)
    <3>1. r.op = "exhaust" /\ r.at = "refresh" /\ r.batches = {} /\ r.todo = {}
      BY <1>12, <2>5, IdleFields DEF FailExhausted, TakeClaimable, Refreshed
    <3>2. QED
      BY <1>a, <2>5, <3>1 DEF CoveredOf, Due, Drafted, TaskOps
  <2>6. ASSUME NEW b \in Batch, \A t \in T : ~Follows(b, t)
        PROVE  ViewSeen(x, b)' = ViewSeen(x, b)
    <3>1. \A t \in Task : Follows(b, t) => StatusSeen(x, t)' = StatusSeen(x, t)
      BY <1>b, <2>3, <2>6 DEF StatusSeen
    <3>2. QED
      BY <1>b, <2>4, <3>1, ViewSeenKept
  <2>7. ASSUME NEW b \in Batch, n.view[b] # None \/ \E t \in Task : n.draft[t] # None /\ Follows(b, t)
        PROVE  (\E t \in n.todo : Follows(b, t)) \/ n.view[b] = ViewSeen(x, b)'
    <3>1. CASE \E t \in T : Follows(b, t)
      BY <2>3, <3>1
    <3>2. CASE \A t \in T : ~Follows(b, t)
      <4>1. r.view[b] # None \/ \E t \in Task : r.draft[t] # None /\ Follows(b, t)
        BY <2>3, <2>7, <3>2
      <4>2. QED
        BY <2>3, <2>5, <2>6, <3>2, <4>1
    <3>3. QED
      BY <3>1, <3>2
  <2>8. CoveredOf(x)'
    BY <1>c, <2>3, <2>7 DEF CoveredOf, Due, Drafted
  <2>9. QED
    BY <2>4, <2>8 DEF SealedOf
<1>13. CASE FindBatchIds(x)
  <2>1. /\ n.op = r.op /\ n.draft = r.draft /\ n.view = r.view /\ r.at = "refresh"
        /\ r.batches = {} /\ n.at = "refresh"
    BY <1>13, FindBatchIdsFacts
  <2>2. PICK t \in r.todo : /\ n.todo = r.todo \ {t}
                            /\ n.batches = {b \in Batch : Follows(b, t)}
    BY <1>13, FindBatchIdsFacts DEF Follows
  <2>3. r.op \in TaskOps
    BY <1>a, <2>1, <2>2, LabelCases DEF EnqueueShape
  <2>4. ASSUME NEW b \in Batch, Due(x, b)
        PROVE  (\E u \in n.todo : Follows(b, u)) \/ b \in n.batches
    BY <2>1, <2>2, <2>4 DEF Due
  <2>5. CoveredOf(x)'
    BY <1>a, <1>c, <1>e, <2>1, <2>3, <2>4 DEF CoveredOf, Due, Drafted
  <2>6. QED
    BY <2>1, <2>3, <2>5 DEF SealedOf, TaskOps
<1>14. CASE LockBatch(x)
  <2> DEFINE c == Min(r.batches)
  <2>1. /\ r.at = "refresh" /\ n.at = "count" /\ n.op = r.op /\ r.batches # {}
        /\ n.batch = c /\ n.batches = r.batches \ {c} /\ n.todo = r.todo
        /\ n.draft = r.draft /\ n.view = r.view
    BY <1>14, LockBatchFacts
  <2> HIDE DEF c
  <2>2. r.op \in TaskOps
    BY <1>a, <2>1, LabelCases DEF EnqueueShape
  <2>3. \A b \in Batch : Due(x, b) => \/ \E u \in n.todo : Follows(b, u)
                                      \/ b \in n.batches \/ b = n.batch
    BY <2>1 DEF Due
  <2>4. CoveredOf(x)'
    BY <1>a, <1>c, <1>e, <2>1, <2>2, <2>3 DEF CoveredOf, Due, Drafted
  <2>5. QED
    BY <2>1, <2>4 DEF SealedOf
<1>15. CASE CountTasks(x)
  <2>1. /\ r.at = "count" /\ n.at = "refresh" /\ n.op = r.op
        /\ n.batches = r.batches /\ n.todo = r.todo /\ n.draft = r.draft
        /\ n.view = [r.view EXCEPT ![r.batch] = ViewSeen(x, r.batch)]
    BY <1>15, CountTasksFacts
  <2>2. r.op \in TaskOps /\ r.batch \in Batch
    BY <1>a, <2>1, LabelCases DEF TaskShape
  <2>3. \A b \in Batch : n.view[b] = IF b = r.batch THEN ViewSeen(x, b) ELSE r.view[b]
    BY <1>a, <2>1, <2>2 DEF Transaction
  <2>4. \A b \in Batch : Due(x, b) => \/ \E u \in n.todo : Follows(b, u)
                                      \/ b \in n.batches \/ b = r.batch
    BY <2>1 DEF Due
  <2>5. ASSUME NEW b \in Batch, n.view[b] # None \/ \E t \in Task : n.draft[t] # None /\ Follows(b, t)
        PROVE  \/ \E u \in n.todo : Follows(b, u)
               \/ b \in n.batches \/ n.view[b] = ViewSeen(x, b)'
    <3>1. ViewSeen(x, b)' = ViewSeen(x, b)
      BY <1>e, <2>1, <2>2
    <3>2. CASE b = r.batch
      BY <2>3, <3>1, <3>2
    <3>3. CASE b # r.batch
      <4>1. r.view[b] # None \/ \E t \in Task : Drafted(x, t) /\ Follows(b, t)
        BY <2>1, <2>3, <2>5, <3>3 DEF Drafted
      <4>2. Due(x, b) \/ r.view[b] = ViewSeen(x, b)
        BY <1>a, <2>2, <4>1 DEF CoveredOf
      <4>3. QED
        BY <2>3, <2>4, <3>1, <3>3, <4>2
    <3>4. QED
      BY <3>2, <3>3
  <2>6. CoveredOf(x)'
    BY <1>c, <2>1, <2>5 DEF CoveredOf, Due, Drafted
  <2>7. QED
    BY <2>1, <2>2, <2>6 DEF SealedOf, TaskOps
<1>16. QED
  BY <1>1, <1>2, <1>3, <1>4, <1>5, <1>6, <1>7, <1>8, <1>9, <1>10, <1>11, <1>12, <1>13,
     <1>14, <1>15, <1>17 DEF Own, Statement

\* A commit changes what no other session counts.
LEMMA OthersCounts ==
    ASSUME LockInv, Counts, NEW x \in Txn, Commit(x), NEW y \in Txn, y # x
    PROVE  CoveredOf(y)' /\ SealedOf(y)'
<1> USE DEF LockInv, Typed
<1> DEFINE r == run[x]
           q == run[y]
<1>a. run'[y] = q /\ CoveredOf(y) /\ SealedOf(y) /\ q \in Transaction
  BY EndFacts DEF Others, Counts, TypeOK
<1>b. r.at = "refresh" /\ r.batches = {} /\ r.todo = {}
  BY CommitFacts
<1>c. \A b \in Batch : ViewSeen(x, b) # None /\ ViewSeen(y, b) # None
  BY ViewSeenType, NoneIsNoView
<1>1. ASSUME q.op \in TaskOps PROVE CoveredOf(y)'
  <2>0. q.op # "enqueue" /\ run'[y].op # "enqueue"
    BY <1>a, <1>1 DEF TaskOps
\* No batch that follows one of its tasks is new.
  <2>1. ASSUME NEW b \in Batch, NEW t \in Task, Drafted(y, t), Follows(b, t)'
        PROVE  item'[b] = item[b]
    <3>1. SUFFICES ASSUME item'[b] # item[b] PROVE FALSE
      OBVIOUS
    <3>2. r.op = "enqueue" /\ item'[b] = r.item
      BY <3>1, CommitFacts
    <3>3. Linked(x, t)
      BY <2>1, <3>2 DEF Follows, Linked
    <3>4. x \in share[t]
      BY <3>3 DEF Locks, LocksOf, ShareLocksOf
    <3>5. row[t] = y
      BY <1>1, <2>1 DEF Locks, LocksOf, RowLocksOf
    <3>6. QED
      BY <3>4, <3>5, NoneIsNoView DEF Locks, LockExclusion
  <2>2. ASSUME NEW b \in Batch, view[b] # None
        PROVE  item'[b] = item[b] /\ \A t : Follows(b, t)' <=> Follows(b, t)
    <3>1. item'[b] = item[b]
      BY <2>2, BatchesWritten
    <3>2. QED
      BY <3>1 DEF Follows
\* The tasks of a batch whose row it holds are not rewritten.
  <2>3. ASSUME NEW b \in Batch, q.view[b] # None, NEW t \in Task, Follows(b, t)
        PROVE  StatusSeen(y, t)' = StatusSeen(y, t)
    <3>1. status[t] # None
      BY <2>3, NoneIsNoView DEF Follows, Rows, MembersAreTasks
    <3>2. SUFFICES ASSUME status'[t] # status[t] PROVE FALSE
      BY <1>a DEF StatusSeen
    <3>3. r.op \in TaskOps /\ Drafted(x, t)
      BY <3>1, <3>2, RowsWritten
    <3>4. ~Due(x, b)
      BY <1>b DEF Due
    <3>5. r.view[b] = ViewSeen(x, b)
      BY <2>3, <3>3, <3>4 DEF Counts, CoveredOf
    <3>6. batchRow[b] = x
      BY <1>c, <3>3, <3>5 DEF Locks, LocksOf, BatchLocksOf, Refreshes
    <3>7. batchRow[b] = y
      BY <1>1, <2>3 DEF Locks, LocksOf, BatchLocksOf, Refreshes
    <3>8. QED
      BY <3>6, <3>7
  <2>4. ASSUME NEW b \in Batch,
               run'[y].view[b] # None \/ \E t \in Task : Drafted(y, t)' /\ Follows(b, t)'
        PROVE  Due(y, b)' \/ run'[y].view[b] = ViewSeen(y, b)'
    <3>1. q.view[b] # None => view[b] # None
      BY <2>0 DEF Existence, RefreshedExist
    <3>2. item'[b] = item[b]
      BY <1>a, <2>1, <2>2, <2>4, <3>1 DEF Drafted
    <3>3. \A t : Follows(b, t)' <=> Follows(b, t)
      BY <3>2 DEF Follows
    <3>4. q.view[b] # None \/ \E t \in Task : Drafted(y, t) /\ Follows(b, t)
      BY <1>a, <2>4, <3>3 DEF Drafted
    <3>5. Due(y, b) \/ q.view[b] = ViewSeen(y, b)
      BY <1>a, <1>1, <3>4 DEF CoveredOf
    <3>6. Due(y, b) => Due(y, b)'
      BY <1>a, <3>3 DEF Due
    <3>7. q.view[b] = ViewSeen(y, b) => q.view[b] = ViewSeen(y, b)'
      <4>1. SUFFICES ASSUME q.view[b] = ViewSeen(y, b) PROVE ViewSeen(y, b)' = ViewSeen(y, b)
        OBVIOUS
      <4>2. \A t \in Task : Follows(b, t) => StatusSeen(y, t)' = StatusSeen(y, t)
        BY <1>c, <2>3, <4>1
      <4>3. QED
        BY <2>0, <3>2, <4>2, ViewSeenKept
    <3>8. QED
      BY <1>a, <3>5, <3>6, <3>7
  <2>5. QED
    BY <2>4 DEF CoveredOf
<1>2. ASSUME q.op = "enqueue", q.at = "refresh" PROVE SealedOf(y)'
  <2>1. NewRowsOf(y) /\ q.batch \in Batch
    BY <1>2 DEF Rows, Shape, ShapeOf, EnqueueShape
  <2>2. ASSUME NEW t \in Task, Linked(y, t)
        PROVE  StatusSeen(y, t)' = StatusSeen(y, t)
    <3>1. SUFFICES ASSUME status'[t] # status[t], ~Drafted(y, t) PROVE FALSE
      BY <1>a DEF StatusSeen, Drafted
    <3>2. PICK g \in Target : q.item[g] = t
      BY <2>2 DEF Linked
    <3>3. Linkable(y, g, t)
      BY <1>2, <2>1, <3>2, NoneIsNoView DEF NewRowsOf
    <3>4. status[t] # None
      BY <3>1, <3>3, ActiveIsStatus DEF Linkable, Drafted
    <3>5. row[t] = x
      BY <3>1, <3>4, RowsWritten
    <3>6. y \in share[t]
      BY <2>2 DEF Locks, LocksOf, ShareLocksOf
    <3>7. QED
      BY <3>5, <3>6, NoneIsNoView DEF Locks, LockExclusion
  <2>3. ASSUME NEW b \in Batch PROVE ViewSeen(y, b)' = ViewSeen(y, b)
    BY <1>a, <1>2, <2>2, NewViewKept
  <2>4. ASSUME NEW b \in Batch, b = q.batch PROVE q.view[b] = ViewSeen(y, b)'
    BY <1>a, <1>2, <2>3, <2>4 DEF SealedOf
  <2>5. QED
    BY <1>a, <1>2, <2>1, <2>4 DEF SealedOf
<1>3. CoveredOf(y)'
  BY <1>a, <1>1 DEF CoveredOf
<1>4. SealedOf(y)'
  BY <1>a, <1>2 DEF SealedOf
<1>5. QED
  BY <1>3, <1>4

\* The rows a commit leaves count the tasks it leaves.
LEMMA SummariesStep ==
    ASSUME LockInv, Counts, NEW x \in Txn, Commit(x)
    PROVE  CommittedSummariesAgree'
<1> USE DEF LockInv, Typed
<1> DEFINE r == run[x]
<1>b. r.at = "refresh" /\ r.batches = {} /\ r.todo = {} /\ r \in Transaction
  BY CommitFacts DEF TypeOK
<1>c. \A t \in Task : status'[t] = StatusSeen(x, t)
  BY CommitFacts
<1>d. \A b \in Batch : view[b] # None =>
          view[b] = [g \in Target |-> IF item[b][g] = None THEN None ELSE status[item[b][g]]]
  BY DEF Counts, CommittedSummariesAgree
<1>1. ASSUME NEW b \in Batch, view'[b] # None
      PROVE  view'[b] = [g \in Target |-> IF item'[b][g] = None THEN None
                                          ELSE status'[item'[b][g]]]
  <2>1. CASE r.op = "enqueue" /\ b = r.batch
    <3>1. view'[b] = ViewSeen(x, b) /\ item'[b] = r.item
      BY <1>b, <2>1, BatchesWritten DEF Counts, SealedOf
    <3>2. \A g \in Target : r.item[g] # None => status'[r.item[g]] = StatusSeen(x, r.item[g])
      BY <1>b, <1>c DEF Transaction
    <3>3. ViewSeen(x, b) = [g \in Target |-> IF r.item[g] = None THEN None
                                             ELSE StatusSeen(x, r.item[g])]
      BY <2>1, ViewSeenForms
    <3>4. QED
      BY <3>1, <3>2, <3>3
  <2>2. CASE ~(r.op = "enqueue" /\ b = r.batch)
    <3>1. item'[b] = item[b] /\ view[b] # None
      BY <1>1, <2>2, BatchesWritten
    <3>2. \A g \in Target : item[b][g] # None =>
              /\ item[b][g] \in Task /\ status[item[b][g]] # None
              /\ Follows(b, item[b][g])
              /\ status'[item[b][g]] = StatusSeen(x, item[b][g])
      BY <1>c DEF TypeOK, Follows, Rows, MembersAreTasks
    <3>3. CASE r.op \in TaskOps /\ r.view[b] # None
      <4>1. ~Due(x, b) /\ r.op # "enqueue"
        BY <1>b, <3>3 DEF Due, TaskOps
      <4>2. view'[b] = ViewSeen(x, b)
        BY <3>3, <4>1, BatchesWritten DEF Counts, CoveredOf
      <4>3. ViewSeen(x, b) = [g \in Target |-> IF item[b][g] = None THEN None
                                               ELSE StatusSeen(x, item[b][g])]
        BY <4>1, ViewSeenForms
      <4>4. QED
        BY <3>1, <3>2, <4>2, <4>3
    <3>4. CASE ~(r.op \in TaskOps /\ r.view[b] # None)
      <4>1. view'[b] = view[b]
        BY <1>b, <2>2, <3>4, BatchesWritten, LabelCases
      <4>2. ASSUME NEW t \in Task, Follows(b, t), status[t] # None
            PROVE  status'[t] = status[t]
        <5>1. SUFFICES ASSUME status'[t] # status[t] PROVE FALSE
          OBVIOUS
        <5>2. r.op \in TaskOps /\ Drafted(x, t)
          BY <4>2, <5>1, RowsWritten
        <5>3. ~Due(x, b)
          BY <1>b DEF Due
        <5>4. r.view[b] = ViewSeen(x, b)
          BY <4>2, <5>2, <5>3 DEF Counts, CoveredOf
        <5>5. ViewSeen(x, b) # None
          BY ViewSeenType, NoneIsNoView
        <5>6. QED
          BY <3>4, <5>2, <5>4, <5>5
      <4>3. \A g \in Target : item[b][g] # None => status'[item[b][g]] = status[item[b][g]]
        BY <3>2, <4>2
      <4>4. QED
        BY <1>d, <3>1, <4>1, <4>3
    <3>5. QED
      BY <3>3, <3>4
  <2>3. QED
    BY <2>1, <2>2
<1>2. QED
  BY <1>1 DEF CommittedSummariesAgree

LEMMA CountsStep ==
    ASSUME LockInv, Counts, [Next]_vars
    PROVE  Counts'
<1>a. ASSUME NEW y \in Txn, run'[y] = run[y], UNCHANGED <<status, item>>,
             CoveredOf(y), SealedOf(y)
      PROVE  CoveredOf(y)' /\ SealedOf(y)'
  <2>1. \A b \in Batch : ViewSeen(y, b)' = ViewSeen(y, b)
    BY <1>a DEF ViewSeen, StatusSeen
  <2>2. \A b \in Batch : \A t : Follows(b, t)' <=> Follows(b, t)
    BY <1>a DEF Follows
  <2>3. \A b \in Batch : Due(y, b)' <=> Due(y, b)
    BY <1>a, <2>2 DEF Due
  <2>4. CoveredOf(y)'
    BY <1>a, <2>1, <2>2, <2>3 DEF CoveredOf, Drafted
  <2>5. SealedOf(y)'
    <3>1. ViewSeen(y, run[y].batch)' = ViewSeen(y, run[y].batch)
      BY <1>a DEF ViewSeen, StatusSeen
    <3>2. QED
      BY <1>a, <3>1 DEF SealedOf
  <2>6. QED
    BY <2>4, <2>5
<1>b. ASSUME UNCHANGED <<status, item, view>>
      PROVE  CommittedSummariesAgree'
  BY <1>b DEF Counts, CommittedSummariesAgree
<1>c. ASSUME NEW x \in Txn, run'[x] = Idle
      PROVE  CoveredOf(x)' /\ SealedOf(x)'
  BY <1>c, IdleFields DEF CoveredOf, SealedOf, TaskOps
<1>1. ASSUME NEW x \in Txn, Own(x) PROVE Counts'
  <2>1. UNCHANGED <<status, target, item, view>> /\ Others(x)
    BY <1>1, OwnSteps DEF OwnStep, LockInv
  <2>2. \A y \in Txn : y # x => CoveredOf(y)' /\ SealedOf(y)'
    BY <1>a, <2>1 DEF Others, Counts
  <2>3. CoveredOf(x)' /\ SealedOf(x)'
    BY <1>1, CountsOwnStep
  <2>4. QED
    BY <1>b, <2>1, <2>2, <2>3 DEF Counts
<1>2. ASSUME NEW x \in Txn, Commit(x) PROVE Counts'
  <2>1. run'[x] = Idle
    BY <1>2, EndFacts DEF LockInv, Typed
  <2>2. \A y \in Txn : y # x => CoveredOf(y)' /\ SealedOf(y)'
    BY <1>2, OthersCounts
  <2>3. QED
    BY <1>2, <1>c, <2>1, <2>2, SummariesStep DEF Counts
<1>3. ASSUME NEW x \in Txn, Rollback(x) PROVE Counts'
  <2>1. UNCHANGED <<status, target, item, view>> /\ Others(x) /\ run'[x] = Idle
    BY <1>3, EndFacts DEF Rollback, committed, LockInv, Typed
  <2>2. \A y \in Txn : y # x => CoveredOf(y)' /\ SealedOf(y)'
    BY <1>a, <2>1 DEF Others, Counts
  <2>3. QED
    BY <1>b, <1>c, <2>1, <2>2 DEF Counts
<1>4. CASE UNCHANGED vars
  BY <1>4, <1>a, <1>b DEF vars, committed, Counts
<1>5. QED
  BY <1>1, <1>2, <1>3, <1>4, NextForms

LEMMA CountsCorrect == Spec => []Counts
<1>1. Init => Counts
  <2>1. ASSUME Init PROVE CommittedSummariesAgree
    BY <2>1 DEF Init, CommittedSummariesAgree
  <2>2. ASSUME Init, NEW x \in Txn PROVE CoveredOf(x) /\ SealedOf(x)
    BY <2>2, IdleFields DEF Init, CoveredOf, SealedOf, TaskOps
  <2>3. QED
    BY <2>1, <2>2 DEF Counts
<1>2. LockInv /\ Counts /\ [Next]_vars => Counts'
  BY CountsStep
<1>3. QED
  BY <1>1, <1>2, LockInvCorrect, PTL DEF Spec

\* Whatever the sessions interleave and wherever they fail, a committed batch
\* row counts its committed tasks as they are.
THEOREM CommittedSummariesCorrect == Spec => []CommittedSummariesAgree
<1>1. Counts => CommittedSummariesAgree
  BY DEF Counts
<1>2. QED
  BY <1>1, CountsCorrect, PTL

-----------------------------------------------------------------------------
(* What a poll may conclude from the batch row. *)

\* A batch is finished when all its members are settled.
LEMMA FinishedView ==
    ASSUME NEW v \in View
    PROVE  /\ BatchStatus(v) \in Terminal <=> \A g \in Target : v[g] # None => v[g] \in Terminal
           /\ BatchStatus(v) \notin Terminal => BatchStatus(v) \in {"pending", "processing"}
           /\ BatchStatus(v) \in Terminal =>
                  BatchStatus(v) = IF \E g \in Target : v[g] = "failed" THEN "failed"
                                   ELSE IF \E g \in Target : v[g] = "cancelled" THEN "cancelled"
                                   ELSE "completed"
<1> DEFINE among == {v[g] : g \in Target} \ {None}
<1>1. among \subseteq Terminal <=> \A g \in Target : v[g] # None => v[g] \in Terminal
  OBVIOUS
<1>2. \A s \in Terminal : s \in among <=> \E g \in Target : v[g] = s
  BY ActiveIsStatus
<1>3. BatchStatus(v) = CASE among \subseteq Terminal /\ "failed" \in among -> "failed"
          [] among \subseteq Terminal /\ "failed" \notin among
             /\ "cancelled" \in among -> "cancelled"
          [] among \subseteq {"completed"} -> "completed"
          [] ~(among \subseteq Terminal) /\ "processing" \in among -> "processing"
          [] OTHER -> "pending"
  BY DEF BatchStatus
<1> HIDE DEF among
<1>4. CASE among \subseteq Terminal /\ "failed" \in among
  <2>1. BatchStatus(v) = "failed"
    BY <1>3, <1>4
  <2>2. QED
    BY <1>1, <1>2, <1>4, <2>1 DEF Terminal
<1>5. CASE among \subseteq Terminal /\ "failed" \notin among /\ "cancelled" \in among
  <2>1. BatchStatus(v) = "cancelled"
    BY <1>3, <1>5
  <2>2. QED
    BY <1>1, <1>2, <1>5, <2>1 DEF Terminal
<1>6. CASE among \subseteq Terminal /\ "failed" \notin among /\ "cancelled" \notin among
  <2>1. among \subseteq {"completed"}
    BY <1>6 DEF Terminal
  <2>2. BatchStatus(v) = "completed"
    BY <1>3, <1>6, <2>1
  <2>3. QED
    BY <1>1, <1>2, <1>6, <2>2 DEF Terminal
<1>7. CASE ~(among \subseteq Terminal)
  <2>1. ~(among \subseteq {"completed"})
    BY <1>7 DEF Terminal
  <2>2. BatchStatus(v) \in {"pending", "processing"}
    BY <1>3, <1>7, <2>1
  <2>3. QED
    BY <1>1, <1>7, <2>2 DEF Terminal
<1>8. QED
  BY <1>4, <1>5, <1>6, <1>7

LEMMA OnlyBeginPolls ==
    ASSUME LockInv, NEW x \in Txn, Own(x), run'[x].op = "poll"
    PROVE  \E b \in Batch : BeginPoll(x, b)
<1> USE DEF LockInv, Typed
<1> DEFINE r == run[x]
           n == run'[x]
<1>1. n.at = "answer"
  <2>1. ShapeOf(x)'
    BY ShapeOwnStep
  <2>2. QED
    BY <2>1 DEF ShapeOf, RestShape
<1>2. CASE \/ \E b \in Batch, S \in SUBSET Target \ {{}} : BeginEnqueue(x, b, S)
           \/ \E t \in Task : BeginSettle(x, t)
           \/ \E S \in SUBSET Target \ {{}} : BeginCancel(x, S) \/ CancelMore(x, S)
  BY <1>2, BeginEnqueueFacts, BeginSettleFacts, BeginCancelFacts, CancelMoreFacts
<1>3. CASE LockResource(x)
  BY <1>1, <1>3, LockResourceFacts
<1>4. CASE LookUpTask(x)
  BY <1>1, <1>4, LookUpTaskFacts
<1>5. CASE LinkBatchItem(x)
  BY <1>1, <1>5, LinkBatchItemFacts
<1>6. CASE SealBatch(x)
  BY <1>1, <1>6, SealBatchFacts
<1>7. CASE \E s \in TaskStatus : SettleTask(x, s)
  BY <1>1, <1>7, SettleTaskFacts
<1>8. CASE SelectTasks(x)
  BY <1>1, <1>8, SelectTasksFacts DEF LockOrRefresh
<1>9. CASE LockTask(x)
  <2>1. r.rows # {}
    BY <1>9 DEF LockTask, RowsToLock
  <2>2. QED
    BY <1>1, <1>9, <2>1, LockTaskFacts DEF LockOrRefresh
<1>10. CASE \E T \in SUBSET Task : FailExhausted(x, T) \/ TakeClaimable(x, T)
  <2>1. ASSUME NEW T \in SUBSET Task, NEW s \in TaskStatus, NEW op \in Op, TakeRows(x, T, s, op)
        PROVE  n.at = "refresh"
    BY <2>1, TakeRowsFacts
  <2>2. "failed" \in TaskStatus /\ "processing" \in TaskStatus
        /\ "exhaust" \in Op /\ "claim" \in Op
    BY DEF TaskStatus, Active, Terminal, Op
  <2>3. QED
    BY <1>1, <1>10, <2>1, <2>2 DEF FailExhausted, TakeClaimable
<1>11. CASE FindBatchIds(x)
  BY <1>1, <1>11, FindBatchIdsFacts
<1>12. CASE LockBatch(x)
  BY <1>1, <1>12, LockBatchFacts
<1>13. CASE CountTasks(x)
  BY <1>1, <1>13, CountTasksFacts
<1>14. QED
  BY <1>2, <1>3, <1>4, <1>5, <1>6, <1>7, <1>8, <1>9, <1>10, <1>11, <1>12, <1>13
     DEF Own, Statement

LEMMA PollsStep ==
    ASSUME LockInv, Counts, FinishedPollsAreSettled, [Next]_vars
    PROVE  FinishedPollsAreSettled'
<1> USE DEF LockInv, Typed
<1> DEFINE Settled(b) == \A g \in Target : item[b][g] # None => status[item[b][g]] \in Terminal
           Finished(y, b) == /\ run[y].op = "poll" /\ run[y].view[b] # None
                             /\ BatchStatus(run[y].view[b]) \in Terminal
\* What has settled stays settled.
<1>a. ASSUME NEW x \in Txn, Commit(x), NEW b \in Batch, view[b] # None, Settled(b)
      PROVE  Settled(b)'
  <2>1. item'[b] = item[b]
    BY <1>a, BatchesWritten
  <2>2. ASSUME NEW t \in Task, status[t] \in Terminal PROVE status'[t] \in Terminal
    BY <1>a, <2>2, RowsWritten, ActiveIsStatus
  <2>3. \A g \in Target : item[b][g] # None => item[b][g] \in Task
    BY DEF TypeOK
  <2>4. QED
    BY <1>a, <2>1, <2>2, <2>3
<1>b. ASSUME NEW y \in Txn, NEW b \in Batch, Finished(y, b)
      PROVE  Settled(b) /\ view[b] # None
  BY <1>b DEF FinishedPollsAreSettled, Existence, RefreshedExist
<1>1. ASSUME NEW x \in Txn, Own(x) PROVE FinishedPollsAreSettled'
  <2>1. UNCHANGED <<status, target, item, view>> /\ Others(x)
    BY <1>1, OwnSteps DEF OwnStep
  <2>2. ASSUME NEW b \in Batch, Finished(x, b)' PROVE Settled(b)'
    <3>1. PICK c \in Batch : BeginPoll(x, c)
      BY <1>1, <2>2, OnlyBeginPolls
    <3>2. run'[x].view = [d \in Batch |-> IF d = c THEN view[c] ELSE None] /\ view[c] # None
      BY <3>1, BeginPollFacts
    <3>3. b = c /\ run'[x].view[b] = view[b] /\ view[b] # None
      BY <2>2, <3>2
    <3>4. view[b] \in View
      BY <3>3 DEF TypeOK
    <3>5. \A g \in Target : view[b][g] # None => view[b][g] \in Terminal
      BY <2>2, <3>3, <3>4, FinishedView
    <3>6. view[b] = [g \in Target |-> IF item[b][g] = None THEN None ELSE status[item[b][g]]]
      BY <3>3 DEF Counts, CommittedSummariesAgree
    <3>7. ASSUME NEW g \in Target, item[b][g] # None PROVE status[item[b][g]] \in Terminal
      <4>1. view[b][g] = status[item[b][g]]
        BY <3>6, <3>7
      <4>2. status[item[b][g]] # None
        BY <3>7 DEF Rows, MembersAreTasks
      <4>3. QED
        BY <3>5, <4>1, <4>2
    <3>8. QED
      BY <2>1, <3>7
  <2>3. ASSUME NEW y \in Txn, y # x, NEW b \in Batch, Finished(y, b)' PROVE Settled(b)'
    <3>1. Finished(y, b)
      BY <2>1, <2>3 DEF Others
    <3>2. QED
      BY <1>b, <2>1, <3>1
  <2>4. QED
    BY <2>2, <2>3 DEF FinishedPollsAreSettled
<1>2. ASSUME NEW x \in Txn, Commit(x) \/ Rollback(x) PROVE FinishedPollsAreSettled'
  <2>1. Others(x) /\ run'[x] = Idle
    BY <1>2, EndFacts
  <2>2. ASSUME NEW y \in Txn, NEW b \in Batch, Finished(y, b)' PROVE Settled(b)'
    <3>1. y # x /\ Finished(y, b)
      BY <2>1, <2>2, IdleFields DEF Others
    <3>2. Settled(b) /\ view[b] # None
      BY <1>b, <3>1
    <3>3. Rollback(x) => UNCHANGED <<item, status>>
      BY DEF Rollback, committed
    <3>4. QED
      BY <1>2, <1>a, <3>2, <3>3
  <2>3. QED
    BY <2>2 DEF FinishedPollsAreSettled
<1>3. CASE UNCHANGED vars
  BY <1>3 DEF vars, committed, FinishedPollsAreSettled
<1>4. QED
  BY <1>1, <1>2, <1>3, NextForms

\* A poll that read a finished batch finds no unfinished task afterwards:
\* tasks that have settled are final, and so is the membership of a batch.
THEOREM FinishedPollsCorrect == Spec => []FinishedPollsAreSettled
<1>1. Init => FinishedPollsAreSettled
  BY IdleFields DEF Init, FinishedPollsAreSettled
<1>2. LockInv /\ Counts /\ FinishedPollsAreSettled /\ [Next]_vars => FinishedPollsAreSettled'
  BY PollsStep
<1>3. QED
  BY <1>1, <1>2, LockInvCorrect, CountsCorrect, PTL DEF Spec

-----------------------------------------------------------------------------
(* Who waits for whom. *)

\* Whoever is waited for holds the lock that the next statement wants.
LEMMA AwaitedHolds ==
    ASSUME LockInv, NEW x \in Txn, NEW y \in Txn, y \in WaitsFor(x)
    PROVE  LET r == run[x] IN
           /\ y # x
           /\ \/ r.at = "advisory" /\ \E g \in NextResource(x) : g \in Target /\ advisory[g] = y
              \/ r.at = "link" /\ r.found \in Task /\ row[r.found] = y
              \/ r.at = "lock" /\ \E t \in r.rows : t \in Task /\ (row[t] = y \/ y \in share[t])
              \/ r.at = "refresh" /\ \E b \in r.batches : b \in Batch /\ batchRow[b] = y
<1> USE DEF LockInv, Typed
<1> DEFINE r == run[x]
<1>1. r \in Transaction
  BY DEF TypeOK
<1>2. CASE r.at = "advisory"
  <2>1. y \in {advisory[g] : g \in NextResource(x)} \ {None, x}
    BY <1>2, WaitsForCases
  <2>2. NextResource(x) \subseteq Target
    BY <1>1 DEF NextResource, Transaction
  <2>3. QED
    BY <1>2, <2>1, <2>2
<1>3. CASE r.at = "link"
  <2>1. y \in {row[r.found]} \ {None, x}
    BY <1>3, WaitsForCases DEF KeyShareBlockers
  <2>2. r.op = "enqueue" /\ r.found \in Task
    BY <1>1, <1>3, LabelCases DEF Shape, ShapeOf, EnqueueShape, Transaction
  <2>3. QED
    BY <1>3, <2>1, <2>2
<1>4. CASE r.at = "lock"
  <2>1. y \in ({row[Min(r.rows)]} \cup share[Min(r.rows)]) \ {None, x}
    BY <1>4, WaitsForCases DEF UpdateBlockers
  <2>2. r.rows # {} /\ r.rows \subseteq Task
    BY <1>1, <1>4 DEF RowsToLock, Transaction
  <2>3. Min(r.rows) \in r.rows
    BY <2>2, MinIsLeast, TransactionsAssumption
  <2>4. QED
    BY <1>4, <2>1, <2>2, <2>3
<1>5. CASE r.at = "refresh" /\ r.batches # {}
  <2>1. y \in {batchRow[Min(r.batches)]} \ {None, x}
    BY <1>5, WaitsForCases
  <2>2. r.batches \subseteq Batch
    BY <1>1 DEF Transaction
  <2>3. Min(r.batches) \in r.batches
    BY <1>5, <2>2, MinIsLeast, TransactionsAssumption
  <2>4. QED
    BY <1>5, <2>1, <2>2, <2>3
<1>6. CASE r.at \notin {"link", "lock", "advisory"} /\ (r.at = "refresh" => r.batches = {})
  BY <1>6, WaitsForCases
<1>7. QED
  BY <1>2, <1>3, <1>4, <1>5, <1>6

\* Nobody waits for the outcome of a task that has not locked its row.
LEMMA SettlesHoldNothing ==
    ASSUME LockInv, NEW x \in Txn, run[x].op = "settle", run[x].at = "lock", NEW z \in Txn
    PROVE  x \notin WaitsFor(z)
<1> USE DEF LockInv, Typed
<1>1. /\ NoDrafts(x) /\ NoViews(x) /\ run[x].item = NoMembers
      /\ LocksOf(x)
  BY DEF Shape, ShapeOf, TaskShape, RestShape, TaskOps, Locks
<1>2. \A t \in Task : row[t] # x
  BY <1>1 DEF LocksOf, RowLocksOf, Drafted, NoDrafts
<1>3. \A t \in Task : x \notin share[t]
  BY <1>1, NoneIsNoView DEF LocksOf, ShareLocksOf, Linked, NoMembers
<1>4. \A b \in Batch : batchRow[b] # x
  BY <1>1 DEF LocksOf, BatchLocksOf, Refreshes, NoViews
<1>5. \A g \in Target : advisory[g] # x
  BY <1>1 DEF LocksOf, AdvisoryLocksOf
<1>6. QED
  BY <1>2, <1>3, <1>4, <1>5, AwaitedHolds

\* An enqueue makes others wait at its resource locks, or the outcome of a
\* task at the key share: never at the row of the batch it creates, and never
\* a cancellation that has its own resource locks.
LEMMA EnqueuesAwaited ==
    ASSUME LockInv, NEW x \in Txn, run[x].op = "enqueue", NEW z \in Txn, x \in WaitsFor(z)
    PROVE  run[z].at = "advisory" \/ (run[z].op = "settle" /\ run[z].at = "lock")
<1> USE DEF LockInv, Typed
<1> DEFINE r == run[z]
<1>1. LocksOf(x) /\ LocksOf(z) /\ EnqueueShape(x) /\ NewRowsOf(x)
  BY DEF Shape, ShapeOf, Locks, Rows
<1>2. \A t \in Task : row[t] # x
  BY <1>1 DEF LocksOf, RowLocksOf, TaskOps
<1>3. ASSUME r.at = "lock", r.op = "cancel", NEW t \in r.rows, t \in Task, x \in share[t], x # z
      PROVE  FALSE
  <2>1. PICK g \in Target : run[x].item[g] = t
    BY <1>1, <1>3 DEF LocksOf, ShareLocksOf, Linked
  <2>2. target[t] \in Target /\ advisory[target[t]] = z
    BY <1>1, <1>3 DEF LocksOf, AdvisoryLocksOf
  <2>3. Linkable(x, g, t) /\ advisory[g] = x
    BY <1>1, <1>3, <2>1, NoneIsNoView DEF NewRowsOf, LocksOf, AdvisoryLocksOf
  <2>4. status[t] # None
    BY <1>3, <2>2, NoneIsNoView DEF Rows, TasksHaveTargets
  <2>5. target[t] = g
    BY <2>3, <2>4 DEF Linkable
  <2>6. QED
    BY <1>3, <2>2, <2>3, <2>5
<1>4. ASSUME r.at = "refresh", NEW b \in r.batches, b \in Batch, batchRow[b] = x
      PROVE  FALSE
  <2>1. b = run[x].batch
    BY <1>1, <1>4 DEF LocksOf, BatchLocksOf, TaskOps
  <2>2. view[b] = None /\ view[b] # None
    BY <1>4, <2>1 DEF Existence, NewBatches, RefreshedExist
  <2>3. QED
    BY <2>2
<1>5. r.at = "lock" => r.op \in {"settle", "cancel"}
  BY LabelCases DEF Shape, ShapeOf, TaskShape
<1>6. QED
  BY <1>2, <1>3, <1>4, <1>5, AwaitedHolds

\* A cancellation keeps the resource lock of every task it cancels.
CancelsHold(x) ==
    run[x].op = "cancel" =>
        \A t \in Task : Drafted(x, t) => target[t] \in Target /\ advisory[target[t]] = x

\* The outcome of one task refreshes the batches of that task, in the order
\* of their ids: it holds no batch row beyond the next one.
SettlesInOrder(x) ==
    LET r == run[x]
    IN  r.op = "settle" =>
            /\ \A t, u \in r.todo : t = u
            /\ r.todo # {} => NoViews(x) /\ r.batches = {} /\ r.at # "count"
            /\ \A b \in Batch : Refreshes(x, b) => \A c \in r.batches : b < c

LockOrder == \A x \in Txn : CancelsHold(x) /\ SettlesInOrder(x)

LEMMA LockOrderOwnStep ==
    ASSUME LockInv, LockOrder, NEW x \in Txn, Own(x)
    PROVE  CancelsHold(x)' /\ SettlesInOrder(x)'
<1> USE DEF LockInv, Typed
<1> DEFINE r == run[x]
           n == run'[x]
<1>a. r \in Transaction /\ TaskShape(x) /\ AdvisoryLocksOf(x)
      /\ CancelsHold(x) /\ SettlesInOrder(x)
  BY DEF TypeOK, Shape, ShapeOf, Locks, LocksOf, LockOrder
<1>b. UNCHANGED <<status, target, item, view>>
  BY OwnSteps DEF OwnStep
<1>c. \A g \in Target : advisory[g] = x => advisory'[g] = x
  BY OwnSteps, NoneIsNoView DEF OwnStep, Takes
<1>d. (n.op # "cancel" \/ \A t \in Task : n.draft[t] = None) => CancelsHold(x)'
  BY DEF CancelsHold, Drafted
<1>e. n.op # "settle" => SettlesInOrder(x)'
  BY DEF SettlesInOrder
<1>f. n.op = r.op /\ n.draft = r.draft => CancelsHold(x)'
  BY <1>a, <1>b, <1>c DEF CancelsHold, Drafted
<1>1. CASE \/ \E b \in Batch, S \in SUBSET Target \ {{}} : BeginEnqueue(x, b, S)
           \/ \E S \in SUBSET Target \ {{}} : BeginCancel(x, S)
           \/ \E b \in Batch : BeginPoll(x, b)
  <2>1. /\ n.op \in {"enqueue", "cancel", "poll"}
        /\ n.op = "cancel" => n.draft = [u \in Task |-> None]
    BY <1>1, BeginEnqueueFacts, BeginCancelFacts, BeginPollFacts
  <2>2. QED
    BY <1>d, <1>e, <2>1
<1>2. ASSUME NEW t \in Task, BeginSettle(x, t)
      PROVE  CancelsHold(x)' /\ SettlesInOrder(x)'
  <2>1. n.op = "settle" /\ n.todo = {} /\ n.batches = {}
    BY <1>2, BeginSettleFacts
  <2>2. QED
    BY <1>d, <2>1 DEF SettlesInOrder
<1>14. ASSUME NEW S \in SUBSET Target, CancelMore(x, S)
       PROVE  CancelsHold(x)' /\ SettlesInOrder(x)'
  <2>1. r.op = "cancel" /\ n.op = "cancel" /\ n.draft = r.draft
    BY <1>14, CancelMoreFacts
  <2>2. QED
    BY <1>e, <1>f, <2>1
<1>3. CASE LockResource(x)
  <2>1. r.at = "advisory" /\ n.op = r.op /\ n.draft = r.draft
    BY <1>3, LockResourceFacts
  <2>2. r.op # "settle"
    BY <2>1, LabelCases
  <2>3. QED
    BY <1>e, <1>f, <2>1, <2>2
<1>4. CASE LookUpTask(x) \/ SealBatch(x)
  <2>1. n.op = "enqueue"
    BY <1>4, LookUpTaskFacts, SealBatchFacts
  <2>2. QED
    BY <1>d, <1>e, <2>1
<1>5. CASE LinkBatchItem(x)
  <2>1. r.op = "enqueue" /\ n.op = r.op
    BY <1>5, LinkBatchItemFacts, LabelCases
  <2>2. QED
    BY <1>d, <1>e, <2>1
<1>6. ASSUME NEW s \in TaskStatus, SettleTask(x, s)
      PROVE  CancelsHold(x)' /\ SettlesInOrder(x)'
  <2>1. /\ r.op = "settle" /\ r.at = "lock" /\ n.op = "settle" /\ n.at = "refresh"
        /\ n.batches = r.batches /\ n.view = r.view
    BY <1>6, SettleTaskFacts
  <2>2. r.batches = {} /\ NoViews(x)
    BY <1>a, <2>1 DEF TaskShape, TaskOps
  <2>3. \A t, u \in n.todo : t = u
    <3>1. \E t \in r.rows : n.todo = {t}
      BY <1>6, SettleTaskRow
    <3>2. QED
      BY <3>1
  <2>4. QED
    BY <1>d, <2>1, <2>2, <2>3 DEF SettlesInOrder, NoViews
<1>7. CASE SelectTasks(x)
  <2>1. r.op = "cancel" /\ n.op = "cancel" /\ n.draft = r.draft
    BY <1>7, SelectTasksFacts
  <2>2. QED
    BY <1>e, <1>f, <2>1
<1>8. CASE LockTask(x)
  <2> DEFINE t == Min(r.rows)
  <2>0. r.rows # {}
    BY <1>8 DEF LockTask, RowsToLock
  <2>1. /\ r.op = "cancel" /\ n.op = "cancel" /\ t \in r.rows /\ t \in Task
        /\ \/ n.draft = [r.draft EXCEPT ![t] = "cancelled"]
           \/ n.draft = r.draft
    BY <1>8, <2>0, LockTaskFacts
  <2> HIDE DEF t
  <2>2. \A u \in Task : n.draft[u] # None => r.draft[u] # None \/ u = t
    BY <1>a, <2>1 DEF Transaction
  <2>3. target[t] \in Target /\ advisory[target[t]] = x
    BY <1>a, <2>1 DEF AdvisoryLocksOf
  <2>4. CancelsHold(x)'
    BY <1>a, <1>b, <1>c, <2>1, <2>2, <2>3 DEF CancelsHold, Drafted
  <2>5. QED
    BY <1>e, <2>1, <2>4
<1>9. CASE \E T \in SUBSET Task : FailExhausted(x, T) \/ TakeClaimable(x, T)
  <2>1. ASSUME NEW T \in SUBSET Task, NEW s \in TaskStatus, NEW op \in {"exhaust", "claim"},
               TakeRows(x, T, s, op)
        PROVE  n.op \in {"exhaust", "claim"}
    <3>1. op \in Op
      BY DEF Op
    <3>2. TypeOK /\ TakeRows(x, T, s, op)
      BY <2>1
    <3>3. n.op = op
      BY <3>1, <3>2, TakeRowsFacts
    <3>4. QED
      BY <3>3
  <2>2. "failed" \in TaskStatus /\ "processing" \in TaskStatus
    BY DEF TaskStatus, Active, Terminal
  <2>3. n.op \in {"exhaust", "claim"}
    BY <1>9, <2>1, <2>2 DEF FailExhausted, TakeClaimable
  <2>4. QED
    BY <1>d, <1>e, <2>3
<1>10. CASE FindBatchIds(x)
  <2>1. /\ n.op = r.op /\ n.draft = r.draft /\ n.view = r.view /\ n.at = "refresh"
        /\ \E t \in r.todo : n.todo = r.todo \ {t}
    BY <1>10, FindBatchIdsFacts
  <2>2. SettlesInOrder(x)'
    <3>1. r.op = "settle" => n.todo = {} /\ NoViews(x)
      BY <1>a, <2>1 DEF SettlesInOrder
    <3>2. QED
      BY <2>1, <3>1 DEF SettlesInOrder, NoViews, Refreshes
  <2>3. QED
    BY <1>f, <2>1, <2>2
<1>11. CASE LockBatch(x)
  <2> DEFINE c == Min(r.batches)
  <2>1. /\ n.at = "count" /\ n.op = r.op /\ r.batches # {} /\ r.batches \subseteq Batch
        /\ n.batch = c /\ n.batches = r.batches \ {c} /\ n.todo = r.todo
        /\ n.draft = r.draft /\ n.view = r.view /\ r.at = "refresh"
    BY <1>a, <1>11, LockBatchFacts DEF Transaction
  <2>2. c \in r.batches /\ \A d \in r.batches : c <= d
    BY <2>1, MinIsLeast, TransactionsAssumption
  <2>3. ASSUME NEW d \in n.batches PROVE c < d
    <3>1. d \in r.batches /\ d # c
      BY <2>1
    <3>2. c <= d /\ c \in Nat /\ d \in Nat
      BY <2>1, <2>2, <3>1, TransactionsAssumption
    <3> HIDE DEF c
    <3>3. QED
      BY <3>1, <3>2
  <2> HIDE DEF c
  <2>4. ASSUME r.op = "settle" PROVE n.todo = {}
    BY <1>a, <2>1, <2>4 DEF SettlesInOrder
  <2>5. ASSUME r.op = "settle", NEW b \in Batch, Refreshes(x, b)', NEW d \in n.batches
        PROVE  b < d
    <3>1. CASE b = c
      BY <2>3, <3>1
    <3>2. CASE b # c
      BY <1>a, <2>1, <2>5, <3>2 DEF SettlesInOrder, Refreshes
    <3>3. QED
      BY <3>1, <3>2
  <2>6. SettlesInOrder(x)'
    BY <2>1, <2>4, <2>5 DEF SettlesInOrder
  <2>7. QED
    BY <1>f, <2>1, <2>6
<1>12. CASE CountTasks(x)
  <2>1. /\ r.at = "count" /\ n.at = "refresh" /\ n.op = r.op
        /\ n.batches = r.batches /\ n.todo = r.todo /\ n.draft = r.draft
        /\ n.view = [r.view EXCEPT ![r.batch] = ViewSeen(x, r.batch)]
    BY <1>12, CountTasksFacts
  <2>2. ASSUME NEW b \in Batch, Refreshes(x, b)' PROVE Refreshes(x, b)
    BY <1>a, <2>1, <2>2 DEF Refreshes, Transaction
  <2>3. r.op = "settle" => n.todo = {}
    BY <1>a, <2>1 DEF SettlesInOrder
  <2>4. SettlesInOrder(x)'
    BY <1>a, <2>1, <2>2, <2>3 DEF SettlesInOrder
  <2>5. QED
    BY <1>f, <2>1, <2>4
<1>13. QED
  BY <1>1, <1>2, <1>3, <1>4, <1>5, <1>6, <1>7, <1>8, <1>9, <1>10, <1>11, <1>12,
     <1>14 DEF Own, Statement

LEMMA LockOrderStep ==
    ASSUME LockInv, LockOrder, [Next]_vars
    PROVE  LockOrder'
<1> USE DEF LockInv, Typed
<1>a. ASSUME NEW y \in Txn, run'[y] = run[y],
             \A t \in Task : target[t] \in Target => target'[t] = target[t],
             \A g \in Target : advisory[g] = y => advisory'[g] = y
      PROVE  CancelsHold(y)' /\ SettlesInOrder(y)'
  <2>1. CancelsHold(y) /\ SettlesInOrder(y)
    BY DEF LockOrder
  <2>2. CancelsHold(y)'
    BY <1>a, <2>1 DEF CancelsHold, Drafted
  <2>3. SettlesInOrder(y)'
    BY <1>a, <2>1 DEF SettlesInOrder, Refreshes, NoViews
  <2>4. QED
    BY <2>2, <2>3
<1>1. ASSUME NEW x \in Txn, Own(x) PROVE LockOrder'
  <2>1. /\ UNCHANGED target /\ Others(x)
        /\ \A y \in Txn, g \in Target : advisory[g] = y => advisory'[g] = y
    BY <1>1, OwnSteps, NoneIsNoView DEF OwnStep, Takes
  <2>2. \A y \in Txn : y # x => CancelsHold(y)' /\ SettlesInOrder(y)'
    BY <1>a, <2>1 DEF Others
  <2>3. QED
    BY <1>1, <2>2, LockOrderOwnStep DEF LockOrder
<1>2. ASSUME NEW x \in Txn, Commit(x) \/ Rollback(x) PROVE LockOrder'
  <2>1. /\ Others(x) /\ run'[x] = Idle
        /\ \A g \in Target : advisory'[g] = IF advisory[g] = x THEN None ELSE advisory[g]
    BY <1>2, EndFacts
  <2>2. \A t \in Task : target[t] \in Target => target'[t] = target[t]
    BY <1>2, CommitFacts, NoneIsNoView DEF Rollback, committed
  <2>3. \A y \in Txn : y # x => CancelsHold(y)' /\ SettlesInOrder(y)'
    BY <1>a, <2>1, <2>2 DEF Others
  <2>4. CancelsHold(x)' /\ SettlesInOrder(x)'
    BY <2>1, IdleFields DEF CancelsHold, SettlesInOrder
  <2>5. QED
    BY <2>3, <2>4 DEF LockOrder
<1>3. CASE UNCHANGED vars
  BY <1>3, <1>a DEF vars, committed, locks, LockOrder
<1>4. QED
  BY <1>1, <1>2, <1>3, NextForms

LEMMA LockOrderCorrect == Spec => []LockOrder
<1>1. Init => LockOrder
  BY IdleFields DEF Init, LockOrder, CancelsHold, SettlesInOrder
<1>2. LockInv /\ LockOrder /\ [Next]_vars => LockOrder'
  BY LockOrderStep
<1>3. QED
  BY <1>1, <1>2, LockInvCorrect, PTL DEF Spec

\* A cancellation makes no enqueue or cancellation that has its resource locks
\* wait at a task row, for the resources of the two differ.
LEMMA CancelsAwaited ==
    ASSUME LockInv, LockOrder, NEW x \in Txn, run[x].op = "cancel",
           NEW z \in Txn, x \in WaitsFor(z), run[z].op \in {"enqueue", "cancel"}
    PROVE  run[z].at \in {"advisory", "refresh"}
<1> USE DEF LockInv, Typed
<1> DEFINE r == run[z]
<1>1. /\ run[x].item = NoMembers
      /\ LocksOf(x) /\ LocksOf(z) /\ CancelsHold(x) /\ EnqueueShape(z) /\ NewRowsOf(z)
      /\ WritesOf(x) /\ r \in Transaction
  BY DEF Shape, ShapeOf, RestShape, Locks, LockOrder, Rows, TypeOK
<1>2. \A t \in Task : x \notin share[t]
  BY <1>1, NoneIsNoView DEF LocksOf, ShareLocksOf, Linked, NoMembers
<1>3. ASSUME NEW t \in Task, row[t] = x
      PROVE  status[t] \in Active /\ target[t] \in Target /\ advisory[target[t]] = x
  BY <1>1, <1>3 DEF LocksOf, RowLocksOf, CancelsHold, WritesOf, TaskOps
<1>4. ASSUME r.at = "lock", NEW t \in r.rows, t \in Task, row[t] = x, x # z
      PROVE  FALSE
  <2>1. r.op = "cancel"
    BY <1>1, <1>4 DEF EnqueueShape
  <2>2. advisory[target[t]] = z
    BY <1>1, <1>4, <2>1 DEF LocksOf, AdvisoryLocksOf
  <2>3. QED
    BY <1>3, <1>4, <2>2
<1>5. ASSUME r.at = "link", r.found \in Task, row[r.found] = x, x # z
      PROVE  FALSE
  <2> DEFINE g == Min(r.todo)
  <2>1. r.op = "enqueue"
    BY <1>5, LabelCases
  <2>2. r.todo # {} /\ r.todo \subseteq Target /\ r.targets = {} /\ Linkable(z, g, r.found)
    BY <1>1, <1>5, <2>1 DEF EnqueueShape, NewRowsOf
  <2>3. g \in r.todo /\ g \in Target
    BY <2>2, MinIsLeast, TransactionsAssumption
  <2> HIDE DEF g
  <2>4. advisory[g] = z
    BY <1>1, <2>1, <2>2, <2>3 DEF LocksOf, AdvisoryLocksOf
  <2>5. target[r.found] = g /\ advisory[target[r.found]] = x
    BY <1>3, <1>5, <2>2, ActiveIsStatus DEF Linkable
  <2>6. QED
    BY <1>5, <2>4, <2>5
<1>6. QED
  BY <1>2, <1>4, <1>5, AwaitedHolds

\* A relation on a set that has a smaller element for each has none.
LEMMA NoDescent ==
    ASSUME NEW K \in SUBSET Nat, \A k \in K : \E j \in K : j < k
    PROVE  K = {}
<1> SUFFICES ASSUME K # {} PROVE FALSE
  OBVIOUS
<1>1. Min(K) \in K /\ \A j \in K : Min(K) <= j
  BY MinIsLeast
<1>2. PICK j \in K : j < Min(K)
  BY <1>1
<1>3. Min(K) <= j /\ j \in Nat /\ Min(K) \in Nat
  BY <1>1
<1>4. QED
  BY <1>2, <1>3

\* A finite set of naturals that has a greater element for each has none.
LEMMA NoAscent ==
    ASSUME NEW K \in SUBSET Nat, IsFiniteSet(K), \A k \in K : \E j \in K : k < j
    PROVE  K = {}
<1> DEFINE Above(k) == {j \in K : k < j}
           N == {Cardinality(Above(k)) : k \in K}
<1>1. \A k \in K : IsFiniteSet(Above(k)) /\ Cardinality(Above(k)) \in Nat
  <2>1. \A k \in K : IsFiniteSet(Above(k))
    BY FS_Subset
  <2>2. QED
    BY <2>1, FS_CardinalityType
<1>2. ASSUME NEW k \in K PROVE \E j \in K : Cardinality(Above(j)) < Cardinality(Above(k))
  <2>1. PICK j \in K : k < j
    OBVIOUS
  <2>2. Above(j) \subseteq Above(k) /\ j \in Above(k) /\ j \notin Above(j)
    <3>1. j \in Nat /\ k \in Nat /\ k < j /\ ~(j < j)
      BY <2>1
    <3>2. \A h \in K : j < h => k < h
      <4>1. SUFFICES ASSUME NEW h \in K, j < h PROVE k < h
        OBVIOUS
      <4>2. h \in Nat
        OBVIOUS
      <4>3. QED
        BY <3>1, <4>1, <4>2
    <3>3. Above(j) \subseteq Above(k)
      BY <3>2
    <3>4. j \in Above(k) /\ j \notin Above(j)
      BY <3>1
    <3>5. QED
      BY <3>3, <3>4
  <2>3. IsFiniteSet(Above(k)) /\ Above(j) # Above(k)
    BY <1>1, <2>2
  <2> HIDE DEF Above
  <2>4. Cardinality(Above(j)) <= Cardinality(Above(k))
        /\ Cardinality(Above(j)) # Cardinality(Above(k))
    BY <2>2, <2>3, FS_Subset
  <2>5. QED
    BY <1>1, <2>4
<1> HIDE DEF Above
<1>3. N \in SUBSET Nat
  BY <1>1
<1>4. \A m \in N : \E n \in N : n < m
  BY <1>2
<1> HIDE DEF N
<1>5. N = {}
  BY <1>3, <1>4, NoDescent
<1>6. QED
  BY <1>5 DEF N

\* Sessions cannot all wait for resources, for those that one has locked come
\* before those that it has still to lock.
LEMMA NoResourceCycle ==
    ASSUME LockInv, NEW S \in SUBSET Txn, Deadlocked(S)
    PROVE  \E x \in S : run[x].at # "advisory"
<1> USE DEF LockInv, Typed
<1> SUFFICES ASSUME \A x \in S : run[x].at = "advisory" PROVE FALSE
  OBVIOUS
<1>1. /\ \A x \in S : \E y \in S : y \in WaitsFor(x)
      /\ \A x \in S : \E z \in S : x \in WaitsFor(z)
  BY DEF Deadlocked
<1> DEFINE K == UNION {NextResource(x) : x \in S}
<1>2. ASSUME NEW w \in S, NEW k \in NextResource(w)
      PROVE  \E z \in S : \E j \in NextResource(z) : j < k
  <2>1. PICK z \in S : w \in WaitsFor(z)
    BY <1>1
  <2>2. PICK j \in NextResource(z) : j \in Target /\ advisory[j] = w
    BY <2>1, AwaitedHolds
  <2>3. k \in run[w].targets
    BY DEF NextResource
  <2>4. j < k
    BY <2>2, <2>3 DEF Locks, LocksOf, AdvisoryLocksOf
  <2>5. QED
    BY <2>2, <2>4
<1>3. K \in SUBSET Nat
  <2>1. \A x \in Txn : NextResource(x) \subseteq Target
    BY DEF NextResource, TypeOK, Transaction
  <2>2. QED
    BY <2>1, TransactionsAssumption
<1>4. \A k \in K : \E j \in K : j < k
  BY <1>2
<1>5. K = {}
  BY <1>3, <1>4, NoDescent
<1>6. PICK x \in S : TRUE
  BY DEF Deadlocked
<1>7. PICK y \in S : y \in WaitsFor(x)
  BY <1>1
<1>8. NextResource(x) # {}
  BY <1>7, AwaitedHolds
<1>9. QED
  BY <1>5, <1>8

\* Outcomes of single tasks do not wait for each other's batch rows in a
\* cycle: each locks those of its task in the order of their ids.
LEMMA NoOutcomeCycle ==
    ASSUME LockInv, LockOrder, NEW S \in SUBSET Txn,
           \A x \in S : /\ run[x].op = "settle" /\ run[x].at = "refresh"
                        /\ \E y \in S : y \in WaitsFor(x)
    PROVE  S = {}
<1> USE DEF LockInv, Typed
<1> DEFINE Held(b) == \E x \in S : b \in run[x].batches /\ batchRow[b] \in S
           K == {b \in Batch : Held(b)}
<1>1. ASSUME NEW x \in S PROVE \E b \in run[x].batches : b \in K
  <2>1. PICK y \in S : y \in WaitsFor(x)
    OBVIOUS
  <2>2. PICK b \in run[x].batches : b \in Batch /\ batchRow[b] = y
    BY <2>1, AwaitedHolds
  <2>3. QED
    BY <2>2
<1>2. ASSUME NEW k \in K PROVE \E j \in K : k < j
  <2>1. PICK y \in S : y = batchRow[k]
    OBVIOUS
  <2>2. PICK j \in run[y].batches : j \in K
    BY <1>1
  <2>3. Refreshes(y, k)
    BY <2>1 DEF Locks, LocksOf, BatchLocksOf
  <2>4. k < j
    BY <2>2, <2>3 DEF LockOrder, SettlesInOrder
  <2>5. QED
    BY <2>2, <2>4
<1>3. K \in SUBSET Nat
  BY TransactionsAssumption
<1>4. IsFiniteSet(K)
  BY TransactionsAssumption, FS_Subset
<1> HIDE DEF K
<1>5. K = {}
  BY <1>2, <1>3, <1>4, NoAscent
<1>6. QED
  BY <1>1, <1>5

\* Wherever sessions wait for each other, one of them waits for a batch row
\* that a claim or a cancellation among them holds: resources, task rows and
\* the batches of one task are locked in orders that cannot cross.
THEOREM DeadlocksMeetAtBatchesCorrect == Spec => []DeadlocksMeetAtBatches
<1>1. LockInv /\ LockOrder => DeadlocksMeetAtBatches
  <2> SUFFICES ASSUME LockInv, LockOrder, NEW S \in SUBSET Txn, Deadlocked(S),
                      \A x \in S : run[x].at = "refresh" =>
                          \A y \in S \cap WaitsFor(x) :
                              run[y].op \notin {"cancel", "exhaust", "claim"}
               PROVE  FALSE
    BY DEF DeadlocksMeetAtBatches
  <2> USE DEF LockInv, Typed
  <2>1. /\ \A x \in S : \E y \in S : y \in WaitsFor(x)
        /\ \A x \in S : \E z \in S : x \in WaitsFor(z)
    BY DEF Deadlocked
  <2>2. \A x \in S : ~(run[x].op = "settle" /\ run[x].at = "lock")
    BY <2>1, SettlesHoldNothing
  <2>3. ASSUME NEW x \in S PROVE run[x].at \in {"advisory", "link", "lock", "refresh"}
    BY <2>1, AwaitedHolds
\* Whoever is awaited at a batch row is the outcome of one task.
  <2> DEFINE R == {x \in S : run[x].op = "settle" /\ run[x].at = "refresh"}
  <2>4. ASSUME NEW x \in S, run[x].at = "refresh"
        PROVE  \E y \in R : y \in WaitsFor(x)
    <3>1. PICK y \in S : y \in WaitsFor(x)
      BY <2>1
    <3>2. run[y].op # "enqueue"
      BY <2>4, <3>1, EnqueuesAwaited
    <3>3. PICK b \in Batch : batchRow[b] = y
      BY <2>4, <3>1, AwaitedHolds
    <3>4. run[y].op \in TaskOps
      BY <3>2, <3>3 DEF Locks, LocksOf, BatchLocksOf
    <3>5. run[y].op = "settle"
      BY <2>4, <3>1, <3>4 DEF TaskOps
    <3>6. run[y].at = "refresh"
      BY <2>2, <2>3, <3>4, <3>5 DEF Shape, ShapeOf, TaskShape
    <3>7. QED
      BY <3>1, <3>5, <3>6
  <2>5. R = {}
    <3>1. \A x \in R : /\ run[x].op = "settle" /\ run[x].at = "refresh"
                       /\ \E y \in R : y \in WaitsFor(x)
      BY <2>4
    <3>2. R \in SUBSET Txn
      OBVIOUS
    <3> HIDE DEF R
    <3>3. QED
      BY <3>1, <3>2, NoOutcomeCycle
  <2>6. ASSUME NEW x \in S PROVE run[x].at # "refresh"
    BY <2>4, <2>5, <2>6
  <2>7. ASSUME NEW x \in S PROVE run[x].op \in {"enqueue", "cancel"}
    BY <2>2, <2>3, <2>6, LabelCases DEF Shape, ShapeOf, TaskShape
  <2>8. ASSUME NEW x \in S PROVE run[x].at = "advisory"
    <3>1. PICK y \in S : y \in WaitsFor(x)
      BY <2>1
    <3>2. CASE run[y].op = "enqueue"
      <4>1. run[x].at = "advisory" \/ (run[x].op = "settle" /\ run[x].at = "lock")
        BY <3>1, <3>2, EnqueuesAwaited
      <4>2. QED
        BY <2>2, <4>1
    <3>3. CASE run[y].op = "cancel"
      <4>1. run[x].at \in {"advisory", "refresh"}
        BY <2>7, <3>1, <3>3, CancelsAwaited
      <4>2. QED
        BY <2>6, <4>1
    <3>4. QED
      BY <2>7, <3>2, <3>3
  <2>9. QED
    BY <2>8, NoResourceCycle
<1>2. QED
  BY <1>1, LockInvCorrect, LockOrderCorrect, PTL

-----------------------------------------------------------------------------
(* The refinement of BatchLedger. *)

LEMMA CountIsNat ==
    ASSUME NEW v, NEW s
    PROVE  /\ IsFiniteSet({g \in Target : v[g] = s})
           /\ CountOf(v, s) \in Nat
           /\ CountOf(v, s) > 0 <=> \E g \in Target : v[g] = s
<1>1. IsFiniteSet({g \in Target : v[g] = s})
  BY TransactionsAssumption, FS_Subset
<1>2. CountOf(v, s) \in Nat
  BY <1>1, FS_CardinalityType DEF CountOf
<1>3. CountOf(v, s) = 0 <=> {g \in Target : v[g] = s} = {}
  BY <1>1, FS_EmptySet DEF CountOf
<1>4. CountOf(v, s) > 0 <=> {g \in Target : v[g] = s} # {}
  BY <1>2, <1>3
<1>5. QED
  BY <1>1, <1>2, <1>4

\* Two finite sets without a common element are counted one after the other.
LEMMA DisjointUnion ==
    ASSUME NEW A, NEW B, IsFiniteSet(A), IsFiniteSet(B), A \cap B = {}
    PROVE  /\ IsFiniteSet(A \cup B)
           /\ Cardinality(A \cup B) = Cardinality(A) + Cardinality(B)
           /\ Cardinality(A \cup B) \in Nat
<1>1. /\ IsFiniteSet(A \cup B)
      /\ Cardinality(A \cup B) = Cardinality(A) + Cardinality(B) - Cardinality(A \cap B)
  BY FS_Union
<1>2. Cardinality(A \cap B) = 0
  BY FS_EmptySet
<1>3. Cardinality(A) \in Nat /\ Cardinality(B) \in Nat
  BY FS_CardinalityType
<1>4. QED
  BY <1>1, <1>2, <1>3

\* The counters of a row that counts the statuses v, as the ledger has them.
CountersOf(v) == [total     |-> Cardinality(Target) - CountOf(v, None),
                  completed |-> CountOf(v, "completed"),
                  failed    |-> CountOf(v, "failed"),
                  cancelled |-> CountOf(v, "cancelled")]

\* A row counts as many settled members as it has exactly when it is finished.
LEMMA SettledCount ==
    ASSUME NEW v \in View
    PROVE  LET c == CountersOf(v) IN
           /\ c.total \in Nat /\ c.completed \in Nat /\ c.failed \in Nat /\ c.cancelled \in Nat
           /\ Ledger!Settled(c) \in Nat /\ Ledger!Settled(c) <= c.total
           /\ Ledger!Settled(c) = c.total <=> BatchStatus(v) \in Terminal
<1> DEFINE c == CountersOf(v)
           done == {g \in Target : v[g] = "completed"}
           bad == {g \in Target : v[g] = "failed"}
           gone == {g \in Target : v[g] = "cancelled"}
           none == {g \in Target : v[g] = None}
           out == (done \cup bad) \cup gone
<1>1. /\ done \cap bad = {} /\ (done \cup bad) \cap gone = {}
      /\ out \cap none = {} /\ out \cup none \subseteq Target
      /\ out \cup none = Target <=> \A g \in Target : v[g] # None => v[g] \in Terminal
  BY NoneIsNoView, ActiveIsStatus DEF Terminal
<1>2. /\ IsFiniteSet(done) /\ IsFiniteSet(bad) /\ IsFiniteSet(gone) /\ IsFiniteSet(none)
      /\ c.completed = Cardinality(done) /\ c.failed = Cardinality(bad)
      /\ c.cancelled = Cardinality(gone) /\ c.total = Cardinality(Target) - Cardinality(none)
      /\ Cardinality(done) \in Nat /\ Cardinality(bad) \in Nat
      /\ Cardinality(gone) \in Nat /\ Cardinality(none) \in Nat
      /\ Cardinality(Target) \in Nat
  <2>1. /\ c.completed = Cardinality(done) /\ c.failed = Cardinality(bad)
        /\ c.cancelled = Cardinality(gone)
        /\ c.total = Cardinality(Target) - Cardinality(none)
    BY DEF CountersOf, CountOf
  <2>2. \A s : IsFiniteSet({g \in Target : v[g] = s}) /\ Cardinality({g \in Target : v[g] = s}) \in Nat
    BY CountIsNat DEF CountOf
  <2>3. Cardinality(Target) \in Nat
    BY FS_CardinalityType, TransactionsAssumption
  <2>4. QED
    BY <2>1, <2>2, <2>3
<1>3. Ledger!Settled(c) = c.completed + c.failed + c.cancelled
  BY DEF Ledger!Settled
<1> HIDE DEF c, done, bad, gone, none
<1>4. /\ IsFiniteSet(done \cup bad)
      /\ Cardinality(done \cup bad) = Cardinality(done) + Cardinality(bad)
  BY <1>1, <1>2, DisjointUnion
<1>5. IsFiniteSet(out) /\ Cardinality(out) = Cardinality(done) + Cardinality(bad) + Cardinality(gone)
  BY <1>1, <1>2, <1>4, DisjointUnion
<1>6. Cardinality(out) = Ledger!Settled(c) /\ Cardinality(out) \in Nat
  BY <1>2, <1>3, <1>5
<1> HIDE DEF out
<1>7. Cardinality(out \cup none) = Cardinality(out) + Cardinality(none)
  BY <1>1, <1>2, <1>5, DisjointUnion
<1>8. /\ Cardinality(out \cup none) <= Cardinality(Target)
      /\ Cardinality(out \cup none) = Cardinality(Target) <=> out \cup none = Target
  <2>1. /\ Cardinality(out \cup none) <= Cardinality(Target)
        /\ Cardinality(out \cup none) = Cardinality(Target) => out \cup none = Target
    BY <1>1, TransactionsAssumption, FS_Subset
  <2>2. out \cup none = Target => Cardinality(out \cup none) = Cardinality(Target)
    OBVIOUS
  <2>3. QED
    BY <2>1, <2>2
<1>9. Ledger!Settled(c) <= c.total /\ c.total \in Nat
  BY <1>2, <1>6, <1>7, <1>8
<1>10. Ledger!Settled(c) = c.total <=> out \cup none = Target
  <2>1. Ledger!Settled(c) = c.total <=> Cardinality(out \cup none) = Cardinality(Target)
    BY <1>2, <1>6, <1>7
  <2>2. QED
    BY <1>8, <2>1
<1>11. QED
  BY <1>1, <1>2, <1>6, <1>9, <1>10, FinishedView DEF c

\* The status of a finished row is the outcome of its counters.
LEMMA OutcomeOf ==
    ASSUME NEW v \in View, BatchStatus(v) \in Terminal
    PROVE  BatchStatus(v) = Ledger!Outcome(CountersOf(v))
<1> DEFINE c == CountersOf(v)
<1>1. /\ c.failed \in Nat /\ c.cancelled \in Nat
      /\ c.failed > 0 <=> \E g \in Target : v[g] = "failed"
      /\ c.cancelled > 0 <=> \E g \in Target : v[g] = "cancelled"
  BY CountIsNat DEF CountersOf
<1>2. BatchStatus(v) = IF \E g \in Target : v[g] = "failed" THEN "failed"
                       ELSE IF \E g \in Target : v[g] = "cancelled" THEN "cancelled"
                       ELSE "completed"
  BY FinishedView
<1> HIDE DEF c
<1>3. CASE c.failed > 0
  BY <1>1, <1>2, <1>3 DEF Ledger!Outcome, c
<1>4. CASE c.failed = 0 /\ c.cancelled > 0
  <2>1. Ledger!Outcome(c) = "cancelled"
    BY <1>4 DEF Ledger!Outcome
  <2>2. QED
    BY <1>1, <1>2, <1>4, <2>1 DEF c
<1>5. CASE c.failed = 0 /\ c.cancelled = 0
  <2>1. Ledger!Outcome(c) = "completed"
    BY <1>5 DEF Ledger!Outcome
  <2>2. QED
    BY <1>1, <1>2, <1>5, <2>1 DEF c
<1>6. QED
  BY <1>1, <1>3, <1>4, <1>5

\* No step removes a row, adds or takes a member, or touches a settled one.
LEMMA MembersStay ==
    ASSUME LockInv, Counts, Counts', [Next]_vars, NEW b \in Batch, view[b] # None
    PROVE  /\ view'[b] # None
           /\ \A g \in Target : /\ view[b][g] = None <=> view'[b][g] = None
                                /\ view[b][g] \in Terminal => view'[b][g] = view[b][g]
<1> USE DEF LockInv, Typed
<1>1. CASE view'[b] = view[b]
  BY <1>1
<1>2. ASSUME NEW x \in Txn, Commit(x)
      PROVE  /\ view'[b] # None
             /\ \A g \in Target : /\ view[b][g] = None <=> view'[b][g] = None
                                  /\ view[b][g] \in Terminal => view'[b][g] = view[b][g]
  <2>1. view'[b] # None /\ item'[b] = item[b]
    BY <1>2, BatchesWritten
  <2>2. view[b] = [g \in Target |-> IF item[b][g] = None THEN None ELSE status[item[b][g]]]
    BY DEF Counts, CommittedSummariesAgree
  <2>3. view'[b] = [g \in Target |-> IF item'[b][g] = None THEN None
                                     ELSE status'[item'[b][g]]]
    BY <2>1 DEF Counts, CommittedSummariesAgree
  <2>4. ASSUME NEW t \in Task, status[t] # None
        PROVE  /\ status'[t] # None
               /\ status[t] \in Terminal => status'[t] = status[t]
    <3>1. status[t] \in Terminal => status[t] \notin Active
      BY DEF Terminal, Active
    <3>2. QED
      BY <1>2, <2>4, <3>1, RowsWritten
  <2>5. \A g \in Target : item[b][g] # None => item[b][g] \in Task /\ status[item[b][g]] # None
    BY DEF TypeOK, Rows, MembersAreTasks
  <2>6. \A g \in Target : item[b][g] # None =>
            /\ status'[item[b][g]] # None
            /\ status[item[b][g]] \in Terminal => status'[item[b][g]] = status[item[b][g]]
    BY <2>4, <2>5
  <2>7. None \notin Terminal
    BY ActiveIsStatus
  <2>8. QED
    BY <2>1, <2>2, <2>3, <2>5, <2>6, <2>7
<1>3. ASSUME NEW x \in Txn, Own(x) PROVE view'[b] = view[b]
  BY <1>3, OwnSteps DEF OwnStep
<1>4. ASSUME NEW x \in Txn, Rollback(x) PROVE view'[b] = view[b]
  BY <1>4 DEF Rollback, committed
<1>5. UNCHANGED vars => view'[b] = view[b]
  BY DEF vars, committed
<1>6. QED
  BY <1>1, <1>2, <1>3, <1>4, <1>5, NextForms

\* Counters of rows that agree on who is a member and on what has settled.
LEMMA CountersGrow ==
    ASSUME NEW v \in View, NEW w \in View,
           \A g \in Target : /\ v[g] = None <=> w[g] = None
                             /\ v[g] \in Terminal => w[g] = v[g]
    PROVE  LET c == CountersOf(v)
               d == CountersOf(w)
           IN  /\ d.total = c.total
               /\ d.completed >= c.completed /\ d.failed >= c.failed
               /\ d.cancelled >= c.cancelled
<1>1. CountOf(v, None) = CountOf(w, None)
  BY DEF CountOf
<1>2. ASSUME NEW s \in Terminal PROVE CountOf(v, s) <= CountOf(w, s)
  <2>1. {g \in Target : v[g] = s} \subseteq {g \in Target : w[g] = s}
    BY <1>2
  <2>2. QED
    <3>1. IsFiniteSet({g \in Target : w[g] = s})
      BY CountIsNat
    <3>2. QED
      BY <2>1, <3>1, FS_Subset DEF CountOf
<1>3. "completed" \in Terminal /\ "failed" \in Terminal /\ "cancelled" \in Terminal
  BY DEF Terminal
<1>4. QED
  BY <1>1, <1>2, <1>3, CountIsNat DEF CountersOf

\* A batch row moves as the ledger allows: it appears sealed or finished,
\* progresses, finishes, or stays.
LEMMA LedgerStep ==
    ASSUME LockInv, LockInv', Counts, Counts', [Next]_vars, NEW b \in Batch
    PROVE  \/ Ledger!Keep(b) \/ Ledger!Open(b) \/ Ledger!Follow(b)
           \/ Ledger!Seal(b) \/ Ledger!Progress(b) \/ Ledger!Finish(b)
<1> USE DEF LockInv, Typed
<1> DEFINE None4 == [total |-> 0, completed |-> 0, failed |-> 0, cancelled |-> 0]
           c == IF view[b] = None THEN None4 ELSE CountersOf(view[b])
           d == IF view'[b] = None THEN None4 ELSE CountersOf(view'[b])
           r == IF view[b] = None THEN "pending" ELSE BatchStatus(view[b])
           s == IF view'[b] = None THEN "pending" ELSE BatchStatus(view'[b])
           p == IF view[b] = None THEN "absent"
                ELSE IF BatchStatus(view[b]) \in Terminal THEN "finished" ELSE "sealed"
           q == IF view'[b] = None THEN "absent"
                ELSE IF BatchStatus(view'[b]) \in Terminal THEN "finished" ELSE "sealed"
<1>1. /\ Ledger!Grows(b) <=> /\ d.completed >= c.completed /\ d.failed >= c.failed
                             /\ d.cancelled >= c.cancelled
                             /\ Ledger!Settled(d) <= d.total
  BY DEF Ledger!Grows, CountersOf
<1>2. /\ Ledger!Keep(b) <=> q = p /\ d = c /\ s = r
      /\ Ledger!Seal(b) <=>
             p \in {"absent", "open"} /\ q = "sealed" /\ (p = "open" => d = c)
             /\ Ledger!Settled(d) < d.total /\ s \in {"pending", "processing"}
      /\ Ledger!Progress(b) <=>
             p = "sealed" /\ q = "sealed" /\ d.total = c.total
             /\ Ledger!Grows(b) /\ Ledger!Settled(d) < d.total
             /\ s \in {"pending", "processing"}
      /\ Ledger!Finish(b) <=>
             p # "finished" /\ q = "finished" /\ (p # "absent" => d.total = c.total)
             /\ Ledger!Grows(b) /\ Ledger!Settled(d) = d.total
             /\ s = Ledger!Outcome(d)
  BY DEF Ledger!Keep, Ledger!Seal, Ledger!Progress, Ledger!Finish, CountersOf
<1>3. CASE view'[b] = None
  <2>1. view[b] = None
    BY <1>3, MembersStay
  <2>2. q = p /\ d = c /\ s = r
    BY <1>3, <2>1
  <2>3. QED
    BY <1>2, <2>2
<1>4. CASE view'[b] # None
  <2>1. /\ d = CountersOf(view'[b]) /\ s = BatchStatus(view'[b])
        /\ q = IF s \in Terminal THEN "finished" ELSE "sealed"
    BY <1>4
  <2>2. /\ view'[b] \in View
        /\ s \in Terminal => Ledger!Settled(d) = d.total /\ s = Ledger!Outcome(d)
        /\ s \notin Terminal => Ledger!Settled(d) < d.total /\ s \in {"pending", "processing"}
        /\ d.completed \in Nat /\ d.failed \in Nat /\ d.cancelled \in Nat
        /\ Ledger!Settled(d) <= d.total
    <3>1. view'[b] \in View
      BY <1>4 DEF TypeOK
    <3>2. QED
      BY <2>1, <3>1, SettledCount, OutcomeOf, FinishedView
  <2>3. CASE view[b] = None
    <3>1. p = "absent" /\ c.completed = 0 /\ c.failed = 0 /\ c.cancelled = 0
      BY <2>3
    <3> HIDE DEF c, d, p, q, r, s
    <3>2. Ledger!Grows(b)
      BY <1>1, <2>2, <3>1
    <3>3. QED
      BY <1>2, <2>1, <2>2, <3>1, <3>2
  <2>4. CASE view[b] # None
    <3>1. /\ c = CountersOf(view[b]) /\ r = BatchStatus(view[b])
          /\ p = IF r \in Terminal THEN "finished" ELSE "sealed"
          /\ view[b] \in View
      BY <2>4 DEF TypeOK
    <3>2. \A g \in Target : /\ view[b][g] = None <=> view'[b][g] = None
                            /\ view[b][g] \in Terminal => view'[b][g] = view[b][g]
      BY <2>4, MembersStay
    <3>3. /\ d.total = c.total
          /\ d.completed >= c.completed /\ d.failed >= c.failed
          /\ d.cancelled >= c.cancelled
      BY <2>1, <2>2, <3>1, <3>2, CountersGrow
    <3>4. CASE r \in Terminal
      <4>1. \A g \in Target : view[b][g] # None => view[b][g] \in Terminal
        BY <3>1, <3>4, FinishedView
      <4>2. \A g \in Target : view'[b][g] = view[b][g]
        BY <3>2, <4>1
      <4>3. view'[b] = view[b]
        BY <2>2, <3>1, <4>2 DEF View
      <4>4. q = p /\ d = c /\ s = r
        BY <4>3
      <4>5. QED
        BY <1>2, <4>4
    <3>5. CASE r \notin Terminal
      <4> HIDE DEF c, d, p, q, r, s
      <4>1. Ledger!Grows(b)
        BY <1>1, <2>2, <3>3
      <4>2. QED
        BY <1>2, <2>1, <2>2, <3>1, <3>3, <3>5, <4>1
    <3>6. QED
      BY <3>4, <3>5
  <2>5. QED
    BY <2>3, <2>4
<1>5. QED
  BY <1>3, <1>4

\* Statement by statement, with every lock, commit and failure, the committed
\* batch rows implement BatchLedger: a batch appears sealed with a fixed number
\* of members, its counters only grow, and once it is finished it stays.
THEOREM TransactionsKeepLedger == Spec => KeepsLedger
<1>1. Init => Ledger!Init
  BY DEF Init, Ledger!Init, Ledger!Zero
<1>2. ASSUME LockInv, LockInv', Counts, Counts', [Next]_vars
      PROVE  Ledger!Next
  BY <1>2, LedgerStep DEF Ledger!Next
<1>3. QED
  BY <1>1, <1>2, LockInvCorrect, CountsCorrect, PTL DEF Spec, KeepsLedger, Ledger!Spec
=============================================================================
