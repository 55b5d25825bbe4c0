--------------------- MODULE ApplicationNotificationsProofs ---------------------
(***************************************************************************)
(* Theorems about the notification queue, for any number of applications,  *)
(* digests, attempts and handlers.                                         *)
(*                                                                         *)
(* Fenced says that a handler is never ahead of its message, so that a     *)
(* claim leaves every earlier handler without it; what a handler has read  *)
(* of a message it holds is then still what its write will settle.         *)
(***************************************************************************)
EXTENDS ApplicationNotifications, FiniteSetTheorems, TLAPS

Fenced ==
    \A h \in work : h.kind = "message" =>
        message[h.id] # None /\ h.attempt <= message[h.id].attempts

\* What the two queries of a handler have found of the deliveries that wait.
Found(h) ==
    /\ h.at = "counted" => Cardinality(Pending(h.id)) <= h.content.total
    /\ h.at = "listed" =>
           /\ \A a \in h.content.named : a \in Pending(h.id) \/ event[a] = None
           /\ \/ Pending(h.id) \subseteq h.content.named
              \/ Cardinality(h.content.named) = DetailLimit
    /\ h.at \in {"read", "sent"} =>
           \/ \A a \in Pending(h.id) : Accounts(h.content, a)
           \/ NamesOneGone(h.content)

Readings == \A h \in work : h.kind = "message" /\ Holds(h) => Found(h)

\* A mail is not empty, and a handler that has sent one has sent the mail of
\* its message.
Mailed ==
    /\ CompletedWasMailed
    /\ \A m \in Message : mail[m] = Nothing \/ mail[m].named # {}
    /\ \A h \in work : h.kind = "message" /\ h.at \in {"read", "sent"} =>
           /\ h.content.named # {}
           /\ h.at = "sent" => h.content = mail[h.id]

\* The deliveries in message m stay as they are, but for applications that go.
Kept(m) ==
    \A x \in Slot :
        \/ delivery[x] # None /\ delivery[x].message = m
        \/ delivery'[x] # None /\ delivery'[x].message = m
        => \/ delivery'[x] = delivery[x]
           \/ delivery'[x] = None /\ event'[x[1]] = None

\* No application comes back.
GoneStay == \A a \in Application : event[a] = None => event'[a] = None

-----------------------------------------------------------------------------
(* What the operators of the model do. *)

LEMMA Numbers ==
    /\ MaxAttempts \in Nat \ {0} /\ DetailLimit \in Nat \ {0}
    /\ None \notin Row /\ None \notin Delivery
    /\ PlanOf \in [Application -> SUBSET Digest]
BY NotificationAssumption

LEMMA NothingFacts == Nothing \in Content /\ Nothing.named = {} /\ Nothing.total = 0
BY DEF Nothing, Content

LEMMA HandlerTypes ==
    ASSUME TypeOK, NEW h \in work
    PROVE  /\ h.kind = "event" => h \in EventHandler
           /\ h.kind = "message" => h \in MessageHandler
           /\ h.kind \in {"event", "message"}
           /\ h.at \in {"counted", "listed", "read", "failing", "sent"}
                  => h.kind = "message"
BY DEF TypeOK, EventHandler, MessageHandler

LEMMA WaitingRow == Waiting \in Row /\ Waiting # None
BY Numbers DEF Waiting, Row

LEMMA FailedRow ==
    ASSUME NEW r \in Row
    PROVE  /\ AfterFailure(r) \in Row
           /\ AfterFailure(r).attempts = r.attempts
           /\ AfterFailure(r).status \in {"pending", "failed"}
BY DEF AfterFailure, Row

\* A held row is processing at the attempt of the handler.
LEMMA HeldRow ==
    ASSUME TypeOK, NEW h \in work, Holds(h)
    PROVE  /\ h.kind = "event" => /\ event[h.id] \in Row /\ event[h.id] # None
                                  /\ event[h.id].status = "processing"
           /\ h.kind = "message" => /\ message[h.id] \in Row /\ message[h.id] # None
                                    /\ message[h.id].status = "processing"
                                    /\ message[h.id].attempts = h.attempt
<1>1. [status |-> "processing", attempts |-> h.attempt] \in Row
  BY HandlerTypes, Numbers DEF Row, EventHandler, MessageHandler
<1>2. QED
  BY <1>1, Numbers, HandlerTypes DEF Holds

\* The fate of the deliveries of a message that is over.
LEMMA SettledFacts ==
    ASSUME TypeOK, NEW m, NEW s \in {"completed", "failed", "cancelled"},
           delivery' = Settled(m, s)
    PROVE  /\ delivery' \in [Slot -> Delivery \cup {None}]
           /\ \A x \in Slot : delivery'[x] # None =>
                  /\ delivery[x] # None
                  /\ delivery'[x].message = delivery[x].message
                  /\ delivery'[x].status = "pending" =>
                         delivery'[x].message # m /\ delivery[x].status = "pending"
                  /\ delivery'[x].status = "completed" =>
                         \/ delivery[x].status = "completed"
                         \/ /\ s = "completed" /\ delivery[x].message = m
                            /\ delivery[x].status = "pending"
           /\ \A n : n # m => Kept(n)
<1>1. \A x \in Slot : delivery[x] # None => [delivery[x] EXCEPT !.status = s] \in Delivery
  BY DEF TypeOK, Delivery
<1>2. delivery' \in [Slot -> Delivery \cup {None}]
  BY <1>1 DEF Settled, TypeOK
<1>3. ASSUME NEW x \in Slot, delivery'[x] # None
      PROVE  /\ delivery[x] # None
             /\ delivery'[x].message = delivery[x].message
             /\ delivery'[x].status = "pending" =>
                    delivery'[x].message # m /\ delivery[x].status = "pending"
             /\ delivery'[x].status = "completed" =>
                    \/ delivery[x].status = "completed"
                    \/ /\ s = "completed" /\ delivery[x].message = m
                       /\ delivery[x].status = "pending"
  <2>1. delivery[x] \in Delivery
    BY <1>3, Numbers DEF Settled, TypeOK
  <2>2. QED
    BY <1>3, <2>1 DEF Settled, Delivery
<1>4. ASSUME NEW n, n # m PROVE Kept(n)
  <2>1. \A x \in Slot : delivery[x] # None =>
            [delivery[x] EXCEPT !.status = s].message = delivery[x].message
    BY DEF TypeOK, Delivery
  <2>2. \A x \in Slot : \/ delivery'[x] = delivery[x]
                        \/ delivery[x].message = m /\ delivery'[x].message = m
    BY <2>1 DEF Settled
  <2>3. QED
    BY <1>4, <2>2 DEF Kept
<1>5. QED
  BY <1>2, <1>3, <1>4

\* An event that fans out changes no message but those it makes, and what it
\* delivers waits in a message that is pending.
LEMMA FanOutFacts ==
    ASSUME TypeOK, NEW h \in work, FanOut(h)
    PROVE  /\ event' \in [Application -> Row \cup {None}]
           /\ message' \in [Message -> Row \cup {None}]
           /\ delivery' \in [Slot -> Delivery \cup {None}]
           /\ \A m \in Message : \/ message'[m] = message[m]
                                 \/ message[m] = None /\ message'[m] = Waiting
           /\ \A x \in Slot : \/ delivery'[x] = delivery[x]
                              \/ /\ delivery'[x] # None /\ delivery'[x].status = "pending"
                                 /\ delivery'[x].message \in Message
                                 /\ message'[delivery'[x].message] # None
                                 /\ message'[delivery'[x].message].status = "pending"
           /\ \A x \in Slot : delivery[x] # None => delivery'[x] = delivery[x]
           /\ GoneStay
           /\ work' \subseteq work /\ UNCHANGED <<mail, recipient>>
<1> USE Numbers, WaitingRow
<1>1. h.kind = "event" /\ h \in EventHandler /\ h.id \in Application
  BY HandlerTypes DEF FanOut, EventHandler
<1>2. work' \subseteq work /\ UNCHANGED <<mail, recipient>>
  BY DEF FanOut, Leaves
<1>3. CASE ~Holds(h)
  BY <1>2, <1>3 DEF FanOut, TypeOK, GoneStay
<1>4. CASE Holds(h)
  <2> DEFINE new == {k \in PlanOf[h.id] : delivery[<<h.id, k>>] = None}
             joined == {Joins(h.id, k) : k \in new}
  <2>1. event[h.id] \in Row /\ event[h.id] # None
    BY <1>1, <1>4, HeldRow
  <2>2. \A k \in new : k \in Digest /\ Joins(h.id, k) \in Message
    BY <1>1 DEF Joins, Message
  <2>3. CASE \A m \in joined : message[m] = None \/ message[m].status = "pending"
    <3>1. /\ message' = [m \in Message |->
                 IF m \in joined /\ message[m] = None THEN Waiting ELSE message[m]]
          /\ delivery' = [x \in Slot |->
                 IF x[1] = h.id /\ x[2] \in new
                 THEN [message |-> Joins(h.id, x[2]), status |-> "pending"]
                 ELSE delivery[x]]
          /\ event' = [event EXCEPT ![h.id].status = "completed"]
      BY <1>1, <1>4, <2>3 DEF FanOut
    <3>2. event' \in [Application -> Row \cup {None}]
      BY <1>1, <2>1, <3>1 DEF TypeOK, Row
    <3>3. /\ message' \in [Message -> Row \cup {None}]
          /\ \A m \in Message : \/ message'[m] = message[m]
                                \/ message[m] = None /\ message'[m] = Waiting
      BY <3>1 DEF TypeOK
    <3>4. ASSUME NEW x \in Slot, x[1] = h.id, x[2] \in new
          PROVE  /\ delivery'[x] \in Delivery /\ delivery'[x].status = "pending"
                 /\ delivery'[x].message \in Message
                 /\ message'[delivery'[x].message] # None
                 /\ message'[delivery'[x].message].status = "pending"
      <4>1. delivery'[x] = [message |-> Joins(h.id, x[2]), status |-> "pending"]
        BY <3>1, <3>4
      <4>2. Joins(h.id, x[2]) \in joined /\ Joins(h.id, x[2]) \in Message
        BY <2>2, <3>4
      <4> DEFINE j == Joins(h.id, x[2])
      <4> HIDE DEF new, joined, j
      <4>3. /\ message'[j] # None /\ message'[j].status = "pending"
        BY <2>3, <3>1, <4>2 DEF Waiting, j
      <4>4. QED
        BY <4>1, <4>2, <4>3 DEF Delivery, j
    <3>5. \A x \in Slot : ~(x[1] = h.id /\ x[2] \in new) => delivery'[x] = delivery[x]
      BY <3>1
    <3>6. delivery' \in [Slot -> Delivery \cup {None}]
      <4>1. DOMAIN delivery' = Slot /\ delivery' = [x \in Slot |-> delivery'[x]]
        BY <3>1
      <4>2. \A x \in Slot : delivery'[x] \in Delivery \cup {None}
        BY <3>4, <3>5 DEF TypeOK
      <4>3. QED
        BY <4>1, <4>2
    <3>7. GoneStay
      BY <1>1, <2>1, <3>1 DEF TypeOK, GoneStay
    <3>8. \A x \in Slot : x[1] = h.id /\ x[2] \in new => delivery[x] = None
      BY DEF Slot
    <3> HIDE DEF new, joined
    <3>9. QED
      BY <1>2, <3>2, <3>3, <3>4, <3>5, <3>6, <3>7, <3>8
  <2>4. CASE ~\A m \in joined : message[m] = None \/ message[m].status = "pending"
    <3>1. /\ event' = [event EXCEPT ![h.id] = AfterFailure(@)]
          /\ UNCHANGED <<message, delivery>>
      BY <1>1, <1>4, <2>4 DEF FanOut
    <3>2. QED
      BY <1>1, <1>2, <2>1, <3>1, FailedRow DEF TypeOK, GoneStay
  <2>5. QED
    BY <2>3, <2>4
<1>5. QED
  BY <1>3, <1>4

\* Switching off ends the pending messages of a recipient and what waits in them.
LEMMA SwitchOffFacts ==
    ASSUME TypeOK, NEW k \in Digest, SwitchOff(k)
    PROVE  /\ message' \in [Message -> Row \cup {None}]
           /\ delivery' \in [Slot -> Delivery \cup {None}]
           /\ \A m \in Message :
                  \/ message'[m] = message[m]
                  \/ /\ message[m] # None /\ message[m].status = "pending"
                     /\ message'[m] # None /\ message'[m].status = "cancelled"
                     /\ message'[m].attempts = message[m].attempts
                     /\ \A x \in Slot : delivery'[x] # None /\ delivery'[x].message = m
                                            => delivery'[x].status # "pending"
           /\ \A x \in Slot : delivery'[x] # None =>
                  /\ delivery[x] # None
                  /\ delivery'[x].message = delivery[x].message
                  /\ delivery'[x].status \in {"pending", "completed"} =>
                         delivery'[x] = delivery[x]
           /\ \A m \in Message : message[m].status # "pending" => Kept(m)
<1> DEFINE unsent == {m \in Message : m[1] = k /\ message[m] # None
                                      /\ message[m].status = "pending"}
<1>1. /\ message' = [m \in Message |->
             IF m \in unsent THEN [message[m] EXCEPT !.status = "cancelled"] ELSE message[m]]
      /\ delivery' = [x \in Slot |->
             IF delivery[x] # None /\ delivery[x].status = "pending"
                /\ delivery[x].message \in unsent
             THEN [delivery[x] EXCEPT !.status = "cancelled"]
             ELSE delivery[x]]
  BY DEF SwitchOff
<1>2. \A m \in unsent : /\ message[m] \in Row
                        /\ [message[m] EXCEPT !.status = "cancelled"] \in Row
                        /\ [message[m] EXCEPT !.status = "cancelled"].status = "cancelled"
                        /\ [message[m] EXCEPT !.status = "cancelled"].attempts
                               = message[m].attempts
  BY DEF TypeOK, Row
<1>3. \A x \in Slot : delivery[x] # None =>
          /\ delivery[x] \in Delivery
          /\ [delivery[x] EXCEPT !.status = "cancelled"] \in Delivery
          /\ [delivery[x] EXCEPT !.status = "cancelled"].status = "cancelled"
          /\ [delivery[x] EXCEPT !.status = "cancelled"].message = delivery[x].message
  BY DEF TypeOK, Delivery
<1>4. message' \in [Message -> Row \cup {None}]
  BY <1>1, <1>2 DEF TypeOK
<1>5. delivery' \in [Slot -> Delivery \cup {None}]
  BY <1>1, <1>3 DEF TypeOK
<1>6. \A x \in Slot : delivery'[x] # None =>
          /\ delivery[x] # None
          /\ delivery'[x].message = delivery[x].message
          /\ delivery'[x].status \in {"pending", "completed"} => delivery'[x] = delivery[x]
          /\ delivery'[x].message \in unsent => delivery'[x].status # "pending"
  BY <1>1, <1>3
<1>7. \A m \in Message : m \notin unsent => message'[m] = message[m]
  BY <1>1
<1>8. \A m \in unsent : /\ message[m] # None /\ message[m].status = "pending"
                        /\ message'[m] # None /\ message'[m].status = "cancelled"
                        /\ message'[m].attempts = message[m].attempts
  BY <1>1, <1>2, Numbers
<1>9. ASSUME NEW m \in Message, message[m].status # "pending" PROVE Kept(m)
  <2>1. \A x \in Slot : \/ delivery'[x] = delivery[x]
                        \/ /\ delivery[x].message \in unsent
                           /\ delivery'[x].message = delivery[x].message
    BY <1>1, <1>3
  <2>2. QED
    BY <1>9, <2>1 DEF Kept
<1> HIDE DEF unsent
<1>10. QED
  BY <1>4, <1>5, <1>6, <1>7, <1>8, <1>9

\* What ends a message: its row, and the fate of its deliveries.
LEMMA EndOfMessage ==
    ASSUME TypeOK, NEW m \in Message, message[m] # None,
           NEW s \in {"completed", "failed", "cancelled"},
           message' = [message EXCEPT ![m].status = s]
    PROVE  /\ message' \in [Message -> Row \cup {None}]
           /\ message'[m] # None /\ message'[m].status = s
           /\ message'[m].attempts = message[m].attempts
           /\ \A n \in Message : n # m => message'[n] = message[n]
<1>1. message[m] \in Row
  BY DEF TypeOK
<1>2. [message[m] EXCEPT !.status = s] \in Row
  BY <1>1 DEF Row
<1>3. message'[m] = [message[m] EXCEPT !.status = s]
  BY DEF TypeOK
<1>4. QED
  BY <1>1, <1>2, <1>3, Numbers DEF TypeOK, Row

\* What a step of a message's handler, or of its claim, writes.
LEMMA MessageSteps ==
    ASSUME TypeOK, NEW h \in work, Record(h) \/ Retry(h) \/ Inspect(h) \/ ReadRest(h)
    PROVE  /\ h \in MessageHandler
           /\ \/ UNCHANGED <<message, delivery>>
              \/ /\ Holds(h) /\ h.at \in {"failing", "sent"}
                 /\ message' = [message EXCEPT ![h.id] = AfterFailure(@)]
                 /\ AfterFailure(message[h.id]).status = "pending"
                 /\ UNCHANGED delivery
              \/ \E s \in {"completed", "failed", "cancelled"} :
                    /\ Holds(h)
                    /\ s = "completed" => h.at = "sent"
                    /\ message' = [message EXCEPT ![h.id].status = s]
                    /\ delivery' = Settled(h.id, s)
           /\ UNCHANGED <<event, mail, recipient>>
<1>1. h \in MessageHandler
  BY HandlerTypes DEF Record, Retry, Inspect, ReadRest
<1>2. CASE Record(h)
  BY <1>1, <1>2 DEF Record
<1>3. CASE Inspect(h) \/ ReadRest(h)
  BY <1>1, <1>3 DEF Inspect, ReadRest, Cancel
<1>4. CASE Retry(h)
  <2> DEFINE r == AfterFailure(message[h.id])
  <2>1. CASE ~Holds(h)
    BY <1>1, <1>4, <2>1 DEF Retry
  <2>2. CASE Holds(h)
    <3>1. message[h.id] \in Row
      BY <1>1, <2>2, HeldRow DEF MessageHandler
    <3>2. r.status \in {"pending", "failed"}
          /\ (r.status = "failed" => r = [message[h.id] EXCEPT !.status = "failed"])
      BY <3>1 DEF AfterFailure, Row
    <3>3. /\ message' = [message EXCEPT ![h.id] = r]
          /\ delivery' = IF r.status = "failed" THEN Settled(h.id, "failed") ELSE delivery
          /\ h.at \in {"failing", "sent"}
      BY <1>4, <2>2 DEF Retry
    <3>4. QED
      BY <1>1, <1>4, <2>2, <3>2, <3>3 DEF Retry
  <2>3. QED
    BY <2>1, <2>2
<1>5. QED
  BY <1>2, <1>3, <1>4

\* The same, as what becomes of the rows.
LEMMA MessageFacts ==
    ASSUME TypeOK, NEW h \in work, Record(h) \/ Retry(h) \/ Inspect(h) \/ ReadRest(h)
    PROVE  /\ message' \in [Message -> Row \cup {None}]
           /\ delivery' \in [Slot -> Delivery \cup {None}]
           /\ \A m \in Message :
                  \/ message'[m] = message[m]
                  \/ /\ m = h.id /\ message[m] # None /\ message'[m] # None
                     /\ message'[m].attempts = message[m].attempts
                     /\ message'[m].status # "processing"
                     /\ message'[m].status # "pending" =>
                          \A x \in Slot : delivery'[x] # None /\ delivery'[x].message = m
                                              => delivery'[x].status # "pending"
           /\ \A x \in Slot : delivery'[x] # None =>
                  /\ delivery[x] # None
                  /\ delivery'[x].message = delivery[x].message
                  /\ delivery'[x].status = "pending" => delivery[x].status = "pending"
                  /\ delivery'[x].status = "completed" =>
                         \/ delivery[x].status = "completed"
                         \/ /\ Holds(h) /\ h.at = "sent" /\ delivery[x].message = h.id
                            /\ delivery[x].status = "pending"
           /\ \A m \in Message : message'[m] = message[m] => Kept(m)
           /\ GoneStay
<1>0. GoneStay
  BY MessageSteps DEF GoneStay
<1>1. h \in MessageHandler /\ h.id \in Message
  BY MessageSteps DEF MessageHandler
<1>2. CASE UNCHANGED <<message, delivery>>
  BY <1>0, <1>2 DEF TypeOK, Kept
<1>3. CASE /\ Holds(h) /\ h.at \in {"failing", "sent"}
           /\ message' = [message EXCEPT ![h.id] = AfterFailure(@)]
           /\ AfterFailure(message[h.id]).status = "pending"
           /\ UNCHANGED delivery
  <2>1. message[h.id] \in Row /\ message[h.id] # None
    BY <1>1, <1>3, HeldRow DEF MessageHandler
  <2>2. message'[h.id] = AfterFailure(message[h.id])
    BY <1>1, <1>3 DEF TypeOK
  <2>3. /\ message'[h.id] \in Row /\ message'[h.id] # None
        /\ message'[h.id].attempts = message[h.id].attempts
        /\ message'[h.id].status = "pending"
    BY <1>3, <2>1, <2>2, FailedRow, Numbers
  <2>4. \A m \in Message : m # h.id => message'[m] = message[m]
    BY <1>3 DEF TypeOK
  <2>5. message' \in [Message -> Row \cup {None}]
    BY <1>3, <2>1, FailedRow DEF TypeOK
  <2>6. QED
    BY <1>0, <1>3, <2>1, <2>3, <2>4, <2>5 DEF TypeOK, Kept
<1>4. ASSUME NEW s \in {"completed", "failed", "cancelled"}, Holds(h),
             s = "completed" => h.at = "sent",
             message' = [message EXCEPT ![h.id].status = s],
             delivery' = Settled(h.id, s)
      PROVE  /\ message' \in [Message -> Row \cup {None}]
             /\ delivery' \in [Slot -> Delivery \cup {None}]
             /\ \A m \in Message :
                    \/ message'[m] = message[m]
                    \/ /\ m = h.id /\ message[m] # None /\ message'[m] # None
                       /\ message'[m].attempts = message[m].attempts
                       /\ message'[m].status # "processing"
                       /\ message'[m].status # "pending" =>
                            \A x \in Slot : delivery'[x] # None /\ delivery'[x].message = m
                                                => delivery'[x].status # "pending"
             /\ \A x \in Slot : delivery'[x] # None =>
                    /\ delivery[x] # None
                    /\ delivery'[x].message = delivery[x].message
                    /\ delivery'[x].status = "pending" => delivery[x].status = "pending"
                    /\ delivery'[x].status = "completed" =>
                           \/ delivery[x].status = "completed"
                           \/ /\ Holds(h) /\ h.at = "sent" /\ delivery[x].message = h.id
                              /\ delivery[x].status = "pending"
             /\ \A m \in Message : message'[m] = message[m] => Kept(m)
  <2>1. message[h.id] # None /\ message[h.id].status = "processing"
    BY <1>1, <1>4, HeldRow DEF MessageHandler
  <2>2. /\ message' \in [Message -> Row \cup {None}]
        /\ message'[h.id] # None /\ message'[h.id].status = s
        /\ message'[h.id].attempts = message[h.id].attempts
        /\ \A n \in Message : n # h.id => message'[n] = message[n]
    BY <1>1, <1>4, <2>1, EndOfMessage
  <2>3. /\ delivery' \in [Slot -> Delivery \cup {None}]
        /\ \A x \in Slot : delivery'[x] # None =>
                  /\ delivery[x] # None
                  /\ delivery'[x].message = delivery[x].message
                  /\ delivery'[x].status = "pending" =>
                         delivery'[x].message # h.id /\ delivery[x].status = "pending"
                  /\ delivery'[x].status = "completed" =>
                         \/ delivery[x].status = "completed"
                         \/ /\ s = "completed" /\ delivery[x].message = h.id
                            /\ delivery[x].status = "pending"
        /\ \A m : m # h.id => Kept(m)
    BY <1>4, SettledFacts
  <2>4. \A m \in Message : message'[m] = message[m] => Kept(m)
    BY <2>1, <2>2, <2>3
  <2>5. \A m \in Message :
            \/ message'[m] = message[m]
            \/ /\ m = h.id /\ message[m] # None /\ message'[m] # None
               /\ message'[m].attempts = message[m].attempts
               /\ message'[m].status # "processing"
               /\ message'[m].status # "pending" =>
                    \A x \in Slot : delivery'[x] # None /\ delivery'[x].message = m
                                        => delivery'[x].status # "pending"
    BY <2>1, <2>2, <2>3
  <2>6. QED
    BY <1>4, <2>2, <2>3, <2>4, <2>5
<1>5. QED
  BY <1>0, <1>2, <1>3, <1>4, MessageSteps

\* A claim makes a handler of the next attempt, or ends a message.
LEMMA ClaimFacts ==
    ASSUME TypeOK, NEW m \in Message, ClaimMessage(m)
    PROVE  /\ message' \in [Message -> Row \cup {None}]
           /\ delivery' \in [Slot -> Delivery \cup {None}]
           /\ message[m] # None /\ message'[m] # None
           /\ \A n \in Message : n # m => message'[n] = message[n]
           /\ \/ /\ message'[m].status = "processing"
                 /\ message'[m].attempts = message[m].attempts + 1
                 /\ work' = work \cup {Handler("message", m, message[m].attempts + 1)}
                 /\ Handler("message", m, message[m].attempts + 1) \in MessageHandler
                 /\ UNCHANGED delivery
              \/ /\ message'[m].status = "failed"
                 /\ message'[m].attempts = message[m].attempts
                 /\ delivery' = Settled(m, "failed")
                 /\ UNCHANGED work
           /\ UNCHANGED <<event, mail, recipient>>
<1>1. message[m] \in Row /\ message[m] # None /\ message[m].attempts \in 0..MaxAttempts
  BY Numbers DEF ClaimMessage, Active, TypeOK, Row
<1>2. CASE message[m].attempts < MaxAttempts
  <2>1. /\ message' = [message EXCEPT ![m] =
                          [status |-> "processing", attempts |-> @.attempts + 1]]
        /\ work' = work \cup {Handler("message", m, message[m].attempts + 1)}
        /\ UNCHANGED <<delivery, event, mail, recipient>>
    BY <1>2 DEF ClaimMessage
  <2>2. message[m].attempts + 1 \in 1..MaxAttempts
    BY <1>1, <1>2, Numbers
  <2>3. Handler("message", m, message[m].attempts + 1) \in MessageHandler
    BY <2>2, NothingFacts DEF Handler, MessageHandler
  <2>4. message'[m] = [status |-> "processing", attempts |-> message[m].attempts + 1]
    BY <2>1 DEF TypeOK
  <2>5. message'[m] \in Row
    BY <2>2, <2>4, Numbers DEF Row
  <2>6. /\ \A n \in Message : n # m => message'[n] = message[n]
        /\ message' \in [Message -> Row \cup {None}]
    BY <2>1, <2>4, <2>5 DEF TypeOK
  <2>7. QED
    BY <1>1, <2>1, <2>3, <2>4, <2>5, <2>6, Numbers DEF TypeOK
<1>3. CASE ~(message[m].attempts < MaxAttempts)
  <2>1. /\ message' = [message EXCEPT ![m].status = "failed"]
        /\ delivery' = Settled(m, "failed")
        /\ UNCHANGED <<work, event, mail, recipient>>
    BY <1>3 DEF ClaimMessage
  <2>2. QED
    BY <1>1, <2>1, EndOfMessage, SettledFacts
<1>4. QED
  BY <1>2, <1>3

-----------------------------------------------------------------------------
(* What the two queries find. *)

\* The pending deliveries are finitely many, and the mail names all of them, or
\* as many as the limit allows.
LEMMA QueryFacts ==
    ASSUME NEW m
    PROVE  /\ Pending(m) \subseteq Application /\ IsFiniteSet(Pending(m))
           /\ Cardinality(Pending(m)) \in Nat
           /\ Earliest[Pending(m)] \subseteq Pending(m)
           /\ \/ Earliest[Pending(m)] = Pending(m)
              \/ /\ Cardinality(Pending(m)) > DetailLimit
                 /\ Cardinality(Earliest[Pending(m)]) = DetailLimit
<1> DEFINE S == Pending(m)
<1>1. S \subseteq Application
  BY DEF Pending
<1>2. IsFiniteSet(S)
  BY <1>1, FS_Subset, NotificationAssumption
<1>3. Cardinality(S) \in Nat /\ DetailLimit \in Nat
  BY <1>2, FS_CardinalityType, Numbers
<1>4. /\ Earliest[S] \subseteq S
      /\ Cardinality(Earliest[S]) = IF Cardinality(S) <= DetailLimit
                                    THEN Cardinality(S) ELSE DetailLimit
  BY <1>1, NotificationAssumption
<1>5. Cardinality(Earliest[S]) = Cardinality(S) => Earliest[S] = S
  BY <1>2, <1>4, FS_Subset
<1> HIDE DEF S
<1>6. \/ Earliest[S] = S
      \/ Cardinality(S) > DetailLimit /\ Cardinality(Earliest[S]) = DetailLimit
  BY <1>3, <1>4, <1>5
<1>7. QED
  BY <1>1, <1>2, <1>3, <1>4, <1>6 DEF S

\* The contents that a reading handler comes to, and what they are made of.
LEMMA ReadingFacts ==
    ASSUME TypeOK, NEW h \in MessageHandler
    PROVE  LET c == [Nothing EXCEPT !.total = Cardinality(Pending(h.id))]
               l == [Nothing EXCEPT !.named = Earliest[Pending(h.id)]]
           IN  /\ c \in Content /\ c.total = Cardinality(Pending(h.id))
               /\ l \in Content /\ l.named = Earliest[Pending(h.id)]
               /\ Reading(h) \in Content
               /\ h.at = "counted" => /\ Reading(h).named = Earliest[Pending(h.id)]
                                      /\ Reading(h).total = h.content.total
               /\ h.at = "listed" => /\ Reading(h).total = Cardinality(Pending(h.id))
                                     /\ Reading(h).named = h.content.named
<1>1. /\ Earliest[Pending(h.id)] \subseteq Application
      /\ Cardinality(Pending(h.id)) \in Nat
  BY QueryFacts
<1>2. h.content \in Content
  BY DEF MessageHandler
<1>3. QED
  BY <1>1, <1>2, NothingFacts DEF Reading, Content

\* What a handler goes on to as its message is left alone.
LEMMA ReaderSteps ==
    ASSUME TypeOK, NEW h \in work, Inspect(h) \/ ReadRest(h)
    PROVE  /\ h \in MessageHandler
           /\ \/ work' \subseteq work
              \/ /\ UNCHANGED <<event, message, delivery>>
                 /\ \/ /\ h.at = "claimed"
                       /\ work' = (work \ {h}) \cup
                              {[h EXCEPT !.at = "counted", !.content =
                                [Nothing EXCEPT !.total = Cardinality(Pending(h.id))]]}
                    \/ /\ h.at = "claimed"
                       /\ work' = (work \ {h}) \cup
                              {[h EXCEPT !.at = "listed", !.content =
                                [Nothing EXCEPT !.named = Earliest[Pending(h.id)]]]}
                    \/ /\ h.at \in {"counted", "listed"} /\ Reading(h).named # {}
                       /\ work' = (work \ {h}) \cup
                              {[h EXCEPT !.at = "read", !.content = Reading(h)]}
<1>1. h \in MessageHandler
  BY HandlerTypes DEF Inspect, ReadRest
<1>2. CASE Inspect(h)
  BY <1>1, <1>2 DEF Inspect, Cancel, Leaves, Becomes
<1>3. CASE ReadRest(h)
  BY <1>1, <1>3 DEF ReadRest, Cancel, Leaves, Becomes
<1>4. QED
  BY <1>2, <1>3

-----------------------------------------------------------------------------
\* Events, messages, deliveries and handlers are well formed.
THEOREM NotificationTypeCorrect == Spec => []TypeOK
<1> USE Numbers, WaitingRow
<1>1. Init => TypeOK
  BY NothingFacts DEF Init, TypeOK
<1>2. TypeOK /\ [Next]_vars => TypeOK'
  <2> SUFFICES ASSUME TypeOK, [Next]_vars PROVE TypeOK'
    OBVIOUS
  <2>1. ASSUME NEW a \in Application, ClaimEvent(a) PROVE TypeOK'
    <3>1. event[a] \in Row /\ event[a].attempts \in 0..MaxAttempts
      BY <2>1 DEF ClaimEvent, Active, TypeOK, Row
    <3>2. CASE event[a].attempts < MaxAttempts
      <4>1. event[a].attempts + 1 \in 1..MaxAttempts
        BY <3>1, <3>2
      <4>2. /\ Handler("event", a, event[a].attempts + 1) \in EventHandler
            /\ [status |-> "processing", attempts |-> event[a].attempts + 1] \in Row
        BY <4>1 DEF Handler, EventHandler, Row
      <4>3. QED
        BY <2>1, <3>2, <4>2 DEF ClaimEvent, TypeOK
    <3>3. CASE ~(event[a].attempts < MaxAttempts)
      <4>1. [event[a] EXCEPT !.status = "failed"] \in Row
        BY <3>1 DEF Row
      <4>2. QED
        BY <2>1, <3>3, <4>1 DEF ClaimEvent, TypeOK
    <3>4. QED
      BY <3>2, <3>3
  <2>2. ASSUME NEW a \in Application, Remove(a) PROVE TypeOK'
    BY <2>2 DEF Remove, TypeOK
  <2>3. ASSUME NEW m \in Message, ClaimMessage(m) PROVE TypeOK'
    BY <2>3, ClaimFacts DEF TypeOK
  <2>4. ASSUME NEW h \in work, HandlerStep(h) PROVE TypeOK'
    <3>1. CASE FanOut(h)
      BY <3>1, FanOutFacts DEF TypeOK
    <3>2. CASE FanOutFails(h)
      <4>1. h \in EventHandler /\ h.id \in Application
        BY <3>2, HandlerTypes DEF FanOutFails, EventHandler
      <4>2. Holds(h) => AfterFailure(event[h.id]) \in Row
        BY <4>1, HeldRow, FailedRow DEF EventHandler
      <4>3. QED
        BY <3>2, <4>1, <4>2 DEF FanOutFails, Leaves, TypeOK
    <3>3. CASE Inspect(h) \/ ReadRest(h)
      <4>1. h \in MessageHandler
        BY <3>3, MessageSteps
      <4> DEFINE c == [Nothing EXCEPT !.total = Cardinality(Pending(h.id))]
                 l == [Nothing EXCEPT !.named = Earliest[Pending(h.id)]]
                 gc == [h EXCEPT !.at = "counted", !.content = c]
                 gl == [h EXCEPT !.at = "listed", !.content = l]
                 gr == [h EXCEPT !.at = "read", !.content = Reading(h)]
      <4>2. c \in Content /\ l \in Content /\ Reading(h) \in Content
        BY <4>1, ReadingFacts
      <4>3. work' \subseteq EventHandler \cup MessageHandler
        <5>1. \/ work' \subseteq work
              \/ work' = (work \ {h}) \cup {gc}
              \/ work' = (work \ {h}) \cup {gl}
              \/ work' = (work \ {h}) \cup {gr}
          BY <3>3, ReaderSteps
        <5> HIDE DEF c, l
        <5>2. gc \in MessageHandler /\ gl \in MessageHandler /\ gr \in MessageHandler
          BY <4>1, <4>2 DEF MessageHandler
        <5> HIDE DEF gc, gl, gr
        <5>3. QED
          BY <5>1, <5>2 DEF TypeOK
      <4>4. QED
        BY <3>3, <4>3, MessageFacts, MessageSteps DEF TypeOK
    <3>4. CASE Send(h) \/ SendFails(h)
      <4>1. h \in MessageHandler /\ h.content \in Content
        BY <3>4, HandlerTypes DEF Send, SendFails, Accepts, MessageHandler
      <4>2. /\ [h EXCEPT !.at = "sent", !.content = h.content] \in MessageHandler
            /\ [h EXCEPT !.at = "failing", !.content = Nothing] \in MessageHandler
        BY <4>1, NothingFacts DEF MessageHandler
      <4>3. work' \subseteq EventHandler \cup MessageHandler
        BY <3>4, <4>2 DEF Send, SendFails, Becomes, TypeOK
      <4>4. mail' \in [Message -> Content]
        BY <3>4, <4>1 DEF Send, SendFails, Accepts, TypeOK
      <4>5. QED
        BY <3>4, <4>3, <4>4 DEF Send, SendFails, TypeOK
    <3>5. CASE Record(h) \/ Retry(h)
      <4>1. work' \subseteq work
        BY <3>5 DEF Record, Retry, Leaves
      <4>2. QED
        BY <3>5, <4>1, MessageFacts, MessageSteps DEF TypeOK
    <3>6. CASE Drop(h)
      BY <3>6 DEF Drop, Leaves, TypeOK
    <3>7. QED
      BY <2>4, <3>1, <3>2, <3>3, <3>4, <3>5, <3>6 DEF HandlerStep
  <2>5. ASSUME NEW k \in Digest, SwitchOff(k) PROVE TypeOK'
    BY <2>5, SwitchOffFacts DEF SwitchOff, TypeOK
  <2>6. ASSUME NEW k \in Digest, SwitchOn(k) \/ Leave(k) PROVE TypeOK'
    BY <2>6 DEF SwitchOn, Leave, TypeOK
  <2>7. CASE UNCHANGED vars
    BY <2>7 DEF vars, TypeOK
  <2>8. QED
    BY <2>1, <2>2, <2>3, <2>4, <2>5, <2>6, <2>7 DEF Next
<1>3. QED
  BY <1>1, <1>2, PTL DEF Spec

-----------------------------------------------------------------------------
\* Whichever way a message ends, no delivery is left waiting in it.
THEOREM PendingCorrect == Spec => []PendingHasMessage
<1> USE Numbers, WaitingRow
<1>1. Init => PendingHasMessage
  BY DEF Init, PendingHasMessage
<1>2. TypeOK /\ PendingHasMessage /\ [Next]_vars => PendingHasMessage'
  <2> SUFFICES ASSUME TypeOK, PendingHasMessage, [Next]_vars,
                      NEW x \in Slot, delivery'[x] # None, delivery'[x].status = "pending"
               PROVE  Active(message'[delivery'[x].message])
    BY DEF PendingHasMessage, Active
  <2>a. delivery[x] # None => delivery[x].message \in Message
    BY DEF TypeOK, Delivery
  <2>b. delivery'[x] = delivery[x] => Active(message[delivery'[x].message])
    BY DEF PendingHasMessage
  <2>c. delivery[x] # None /\ delivery[x].status = "pending"
            => Active(message[delivery[x].message])
    BY DEF PendingHasMessage
  <2>1. ASSUME NEW a \in Application, ClaimEvent(a)
        PROVE  Active(message'[delivery'[x].message])
    BY <2>1, <2>b DEF ClaimEvent
  <2>2. ASSUME NEW a \in Application, Remove(a)
        PROVE  Active(message'[delivery'[x].message])
    BY <2>2, <2>b DEF Remove
  <2>3. ASSUME NEW m \in Message, ClaimMessage(m)
        PROVE  Active(message'[delivery'[x].message])
    <3>1. /\ message'[m] # None
          /\ \A n \in Message : n # m => message'[n] = message[n]
      BY <2>3, ClaimFacts
    <3>2. CASE message'[m].status = "processing" /\ UNCHANGED delivery
      BY <2>a, <2>b, <3>1, <3>2 DEF Active
    <3>3. CASE delivery' = Settled(m, "failed")
      BY <2>a, <2>c, <3>1, <3>3, SettledFacts
    <3>4. QED
      BY <2>3, <3>2, <3>3, ClaimFacts
  <2>4. ASSUME NEW h \in work, HandlerStep(h)
        PROVE  Active(message'[delivery'[x].message])
    <3>1. CASE FanOut(h)
      <4>1. CASE delivery'[x] = delivery[x]
        <5>1. delivery[x].message \in Message /\ Active(message[delivery[x].message])
          BY <2>a, <2>b, <4>1
        <5>2. QED
          BY <3>1, <4>1, <5>1, FanOutFacts DEF Active
      <4>2. CASE /\ message'[delivery'[x].message] # None
                 /\ message'[delivery'[x].message].status = "pending"
        BY <4>2 DEF Active
      <4>3. QED
        BY <3>1, <4>1, <4>2, FanOutFacts
    <3>2. CASE FanOutFails(h)
      BY <2>b, <3>2 DEF FanOutFails
    <3>3. CASE Send(h) \/ SendFails(h)
      BY <2>b, <3>3 DEF Send, SendFails
    <3>4. CASE Inspect(h) \/ ReadRest(h) \/ Record(h) \/ Retry(h)
      <4>1. /\ delivery[x] # None /\ delivery[x].status = "pending"
            /\ delivery'[x].message = delivery[x].message
        BY <3>4, MessageFacts
      <4>2. Active(message[delivery[x].message]) /\ delivery[x].message \in Message
        BY <2>a, <2>c, <4>1
      <4>3. QED
        BY <3>4, <4>1, <4>2, MessageFacts DEF Active
    <3>5. CASE Drop(h)
      BY <2>b, <3>5 DEF Drop
    <3>6. QED
      BY <2>4, <3>1, <3>2, <3>3, <3>4, <3>5 DEF HandlerStep
  <2>5. ASSUME NEW k \in Digest, SwitchOff(k)
        PROVE  Active(message'[delivery'[x].message])
    BY <2>5, <2>a, <2>b, SwitchOffFacts
  <2>6. ASSUME NEW k \in Digest, SwitchOn(k) \/ Leave(k)
        PROVE  Active(message'[delivery'[x].message])
    BY <2>6, <2>b DEF SwitchOn, Leave
  <2>7. CASE UNCHANGED vars
    BY <2>7, <2>b DEF vars
  <2>8. QED
    BY <2>1, <2>2, <2>3, <2>4, <2>5, <2>6, <2>7 DEF Next
<1>3. QED
  BY <1>1, <1>2, NotificationTypeCorrect, PTL DEF Spec

-----------------------------------------------------------------------------
(* Fences and readings. *)

LEMMA FencedKept ==
    ASSUME TypeOK, Fenced,
           \A m \in Message : message[m] # None =>
               /\ message'[m] # None
               /\ message'[m].attempts \in {message[m].attempts, message[m].attempts + 1},
           \A k \in work' : k.kind = "message" =>
               \/ \E h \in work : h.kind = "message" /\ h.id = k.id /\ h.attempt = k.attempt
               \/ message'[k.id] # None /\ k.attempt = message'[k.id].attempts
                  /\ k.attempt \in Nat
    PROVE  Fenced'
<1> SUFFICES ASSUME NEW k \in work', k.kind = "message"
             PROVE  message'[k.id] # None /\ k.attempt <= message'[k.id].attempts
  BY DEF Fenced
<1>1. ASSUME NEW h \in work, h.kind = "message", h.id = k.id, h.attempt = k.attempt
      PROVE  message'[k.id] # None /\ k.attempt <= message'[k.id].attempts
  <2>1. h.id \in Message /\ h.attempt \in Nat /\ message[h.id] # None
        /\ h.attempt <= message[h.id].attempts /\ message[h.id].attempts \in Nat
    BY <1>1, HandlerTypes, Numbers DEF Fenced, MessageHandler, TypeOK, Row
  <2>2. QED
    BY <1>1, <2>1
<1>2. QED
  BY <1>1

\* Deliveries that stay as they are, but for applications that go, wait as they
\* did.
LEMMA PendingKept ==
    ASSUME NEW m, Kept(m)
    PROVE  /\ Pending(m)' \subseteq Pending(m)
           /\ \A a \in Pending(m) : a \in Pending(m)' \/ event'[a] = None
<1>1. \A a \in Application, k \in Digest : <<a, k>> \in Slot /\ <<a, k>>[1] = a
  BY DEF Slot
<1>2. Pending(m)' \subseteq Pending(m)
  BY <1>1, Numbers DEF Pending, Kept
<1>3. \A a \in Pending(m) : a \in Pending(m)' \/ event'[a] = None
  BY <1>1 DEF Pending, Kept
<1>4. QED
  BY <1>2, <1>3

LEMMA FoundKept ==
    ASSUME NEW k \in MessageHandler, Found(k), Kept(k.id), GoneStay
    PROVE  Found(k)'
<1>1. /\ Pending(k.id)' \subseteq Pending(k.id)
      /\ \A a \in Pending(k.id) : a \in Pending(k.id)' \/ event'[a] = None
  BY PendingKept
<1>2. k.content.named \subseteq Application /\ k.content.total \in Nat
  BY DEF MessageHandler, Content
<1>3. /\ Cardinality(Pending(k.id)') \in Nat /\ Cardinality(Pending(k.id)) \in Nat
      /\ Cardinality(Pending(k.id)') <= Cardinality(Pending(k.id))
  <2>1. IsFiniteSet(Pending(k.id)) /\ Cardinality(Pending(k.id)) \in Nat
    BY QueryFacts
  <2>2. IsFiniteSet(Pending(k.id)')
        /\ Cardinality(Pending(k.id)') <= Cardinality(Pending(k.id))
    BY <1>1, <2>1, FS_Subset
  <2>3. QED
    BY <2>1, <2>2, FS_CardinalityType
<1>4. CASE k.at = "counted"
  BY <1>2, <1>3, <1>4 DEF Found
<1>5. CASE k.at = "listed"
  BY <1>1, <1>2, <1>5 DEF Found, GoneStay
<1>6. CASE k.at \in {"read", "sent"}
  <2>1. NamesOneGone(k.content) => NamesOneGone(k.content)'
    BY <1>2 DEF NamesOneGone, GoneStay
  <2>2. QED
    BY <1>1, <1>6, <2>1 DEF Found
<1>7. QED
  BY <1>4, <1>5, <1>6 DEF Found

LEMMA ReadingsKept ==
    ASSUME TypeOK, Fenced, Readings, GoneStay,
           \A k \in work' : \/ k \in work
                            \/ k.kind = "message" => (Holds(k)' => Found(k)'),
           \A m \in Message :
               \/ message'[m] = message[m]
               \/ message[m] = None
               \/ message'[m].status # "processing"
               \/ message'[m].attempts = message[m].attempts + 1,
           \A m \in Message :
               message'[m] = message[m] /\ message[m] # None
                   /\ message[m].status = "processing" => Kept(m)
    PROVE  Readings'
<1> SUFFICES ASSUME NEW k \in work, k.kind = "message", Holds(k)'
             PROVE  Found(k)'
  BY DEF Readings
<1>1. k \in MessageHandler /\ k.id \in Message /\ k.attempt \in Nat
  BY HandlerTypes, Numbers DEF MessageHandler
<1>2. message[k.id] # None /\ k.attempt <= message[k.id].attempts
      /\ message[k.id].attempts \in Nat
  BY <1>1, Numbers DEF Fenced, TypeOK, Row
<1>3. message'[k.id] = [status |-> "processing", attempts |-> k.attempt]
  BY DEF Holds
<1>4. message'[k.id].status = "processing" /\ message'[k.id].attempts = k.attempt
  BY <1>3
<1>5. message'[k.id].attempts # message[k.id].attempts + 1
  BY <1>1, <1>2, <1>4
<1>6. message'[k.id] = message[k.id]
  BY <1>1, <1>2, <1>4, <1>5
<1>7. Holds(k) /\ message[k.id].status = "processing"
  BY <1>3, <1>6 DEF Holds
<1>8. Found(k)
  BY <1>7 DEF Readings
<1>9. QED
  BY <1>1, <1>2, <1>6, <1>7, <1>8, FoundKept

\* Steps of other rows leave messages and their handlers as they were.
LEMMA OtherSteps ==
    ASSUME TypeOK, Fenced, Readings, GoneStay, UNCHANGED message,
           \A x \in Slot : \/ delivery'[x] = delivery[x]
                           \/ delivery'[x] = None /\ event'[x[1]] = None,
           \A k \in work' : k \in work \/ k.kind = "event"
                            \/ (k.at \in {"claimed", "failing"}
                                  /\ \E h \in work : h.kind = k.kind /\ h.id = k.id
                                                     /\ h.attempt = k.attempt)
    PROVE  Fenced' /\ Readings'
<1>1. \A m : Kept(m)
  BY DEF Kept
<1>2. Fenced'
  BY FencedKept
<1>3. \A k : k.at \in {"claimed", "failing"} => Found(k)'
  BY DEF Found
<1>4. Readings'
  BY <1>1, <1>3, ReadingsKept
<1>5. QED
  BY <1>2, <1>4

\* What a handler finds, and sends, is what waits.
LEMMA FindsAll ==
    ASSUME TypeOK, NEW h \in work, HandlerStep(h), UNCHANGED <<event, delivery>>,
           NEW g \in MessageHandler, g.id = h.id, h \in MessageHandler,
           \/ /\ h.at = "claimed" /\ g.at = "counted"
              /\ g.content.total = Cardinality(Pending(h.id))
           \/ /\ h.at = "claimed" /\ g.at = "listed"
              /\ g.content.named = Earliest[Pending(h.id)]
           \/ /\ h.at \in {"counted", "listed"} /\ g.at = "read" /\ Found(h)
              /\ g.content = Reading(h)
           \/ h.at = "read" /\ g.at = "sent" /\ Found(h) /\ g.content = h.content
           \/ g.at = "failing"
    PROVE  Found(g)'
<1> DEFINE S == Pending(h.id)
           E == Earliest[S]
<1>1. Pending(g.id)' = S
  BY DEF Pending
<1>2. /\ S \subseteq Application /\ IsFiniteSet(S) /\ Cardinality(S) \in Nat
      /\ E \subseteq S
      /\ \/ E = S
         \/ Cardinality(S) > DetailLimit /\ Cardinality(E) = DetailLimit
  BY QueryFacts
<1>3. h.content.total \in Nat /\ h.content.named \subseteq Application /\ DetailLimit \in Nat
  BY Numbers DEF MessageHandler, Content
<1>4. CASE g.at = "counted" /\ g.content.total = Cardinality(S)
  BY <1>1, <1>2, <1>4 DEF Found
<1>5. CASE g.at = "listed" /\ g.content.named = E
  BY <1>1, <1>2, <1>5 DEF Found
<1>6. CASE /\ h.at = "counted" /\ g.at = "read" /\ Found(h) /\ g.content = Reading(h)
  <2>1. g.content.named = E /\ g.content.total = h.content.total
    BY <1>6, ReadingFacts
  <2>2. Cardinality(S) <= g.content.total
    BY <1>6, <2>1 DEF Found
  <2>3. E = S \/ g.content.total > DetailLimit
    BY <1>2, <1>3, <2>1, <2>2
  <2>4. \A a \in S : Accounts(g.content, a)
    BY <2>1, <2>3 DEF Accounts
  <2> HIDE DEF S
  <2>5. QED
    BY <1>1, <1>6, <2>4 DEF Found
<1>7. CASE /\ h.at = "listed" /\ g.at = "read" /\ Found(h) /\ g.content = Reading(h)
  <2> DEFINE n == h.content.named
  <2>1. g.content.named = n /\ g.content.total = Cardinality(S)
    BY <1>7, ReadingFacts
  <2>2. /\ \A a \in n : a \in S \/ event[a] = None
        /\ S \subseteq n \/ Cardinality(n) = DetailLimit
    BY <1>7 DEF Found
  <2>3. CASE \E a \in n : event[a] = None
    BY <1>7, <2>1, <2>3 DEF Found, NamesOneGone
  <2>4. CASE S \subseteq n
    BY <1>1, <1>7, <2>1, <2>4 DEF Found, Accounts
  <2>5. CASE n \subseteq S /\ n # S /\ Cardinality(n) = DetailLimit
    <3>1. Cardinality(n) <= Cardinality(S) /\ Cardinality(n) # Cardinality(S)
      BY <1>2, <2>5, FS_Subset
    <3>2. g.content.total > DetailLimit
      BY <1>2, <1>3, <2>1, <2>5, <3>1
    <3>3. QED
      BY <1>1, <1>7, <3>2 DEF Found, Accounts
  <2>6. QED
    BY <2>2, <2>3, <2>4, <2>5
<1>8. CASE h.at = "read" /\ g.at = "sent" /\ Found(h) /\ g.content = h.content
  BY <1>1, <1>8 DEF Found, NamesOneGone
<1>9. CASE g.at = "failing"
  BY <1>9 DEF Found
<1>10. QED
  BY <1>4, <1>5, <1>6, <1>7, <1>8, <1>9

LEMMA ReadingsStep ==
    TypeOK /\ Fenced /\ Readings /\ [Next]_vars => Fenced' /\ Readings'
<1> USE Numbers, WaitingRow
<1> SUFFICES ASSUME TypeOK, Fenced, Readings, [Next]_vars
             PROVE  Fenced' /\ Readings'
  OBVIOUS
<1>1. ASSUME NEW a \in Application, ClaimEvent(a)
      PROVE  Fenced' /\ Readings'
  <2>1. \A k \in work' : k \in work \/ k.kind = "event"
    BY <1>1 DEF ClaimEvent, Handler
  <2>2. event[a] # None
    BY <1>1 DEF ClaimEvent, Active
  <2>3. GoneStay
    BY <1>1, <2>2 DEF ClaimEvent, GoneStay, TypeOK
  <2>4. UNCHANGED <<message, delivery>>
    BY <1>1 DEF ClaimEvent
  <2>5. QED
    BY <2>1, <2>3, <2>4, OtherSteps
<1>2. ASSUME NEW a \in Application, Remove(a)
      PROVE  Fenced' /\ Readings'
  <2>1. GoneStay /\ event'[a] = None
    BY <1>2 DEF Remove, GoneStay, TypeOK
  <2>2. \A x \in Slot : \/ delivery'[x] = delivery[x]
                        \/ delivery'[x] = None /\ event'[x[1]] = None
    BY <1>2, <2>1 DEF Remove
  <2>3. QED
    BY <1>2, <2>1, <2>2, OtherSteps DEF Remove
<1>3. ASSUME NEW m \in Message, ClaimMessage(m)
      PROVE  Fenced' /\ Readings'
  <2>g. PICK g : g = Handler("message", m, message[m].attempts + 1)
    OBVIOUS
  <2>1. /\ message[m] # None /\ message'[m] # None
        /\ \A n \in Message : n # m => message'[n] = message[n]
        /\ message[m].attempts \in Nat
        /\ GoneStay
    BY <1>3, ClaimFacts DEF TypeOK, Row, GoneStay
  <2>2. g.kind = "message" /\ g.id = m /\ g.at = "claimed"
        /\ g.attempt = message[m].attempts + 1
    BY <2>g DEF Handler
  <2>a. Found(g)'
    BY <2>2 DEF Found
  <2>3. CASE /\ message'[m].status = "processing"
             /\ message'[m].attempts = message[m].attempts + 1
             /\ work' = work \cup {g}
             /\ UNCHANGED delivery
    <3>1. Fenced'
      BY <2>1, <2>2, <2>3, FencedKept
    <3>2. \A n : Kept(n)
      BY <2>3 DEF Kept
    <3>3. Readings'
      BY <2>1, <2>a, <2>3, <3>2, ReadingsKept
    <3>4. QED
      BY <3>1, <3>3
  <2>4. CASE /\ message'[m].status = "failed"
             /\ message'[m].attempts = message[m].attempts
             /\ delivery' = Settled(m, "failed")
             /\ UNCHANGED work
    <3>1. Fenced'
      BY <2>1, <2>4, FencedKept
    <3>2. \A n : n # m => Kept(n)
      BY <2>4, SettledFacts
    <3>3. message'[m] = message[m] => message[m].status # "processing"
      BY <2>4
    <3>4. Readings'
      BY <2>1, <2>4, <3>2, <3>3, ReadingsKept
    <3>5. QED
      BY <3>1, <3>4
  <2>5. QED
    BY <1>3, <2>g, <2>3, <2>4, ClaimFacts
<1>4. ASSUME NEW h \in work, HandlerStep(h)
      PROVE  Fenced' /\ Readings'
  <2>1. CASE FanOut(h)
    <3>1. work' \subseteq work /\ GoneStay
      BY <2>1, FanOutFacts
    <3>2. Fenced'
      BY <2>1, <3>1, FanOutFacts, FencedKept
    <3>3. ASSUME NEW m \in Message, message'[m] = message[m], message[m] # None,
                 message[m].status = "processing"
          PROVE  Kept(m)
      BY <2>1, <3>3, FanOutFacts DEF Kept
    <3>4. Readings'
      BY <2>1, <3>1, <3>3, FanOutFacts, ReadingsKept DEF Waiting
    <3>5. QED
      BY <3>2, <3>4
  <2>2. CASE FanOutFails(h)
    <3>1. h.kind = "event" /\ h.id \in Application
      BY <2>2, HandlerTypes DEF FanOutFails, EventHandler
    <3>2. Holds(h) => event[h.id] # None
      BY <3>1, HeldRow
    <3>3. GoneStay
      BY <2>2, <3>1, <3>2 DEF FanOutFails, GoneStay, TypeOK
    <3>4. QED
      BY <2>2, <3>3, OtherSteps DEF FanOutFails, Leaves
  <2>3. CASE Record(h) \/ Retry(h) \/ Inspect(h) \/ ReadRest(h)
    <3>1. h \in MessageHandler /\ h.id \in Message /\ h.kind = "message"
      BY <2>3, MessageSteps DEF MessageHandler
    <3> DEFINE Goes(g) ==
            /\ UNCHANGED <<event, message, delivery>>
            /\ g \in MessageHandler /\ g.kind = "message"
            /\ g.id = h.id /\ g.attempt = h.attempt
            /\ \/ /\ h.at = "claimed" /\ g.at = "counted"
                  /\ g.content.total = Cardinality(Pending(h.id))
               \/ /\ h.at = "claimed" /\ g.at = "listed"
                  /\ g.content.named = Earliest[Pending(h.id)]
               \/ /\ h.at \in {"counted", "listed"} /\ g.at = "read"
                  /\ g.content = Reading(h)
    <3>2. \A k \in work' : k \in work \/ Goes(k)
      <4>1. CASE work' \subseteq work
        BY <4>1
      <4>2. CASE ~(work' \subseteq work)
        <5>1. Inspect(h) \/ ReadRest(h)
          BY <2>3, <4>2 DEF Record, Retry, Leaves
        <5>2. /\ UNCHANGED <<event, message, delivery>>
              /\ \/ /\ h.at = "claimed"
                    /\ work' = (work \ {h}) \cup
                           {[h EXCEPT !.at = "counted", !.content =
                             [Nothing EXCEPT !.total = Cardinality(Pending(h.id))]]}
                 \/ /\ h.at = "claimed"
                    /\ work' = (work \ {h}) \cup
                           {[h EXCEPT !.at = "listed", !.content =
                             [Nothing EXCEPT !.named = Earliest[Pending(h.id)]]]}
                 \/ /\ h.at \in {"counted", "listed"}
                    /\ work' = (work \ {h}) \cup
                           {[h EXCEPT !.at = "read", !.content = Reading(h)]}
          BY <4>2, <5>1, ReaderSteps
        <5> DEFINE c == [Nothing EXCEPT !.total = Cardinality(Pending(h.id))]
                   l == [Nothing EXCEPT !.named = Earliest[Pending(h.id)]]
                   gc == [h EXCEPT !.at = "counted", !.content = c]
                   gl == [h EXCEPT !.at = "listed", !.content = l]
                   gr == [h EXCEPT !.at = "read", !.content = Reading(h)]
        <5>3. /\ c \in Content /\ c.total = Cardinality(Pending(h.id))
              /\ l \in Content /\ l.named = Earliest[Pending(h.id)]
              /\ Reading(h) \in Content
          BY <3>1, ReadingFacts
        <5> HIDE DEF c, l
        <5>4. /\ gc \in MessageHandler /\ gc.kind = "message" /\ gc.id = h.id
              /\ gc.attempt = h.attempt /\ gc.at = "counted" /\ gc.content = c
          BY <3>1, <5>3 DEF MessageHandler
        <5>5. /\ gl \in MessageHandler /\ gl.kind = "message" /\ gl.id = h.id
              /\ gl.attempt = h.attempt /\ gl.at = "listed" /\ gl.content = l
          BY <3>1, <5>3 DEF MessageHandler
        <5>6. /\ gr \in MessageHandler /\ gr.kind = "message" /\ gr.id = h.id
              /\ gr.attempt = h.attempt /\ gr.at = "read" /\ gr.content = Reading(h)
          BY <3>1, <5>3 DEF MessageHandler
        <5>7. \/ h.at = "claimed" /\ work' = (work \ {h}) \cup {gc}
              \/ h.at = "claimed" /\ work' = (work \ {h}) \cup {gl}
              \/ h.at \in {"counted", "listed"} /\ work' = (work \ {h}) \cup {gr}
          BY <5>2 DEF c, l
        <5> HIDE DEF gc, gl, gr
        <5>8. QED
          BY <5>2, <5>3, <5>4, <5>5, <5>6, <5>7
      <4>3. QED
        BY <4>1, <4>2
    <3>3. ASSUME NEW k \in work', k \notin work, Holds(k)'
          PROVE  Found(k)'
      <4>1. Goes(k)
        BY <3>2, <3>3
      <4>2. Holds(h)
        BY <3>1, <3>3, <4>1 DEF Holds
      <4>3. Found(h)
        BY <3>1, <4>2 DEF Readings
      <4>4. QED
        BY <1>4, <3>1, <4>1, <4>3, FindsAll
    <3>4. \A k \in work' : \/ k \in work
                           \/ k.kind = "message" /\ k.id = h.id /\ k.attempt = h.attempt
      BY <3>2
    <3> HIDE DEF Goes
    <3>5. Fenced'
      BY <2>3, <3>1, <3>4, MessageFacts, FencedKept
    <3>6. \A m \in Message : \/ message'[m] = message[m]
                             \/ message'[m].status # "processing"
      BY <2>3, MessageFacts
    <3>7. GoneStay /\ \A m \in Message : message'[m] = message[m] => Kept(m)
      BY <2>3, MessageFacts
    <3>8. Readings'
      BY <3>3, <3>6, <3>7, ReadingsKept
    <3>9. QED
      BY <3>5, <3>8
  <2>4. CASE Send(h) \/ SendFails(h)
    <3>1. h \in MessageHandler /\ h.kind = "message" /\ h.at = "read"
          /\ h.content \in Content
      BY <2>4, HandlerTypes DEF Send, SendFails, Accepts, MessageHandler
    <3> DEFINE g == [h EXCEPT !.at = "sent", !.content = h.content]
               f == [h EXCEPT !.at = "failing", !.content = Nothing]
    <3>2. /\ g \in MessageHandler /\ g.kind = "message" /\ g.id = h.id
          /\ g.attempt = h.attempt /\ g.at = "sent" /\ g.content = h.content
      BY <3>1 DEF MessageHandler
    <3>3. /\ f \in MessageHandler /\ f.kind = "message" /\ f.id = h.id
          /\ f.attempt = h.attempt /\ f.at = "failing"
      BY <3>1, NothingFacts DEF MessageHandler
    <3>4. /\ \A k \in work' : k \in work \/ k = g \/ k = f
          /\ UNCHANGED <<event, message, delivery>>
      BY <2>4 DEF Send, SendFails, Becomes
    <3> HIDE DEF g, f
    <3>5. Fenced'
      BY <3>1, <3>2, <3>3, <3>4, FencedKept
    <3>6. Holds(g)' => Found(g)'
      <4>1. Holds(g)' => Holds(h)
        BY <3>1, <3>2, <3>4 DEF Holds
      <4>2. Holds(h) => Found(h)
        BY <3>1 DEF Readings
      <4>3. QED
        BY <1>4, <3>1, <3>2, <3>4, <4>1, <4>2, FindsAll
    <3>7. Found(f)'
      BY <3>3 DEF Found
    <3>8. GoneStay /\ \A m : Kept(m)
      BY <3>4 DEF GoneStay, Kept
    <3>9. Readings'
      BY <3>4, <3>6, <3>7, <3>8, ReadingsKept
    <3>10. QED
      BY <3>5, <3>9
  <2>5. CASE Drop(h)
    BY <2>5, OtherSteps DEF Drop, Leaves, GoneStay
  <2>6. QED
    BY <1>4, <2>1, <2>2, <2>3, <2>4, <2>5 DEF HandlerStep
<1>5. ASSUME NEW k \in Digest, SwitchOff(k)
      PROVE  Fenced' /\ Readings'
  <2>1. UNCHANGED <<work, event>>
    BY <1>5 DEF SwitchOff
  <2>2. Fenced'
    BY <1>5, <2>1, SwitchOffFacts, FencedKept
  <2>3. \A m \in Message : message[m].status # "pending" => Kept(m)
    BY <1>5, SwitchOffFacts
  <2>4. GoneStay
    BY <2>1 DEF GoneStay
  <2>5. \A m \in Message : \/ message'[m] = message[m]
                           \/ message'[m].status # "processing"
    BY <1>5, SwitchOffFacts
  <2>6. Readings'
    BY <2>1, <2>3, <2>4, <2>5, ReadingsKept
  <2>7. QED
    BY <2>2, <2>6
<1>6. ASSUME NEW k \in Digest, SwitchOn(k) \/ Leave(k)
      PROVE  Fenced' /\ Readings'
  BY <1>6, OtherSteps DEF SwitchOn, Leave, GoneStay
<1>7. CASE UNCHANGED vars
  BY <1>7, OtherSteps DEF vars, GoneStay
<1>8. QED
  BY <1>1, <1>2, <1>3, <1>4, <1>5, <1>6, <1>7 DEF Next

\* What a handler that holds its message has read accounts for every delivery
\* that its write will settle, unless an application it names is gone.
THEOREM ReadingsCorrect == Spec => []ReadingsAreComplete
<1>1. Init => Fenced /\ Readings
  BY DEF Init, Fenced, Readings
<1>2. Readings => ReadingsAreComplete
  BY DEF Readings, Found, ReadingsAreComplete
<1>3. QED
  BY <1>1, <1>2, ReadingsStep, NotificationTypeCorrect, PTL DEF Spec

-----------------------------------------------------------------------------
LEMMA MailedKept ==
    ASSUME TypeOK, Mailed, GoneStay,
           \A m \in Message : \/ mail'[m] = mail[m]
                              \/ mail[m] = Nothing /\ mail'[m].named # {},
           \A x \in Slot : delivery'[x] # None /\ delivery'[x].status = "completed" =>
               \/ /\ delivery[x] # None /\ delivery[x].status = "completed"
                  /\ delivery'[x].message = delivery[x].message
               \/ LET c == mail'[delivery'[x].message]
                  IN  Accounts(c, x[1]) \/ \E a \in c.named : event'[a] = None,
           \A k \in work' : \/ k \in work
                            \/ k.kind = "message" /\ k.at \in {"read", "sent"} =>
                                   /\ k.content.named # {}
                                   /\ k.at = "sent" => k.content = mail'[k.id]
    PROVE  Mailed'
<1>1. CompletedWasMailed'
  <2> SUFFICES ASSUME NEW x \in Slot, delivery'[x] # None,
                      delivery'[x].status = "completed"
               PROVE  LET c == mail'[delivery'[x].message]
                      IN  Accounts(c, x[1]) \/ \E a \in c.named : event'[a] = None
    BY DEF CompletedWasMailed, NamesOneGone
  <2>1. CASE /\ delivery[x] # None /\ delivery[x].status = "completed"
             /\ delivery'[x].message = delivery[x].message
    <3>1. delivery[x].message \in Message
      BY <2>1 DEF TypeOK, Delivery
    <3>2. PICK c : c = mail[delivery[x].message]
      OBVIOUS
    <3>3. Accounts(c, x[1]) \/ NamesOneGone(c)
      BY <2>1, <3>2 DEF Mailed, CompletedWasMailed
    <3>4. mail'[delivery'[x].message] = c
      <4>1. c # Nothing
        BY <3>3, NothingFacts, Numbers DEF Accounts, NamesOneGone
      <4>2. QED
        BY <2>1, <3>1, <3>2, <4>1
    <3>5. c.named \subseteq Application
      BY <3>1, <3>2 DEF TypeOK, Content
    <3>6. NamesOneGone(c) => \E a \in c.named : event'[a] = None
      BY <3>5 DEF NamesOneGone, GoneStay
    <3>7. QED
      BY <3>3, <3>4, <3>6
  <2>2. QED
    BY <2>1
<1>2. \A k \in work : k.kind = "message" => k.id \in Message
  BY HandlerTypes DEF MessageHandler
<1>3. QED
  BY <1>1, <1>2, NothingFacts DEF Mailed

\* While the provider compares what is sent under a key, a delivery is recorded
\* as completed only if its application was named or counted in the mail the
\* recipient got, or that mail names one that was deleted while it was read.
THEOREM CompletedCorrect == ASSUME KeyIsCompared PROVE Spec => []CompletedWasMailed
<1> USE Numbers, WaitingRow
<1>1. Init => Mailed
  BY DEF Init, Mailed, CompletedWasMailed
<1>2. TypeOK /\ Readings /\ Mailed /\ [Next]_vars => Mailed'
  <2> SUFFICES ASSUME TypeOK, Readings, Mailed, [Next]_vars PROVE Mailed'
    OBVIOUS
  <2>1. ASSUME NEW a \in Application, ClaimEvent(a) PROVE Mailed'
    <3>1. \A k \in work' : k \in work \/ k.kind = "event"
      BY <2>1 DEF ClaimEvent, Handler
    <3>2. event[a] # None
      BY <2>1 DEF ClaimEvent, Active
    <3>3. GoneStay
      BY <2>1, <3>2 DEF ClaimEvent, GoneStay, TypeOK
    <3>4. UNCHANGED <<mail, delivery>>
      BY <2>1 DEF ClaimEvent
    <3>5. QED
      BY <3>1, <3>3, <3>4, MailedKept
  <2>2. ASSUME NEW a \in Application, Remove(a) PROVE Mailed'
    <3>1. GoneStay
      BY <2>2 DEF Remove, GoneStay, TypeOK
    <3>2. \A x \in Slot : delivery'[x] # None => delivery'[x] = delivery[x]
      BY <2>2 DEF Remove
    <3>3. UNCHANGED <<mail, work>>
      BY <2>2 DEF Remove
    <3>4. QED
      BY <3>1, <3>2, <3>3, MailedKept
  <2>3. ASSUME NEW m \in Message, ClaimMessage(m) PROVE Mailed'
    <3>1. \A k \in work' : k \in work \/ k.at = "claimed"
      <4>1. Handler("message", m, message[m].attempts + 1).at = "claimed"
        BY DEF Handler
      <4>2. QED
        BY <2>3, <4>1, ClaimFacts
    <3>2. ASSUME NEW x \in Slot, delivery'[x] # None, delivery'[x].status = "completed"
          PROVE  /\ delivery[x] # None /\ delivery[x].status = "completed"
                 /\ delivery'[x].message = delivery[x].message
      <4>1. CASE UNCHANGED delivery
        BY <3>2, <4>1
      <4>2. CASE delivery' = Settled(m, "failed")
        BY <3>2, <4>2, SettledFacts
      <4>3. QED
        BY <2>3, <4>1, <4>2, ClaimFacts
    <3>3. UNCHANGED mail /\ GoneStay
      BY <2>3, ClaimFacts DEF GoneStay
    <3>4. QED
      BY <3>1, <3>2, <3>3, MailedKept
  <2>4. ASSUME NEW h \in work, HandlerStep(h) PROVE Mailed'
    <3>1. CASE FanOut(h)
      <4>1. \A x \in Slot : delivery'[x] # None /\ delivery'[x].status = "completed"
                => delivery'[x] = delivery[x]
        BY <3>1, FanOutFacts
      <4>2. work' \subseteq work /\ UNCHANGED mail /\ GoneStay
        BY <3>1, FanOutFacts
      <4>3. QED
        BY <4>1, <4>2, MailedKept
    <3>2. CASE FanOutFails(h)
      <4>1. h.kind = "event" /\ h.id \in Application
        BY <3>2, HandlerTypes DEF FanOutFails, EventHandler
      <4>2. Holds(h) => event[h.id] # None
        BY <4>1, HeldRow
      <4>3. GoneStay
        BY <3>2, <4>1, <4>2 DEF FanOutFails, GoneStay, TypeOK
      <4>4. QED
        BY <3>2, <4>3, MailedKept DEF FanOutFails, Leaves
    <3>3. CASE Record(h) \/ Retry(h) \/ Inspect(h) \/ ReadRest(h)
      <4>1. h \in MessageHandler /\ h.kind = "message" /\ UNCHANGED mail /\ GoneStay
        BY <3>3, MessageSteps, MessageFacts DEF MessageHandler
      <4>2. \A k \in work' : \/ k \in work
                             \/ k.at \in {"counted", "listed"}
                             \/ k.at = "read" /\ k.content.named # {}
        <5>1. CASE work' \subseteq work
          BY <5>1
        <5>2. CASE ~(work' \subseteq work)
          <6> DEFINE c == [Nothing EXCEPT !.total = Cardinality(Pending(h.id))]
                     l == [Nothing EXCEPT !.named = Earliest[Pending(h.id)]]
                     gc == [h EXCEPT !.at = "counted", !.content = c]
                     gl == [h EXCEPT !.at = "listed", !.content = l]
                     gr == [h EXCEPT !.at = "read", !.content = Reading(h)]
          <6>1. Inspect(h) \/ ReadRest(h)
            BY <3>3, <5>2 DEF Record, Retry, Leaves
          <6>2. /\ work' \subseteq work \cup {gc, gl, gr}
                /\ gr \in work' /\ gr \notin work => Reading(h).named # {}
            <7>1. \/ work' = (work \ {h}) \cup {gc}
                  \/ work' = (work \ {h}) \cup {gl}
                  \/ work' = (work \ {h}) \cup {gr} /\ Reading(h).named # {}
              BY <5>2, <6>1, ReaderSteps
            <7>2. gc.at = "counted" /\ gl.at = "listed" /\ gr.at = "read"
              BY <4>1 DEF MessageHandler
            <7> HIDE DEF gc, gl, gr
            <7>3. QED
              BY <7>1, <7>2
          <6>3. /\ gc.at = "counted" /\ gl.at = "listed"
                /\ gr.at = "read" /\ gr.content = Reading(h)
            BY <4>1 DEF MessageHandler
          <6> HIDE DEF gc, gl, gr
          <6>4. QED
            BY <6>2, <6>3
        <5>3. QED
          BY <5>1, <5>2
      <4>3. ASSUME NEW x \in Slot, delivery'[x] # None,
                   delivery'[x].status = "completed"
            PROVE  \/ /\ delivery[x] # None /\ delivery[x].status = "completed"
                      /\ delivery'[x].message = delivery[x].message
                   \/ LET c == mail'[delivery'[x].message]
                      IN  Accounts(c, x[1]) \/ \E a \in c.named : event'[a] = None
        <5>1. CASE /\ Holds(h) /\ h.at = "sent" /\ delivery[x].message = h.id
                   /\ delivery[x].status = "pending" /\ delivery[x] # None
          <6>1. x[1] \in Pending(h.id)
            BY <5>1 DEF Pending, Slot
          <6>2. \/ \A a \in Pending(h.id) : Accounts(h.content, a)
                \/ NamesOneGone(h.content)
            BY <4>1, <5>1 DEF Readings, Found
          <6>3. h.content = mail[h.id]
            BY <4>1, <5>1 DEF Mailed
          <6>4. delivery'[x].message = h.id
            BY <3>3, <4>3, <5>1, MessageFacts
          <6>5. UNCHANGED event
            BY <3>3, MessageSteps
          <6>6. QED
            BY <4>1, <6>1, <6>2, <6>3, <6>4, <6>5 DEF NamesOneGone
        <5>2. QED
          BY <3>3, <4>3, <5>1, MessageFacts
      <4>4. QED
        BY <4>1, <4>2, <4>3, MailedKept
    <3>4. CASE Send(h) \/ SendFails(h)
      <4>1. /\ h \in MessageHandler /\ h.id \in Message /\ h.kind = "message"
            /\ h.at = "read" /\ h.content \in Content
        BY <3>4, HandlerTypes DEF Send, SendFails, Accepts, MessageHandler
      <4>2. h.content.named # {}
        BY <4>1 DEF Mailed
      <4>3. /\ \A m \in Message : \/ mail'[m] = mail[m]
                                  \/ mail[m] = Nothing /\ mail'[m].named # {}
            /\ Accepts(h) => h.content = mail'[h.id]
        BY <3>4, <4>1, <4>2 DEF Send, SendFails, Accepts, TypeOK
      <4>4. UNCHANGED <<delivery, event>>
        BY <3>4 DEF Send, SendFails
      <4> DEFINE s == [h EXCEPT !.at = "sent", !.content = h.content]
                 f == [h EXCEPT !.at = "failing", !.content = Nothing]
      <4>5. s.id = h.id /\ s.content = h.content /\ f.at = "failing"
        BY <4>1 DEF MessageHandler
      <4>6. \A k \in work' : k \in work \/ (k = s /\ Accepts(h)) \/ k = f
        BY <3>4 DEF Send, SendFails, Becomes
      <4> HIDE DEF s, f
      <4>7. GoneStay
        BY <4>4 DEF GoneStay
      <4>8. QED
        BY <4>2, <4>3, <4>4, <4>5, <4>6, <4>7, MailedKept
    <3>5. CASE Drop(h)
      BY <3>5, MailedKept DEF Drop, Leaves, GoneStay
    <3>6. QED
      BY <2>4, <3>1, <3>2, <3>3, <3>4, <3>5 DEF HandlerStep
  <2>5. ASSUME NEW k \in Digest, SwitchOff(k) PROVE Mailed'
    <3>1. UNCHANGED <<mail, work, event>> /\ GoneStay
      BY <2>5 DEF SwitchOff, GoneStay
    <3>2. QED
      BY <2>5, <3>1, SwitchOffFacts, MailedKept
  <2>6. ASSUME NEW k \in Digest, SwitchOn(k) \/ Leave(k) PROVE Mailed'
    BY <2>6, MailedKept DEF SwitchOn, Leave, GoneStay
  <2>7. CASE UNCHANGED vars
    BY <2>7, MailedKept DEF vars, GoneStay
  <2>8. QED
    BY <2>1, <2>2, <2>3, <2>4, <2>5, <2>6, <2>7 DEF Next
<1>3. Mailed => CompletedWasMailed
  BY DEF Mailed
<1>4. Init => Fenced /\ Readings
  BY DEF Init, Fenced, Readings
<1>5. QED
  BY <1>1, <1>2, <1>3, <1>4, ReadingsStep, NotificationTypeCorrect, PTL DEF Spec
=============================================================================
