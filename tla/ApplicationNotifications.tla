----------------------- MODULE ApplicationNotifications -----------------------
(***************************************************************************)
(* The notification queue (applicationNotificationQueue.ts): a received    *)
(* application is an event; the event fans out into one delivery per       *)
(* subscribed recipient; deliveries of one recipient, cadence and slot     *)
(* share a message; a message is one mail, sent under an idempotency key   *)
(* of its own.  The mail names the applications received first, up to a    *)
(* limit, and counts them all.  Events and messages are claimed with a     *)
(* lease and an attempt count, which fences what their handlers write.     *)
(*                                                                         *)
(* A digest is a dedupe key.  An event that fans out after the message of  *)
(* its digest has left the pending state gets a recovery message.  Every   *)
(* process may run a cycle; a claimed row has a handler, and the handler   *)
(* of a lease that ran out may still be at work.                           *)
(***************************************************************************)
EXTENDS Naturals, FiniteSets

CONSTANTS
    Application,   \* each inserts its event when it is received
    Digest,        \* dedupe keys of messages
    PlanOf,        \* per application: the digests its recipients' plans name
    None,
    MaxAttempts,
    DetailLimit,   \* applications that a mail names; it counts the others
    Earliest,      \* of each set of applications, those received first, up to the limit
    MaxWork,       \* bound: handlers at once
    KeyIsCompared  \* the mail provider refuses another mail under a key in use

VARIABLES
    event,      \* per application: status and attempts, or None once it is deleted
    message,    \* per message: status and attempts, or None before it exists
    delivery,   \* per application and digest: message and status, or None
    mail,       \* per message: what the mail says that the provider accepted
    recipient,  \* per digest: its recipient has it on or off, or is gone
    work        \* the handlers of claimed rows

vars == <<event, message, delivery, mail, recipient, work>>

\* The message of a digest, and its recovery messages, one per event.
Message == {<<k, None>> : k \in Digest} \cup (Digest \X Application)
Slot == Application \X Digest

Row == [status : {"pending", "processing", "completed", "failed", "cancelled"},
        attempts : 0..MaxAttempts]
Delivery == [message : Message, status : {"pending", "completed", "failed", "cancelled"}]

ASSUME NotificationAssumption ==
    /\ PlanOf \in [Application -> SUBSET Digest]
    /\ None \notin Application \cup Digest
    /\ None \notin Row /\ None \notin Delivery
    /\ {MaxAttempts, MaxWork, DetailLimit} \subseteq Nat \ {0}
    /\ IsFiniteSet(Application)
    /\ Earliest \in [SUBSET Application -> SUBSET Application]
    /\ \A S \in SUBSET Application :
           /\ Earliest[S] \subseteq S
           /\ Cardinality(Earliest[S]) = IF Cardinality(S) <= DetailLimit
                                         THEN Cardinality(S) ELSE DetailLimit
    /\ KeyIsCompared \in BOOLEAN

Waiting == [status |-> "pending", attempts |-> 0]
Active(r) == r # None /\ r.status \in {"pending", "processing"}

\* What a mail says: the applications it names, and how many there are in all.
\* It accounts for those it names, and for any if it says that there are more.
Nothing == [named |-> {}, total |-> 0]
Accounts(c, a) == a \in c.named \/ c.total > DetailLimit

-----------------------------------------------------------------------------
(* Handlers, claims and fences. *)

Handler(kind, id, attempt) ==
    [kind |-> kind, id |-> id, attempt |-> attempt, at |-> "claimed",
     content |-> Nothing]

Holds(h) ==
    LET r == IF h.kind = "event" THEN event[h.id] ELSE message[h.id]
    IN  r = [status |-> "processing", attempts |-> h.attempt]

Leaves(h) == work' = work \ {h}
Becomes(h, at, content) ==
    work' = (work \ {h}) \cup {[h EXCEPT !.at = at, !.content = content]}

\* getApplicationNotificationFailureOutcome: a retry later, or the end.
AfterFailure(r) ==
    [r EXCEPT !.status = IF r.attempts < MaxAttempts THEN "pending" ELSE "failed"]

\* The pending deliveries of message m come to status s.
Settled(m, s) ==
    [x \in Slot |-> IF delivery[x] # None /\ delivery[x].message = m
                       /\ delivery[x].status = "pending"
                    THEN [delivery[x] EXCEPT !.status = s]
                    ELSE delivery[x]]

Pending(m) == {a \in Application : \E k \in Digest :
                   LET d == delivery[<<a, k>>]
                   IN  d # None /\ d.message = m /\ d.status = "pending"}

Init ==
    /\ event = [a \in Application |-> Waiting]
    /\ message = [m \in Message |-> None]
    /\ delivery = [x \in Slot |-> None]
    /\ mail = [m \in Message |-> Nothing]
    /\ recipient = [k \in Digest |-> "on"]
    /\ work = {}

-----------------------------------------------------------------------------
(* Events. *)

\* Mutant: an event whose lease ran out is not claimed again.
ClaimPendingEvent(a) ==
    /\ event[a] # None /\ event[a].status = "pending"
    /\ Cardinality(work) < MaxWork
    /\ event' = [event EXCEPT ![a] = [status |-> "processing", attempts |-> @.attempts + 1]]
    /\ work' = work \cup {Handler("event", a, event[a].attempts + 1)}
    /\ UNCHANGED <<message, delivery, mail, recipient>>

\* claimEvents: a due event or one whose lease ran out; without attempts left
\* it fails with lease_expired.
ClaimEvent(a) ==
    /\ Active(event[a])
    /\ Cardinality(work) < MaxWork
    /\ IF event[a].attempts < MaxAttempts
       THEN /\ event' = [event EXCEPT ![a] =
                            [status |-> "processing", attempts |-> @.attempts + 1]]
            /\ work' = work \cup {Handler("event", a, event[a].attempts + 1)}
       ELSE /\ event' = [event EXCEPT ![a].status = "failed"]
            /\ UNCHANGED work
    /\ UNCHANGED <<message, delivery, mail, recipient>>

\* The message a delivery of digest k for application a joins: the digest's
\* while it is pending, else the recovery message of the event.
Joins(a, k) ==
    IF message[<<k, None>>] = None \/ message[<<k, None>>].status = "pending"
    THEN <<k, None>> ELSE <<k, a>>

\* Mutant: a late event joins the message of its digest whatever its state.
FanOutLate(h) ==
    /\ h.kind = "event"
    /\ Leaves(h)
    /\ IF Holds(h)
       THEN LET new == {k \in PlanOf[h.id] : delivery[<<h.id, k>>] = None}
            IN  /\ message' = [m \in Message |->
                       IF m[1] \in new /\ m[2] = None /\ message[m] = None
                       THEN Waiting ELSE message[m]]
                /\ delivery' = [x \in Slot |->
                       IF x[1] = h.id /\ x[2] \in new
                       THEN [message |-> <<x[2], None>>, status |-> "pending"]
                       ELSE delivery[x]]
                /\ event' = [event EXCEPT ![h.id].status = "completed"]
       ELSE UNCHANGED <<event, message, delivery>>
    /\ UNCHANGED <<mail, recipient>>

\* fanOutEvent, one fenced transaction over all recipients.  A recovery message
\* that is no longer pending makes it throw.
FanOut(h) ==
    /\ h.kind = "event"
    /\ Leaves(h)
    /\ IF Holds(h)
       THEN LET new == {k \in PlanOf[h.id] : delivery[<<h.id, k>>] = None}
                joined == {Joins(h.id, k) : k \in new}
            IN  IF \A m \in joined : message[m] = None \/ message[m].status = "pending"
                THEN /\ message' = [m \in Message |->
                            IF m \in joined /\ message[m] = None THEN Waiting ELSE message[m]]
                     /\ delivery' = [x \in Slot |->
                            IF x[1] = h.id /\ x[2] \in new
                            THEN [message |-> Joins(h.id, x[2]), status |-> "pending"]
                            ELSE delivery[x]]
                     /\ event' = [event EXCEPT ![h.id].status = "completed"]
                ELSE /\ event' = [event EXCEPT ![h.id] = AfterFailure(@)]
                     /\ UNCHANGED <<message, delivery>>
       ELSE UNCHANGED <<event, message, delivery>>
    /\ UNCHANGED <<mail, recipient>>

\* The database fails: failEvent.
FanOutFails(h) ==
    /\ h.kind = "event"
    /\ Leaves(h)
    /\ event' = IF Holds(h) THEN [event EXCEPT ![h.id] = AfterFailure(@)] ELSE event
    /\ UNCHANGED <<message, delivery, mail, recipient>>

-----------------------------------------------------------------------------
(* Messages. *)

\* Mutant: the deliveries of a message that ran out of leases are forgotten.
ClaimMessageOnly(m) ==
    /\ Active(message[m])
    /\ Cardinality(work) < MaxWork
    /\ IF message[m].attempts < MaxAttempts
       THEN /\ message' = [message EXCEPT ![m] =
                              [status |-> "processing", attempts |-> @.attempts + 1]]
            /\ work' = work \cup {Handler("message", m, message[m].attempts + 1)}
       ELSE /\ message' = [message EXCEPT ![m].status = "failed"]
            /\ UNCHANGED work
    /\ UNCHANGED <<event, delivery, mail, recipient>>

\* claimMessages; a message without attempts left takes its deliveries with it.
ClaimMessage(m) ==
    /\ Active(message[m])
    /\ Cardinality(work) < MaxWork
    /\ IF message[m].attempts < MaxAttempts
       THEN /\ message' = [message EXCEPT ![m] =
                              [status |-> "processing", attempts |-> @.attempts + 1]]
            /\ work' = work \cup {Handler("message", m, message[m].attempts + 1)}
            /\ UNCHANGED delivery
       ELSE /\ message' = [message EXCEPT ![m].status = "failed"]
            /\ delivery' = Settled(m, "failed")
            /\ UNCHANGED work
    /\ UNCHANGED <<event, mail, recipient>>

\* cancelMessage: the message and its deliveries end.
Cancel(h) ==
    /\ Leaves(h)
    /\ IF Holds(h)
       THEN /\ message' = [message EXCEPT ![h.id].status = "cancelled"]
            /\ delivery' = Settled(h.id, "cancelled")
       ELSE UNCHANGED <<message, delivery>>

\* processMessage reads the subscription, which must still be there; then two
\* queries at once, in either order: how many deliveries are pending, and the
\* applications of the first of them.
Inspect(h) ==
    /\ h.kind = "message" /\ h.at = "claimed"
    /\ IF recipient[h.id[1]] # "on"
       THEN Cancel(h)
       ELSE /\ \/ Becomes(h, "counted", [Nothing EXCEPT !.total = Cardinality(Pending(h.id))])
               \/ Becomes(h, "listed", [Nothing EXCEPT !.named = Earliest[Pending(h.id)]])
            /\ UNCHANGED <<message, delivery>>
    /\ UNCHANGED <<event, mail, recipient>>

\* Mutant: the digest counts the applications it names.
ReadingNamed(h) ==
    IF h.at = "counted"
    THEN [named |-> Earliest[Pending(h.id)], total |-> Cardinality(Earliest[Pending(h.id)])]
    ELSE [h.content EXCEPT !.total = Cardinality(h.content.named)]

\* What the second query adds to what the first one found.
Reading(h) ==
    IF h.at = "counted"
    THEN [h.content EXCEPT !.named = Earliest[Pending(h.id)]]
    ELSE [h.content EXCEPT !.total = Cardinality(Pending(h.id))]

\* A digest that either of them finds empty is cancelled.
ReadRest(h) ==
    /\ h.at \in {"counted", "listed"}
    /\ IF Reading(h).total = 0 \/ Reading(h).named = {}
       THEN Cancel(h)
       ELSE /\ Becomes(h, "read", Reading(h))
            /\ UNCHANGED <<message, delivery>>
    /\ UNCHANGED <<event, mail, recipient>>

\* The provider accepts the mail, or knows its key already.
Accepts(h) ==
    /\ h.at = "read"
    /\ \/ mail[h.id] = Nothing
       \/ KeyIsCompared => mail[h.id] = h.content
    /\ mail' = [mail EXCEPT ![h.id] = IF @ = Nothing THEN h.content ELSE @]

Send(h) ==
    /\ Accepts(h)
    /\ Becomes(h, "sent", h.content)
    /\ UNCHANGED <<event, message, delivery, recipient>>

\* The call fails: refused, or accepted and the answer lost.
SendFails(h) ==
    /\ h.at = "read"
    /\ Becomes(h, "failing", Nothing)
    /\ \/ Accepts(h)
       \/ UNCHANGED mail
    /\ UNCHANGED <<event, message, delivery, recipient>>

\* The message is completed with all its pending deliveries.
Record(h) ==
    /\ h.at = "sent"
    /\ Leaves(h)
    /\ IF Holds(h)
       THEN /\ message' = [message EXCEPT ![h.id].status = "completed"]
            /\ delivery' = Settled(h.id, "completed")
       ELSE UNCHANGED <<message, delivery>>
    /\ UNCHANGED <<event, mail, recipient>>

\* The catch branch, after the provider or the recording failed.
Retry(h) ==
    /\ h.at \in {"failing", "sent"}
    /\ Leaves(h)
    /\ LET r == AfterFailure(message[h.id])
       IN  IF Holds(h)
           THEN /\ message' = [message EXCEPT ![h.id] = r]
                /\ delivery' = IF r.status = "failed" THEN Settled(h.id, "failed") ELSE delivery
           ELSE UNCHANGED <<message, delivery>>
    /\ UNCHANGED <<event, mail, recipient>>

-----------------------------------------------------------------------------
\* The process stops, or a query throws where the cycle catches nothing.
Drop(h) ==
    /\ Leaves(h)
    /\ UNCHANGED <<event, message, delivery, mail, recipient>>

\* The recipient saves the cadence off: cancelUnsentForRecipient ends what is
\* pending.  What is being sent is left to its handler.
SwitchOff(k) ==
    /\ recipient[k] # "gone"
    /\ recipient' = [recipient EXCEPT ![k] = "off"]
    /\ LET unsent == {m \in Message : m[1] = k /\ message[m] # None
                                      /\ message[m].status = "pending"}
       IN  /\ message' = [m \in Message |->
                  IF m \in unsent THEN [message[m] EXCEPT !.status = "cancelled"]
                  ELSE message[m]]
           /\ delivery' = [x \in Slot |->
                  IF delivery[x] # None /\ delivery[x].status = "pending"
                     /\ delivery[x].message \in unsent
                  THEN [delivery[x] EXCEPT !.status = "cancelled"]
                  ELSE delivery[x]]
    /\ UNCHANGED <<event, mail, work>>

SwitchOn(k) ==
    /\ recipient[k] = "off"
    /\ recipient' = [recipient EXCEPT ![k] = "on"]
    /\ UNCHANGED <<event, message, delivery, mail, work>>

\* A member leaves: the subscription cascades, the messages stay.
Leave(k) ==
    /\ recipient[k] # "gone"
    /\ recipient' = [recipient EXCEPT ![k] = "gone"]
    /\ UNCHANGED <<event, message, delivery, mail, work>>

\* The application is deleted; its event and deliveries cascade.
Remove(a) ==
    /\ event[a] # None
    /\ event' = [event EXCEPT ![a] = None]
    /\ delivery' = [x \in Slot |-> IF x[1] = a THEN None ELSE delivery[x]]
    /\ UNCHANGED <<message, mail, recipient, work>>

HandlerStep(h) ==
    \/ FanOut(h) \/ FanOutFails(h)
    \/ Inspect(h) \/ ReadRest(h) \/ Send(h) \/ SendFails(h) \/ Record(h) \/ Retry(h)
    \/ Drop(h)

Next ==
    \/ \E a \in Application : ClaimEvent(a) \/ Remove(a)
    \/ \E m \in Message : ClaimMessage(m)
    \/ \E h \in work : HandlerStep(h)
    \/ \E k \in Digest : SwitchOff(k) \/ SwitchOn(k) \/ Leave(k)

\* Every process runs a cycle every five seconds; a cycle goes on or stops.
Fairness ==
    /\ \A a \in Application : WF_vars(ClaimEvent(a))
    /\ \A m \in Message : WF_vars(ClaimMessage(m))
    /\ WF_vars(\E h \in work : HandlerStep(h))

Spec == Init /\ [][Next]_vars /\ Fairness

-----------------------------------------------------------------------------
Content == [named : SUBSET Application, total : Nat]
EventHandler ==
    [kind : {"event"}, id : Application, attempt : 1..MaxAttempts,
     at : {"claimed"}, content : {Nothing}]
MessageHandler ==
    [kind : {"message"}, id : Message, attempt : 1..MaxAttempts,
     at : {"claimed", "counted", "listed", "read", "failing", "sent"}, content : Content]

TypeOK ==
    /\ event \in [Application -> Row \cup {None}]
    /\ message \in [Message -> Row \cup {None}]
    /\ delivery \in [Slot -> Delivery \cup {None}]
    /\ mail \in [Message -> Content]
    /\ recipient \in [Digest -> {"on", "off", "gone"}]
    /\ work \subseteq EventHandler \cup MessageHandler

\* A named application is gone: deleted after it was read.
NamesOneGone(c) == \E a \in c.named : event[a] = None

\* A delivery that is recorded as completed was named in the mail its recipient
\* got, or counted there among those beyond the limit, whatever joined the
\* message between two attempts to send it.  The two queries may straddle the
\* deletion of an application that is then named and not counted.
CompletedWasMailed ==
    \A x \in Slot :
        delivery[x] # None /\ delivery[x].status = "completed"
            => LET c == mail[delivery[x].message]
               IN  Accounts(c, x[1]) \/ NamesOneGone(c)

\* Nothing waits in a message that is over.
PendingHasMessage ==
    \A x \in Slot :
        delivery[x] # None /\ delivery[x].status = "pending"
            => Active(message[delivery[x].message])

\* What a handler has read accounts for every delivery that its fenced write
\* will settle: nothing joins a message while a handler that holds it is at work.
ReadingsAreComplete ==
    \A h \in work :
        h.kind = "message" /\ h.at \in {"read", "sent"} /\ Holds(h)
            => \/ \A a \in Pending(h.id) : Accounts(h.content, a)
               \/ NamesOneGone(h.content)

\* Every application that stays is announced or given up: no event and no
\* delivery waits for ever.
NothingWaitsForEver ==
    /\ \A a \in Application : Active(event[a]) ~> ~Active(event[a])
    /\ \A x \in Slot :
          (delivery[x] # None /\ delivery[x].status = "pending")
              ~> (delivery[x] = None \/ delivery[x].status # "pending")
=============================================================================
