---------------------------- MODULE GoogleCalendar ----------------------------
(***************************************************************************)
(* The Google Calendar connection of an organization (google-calendar.ts): *)
(* one row with the credentials of a connection, the channel Google sends  *)
(* its notifications to, and the token up to which events were synced; and *)
(* what candidates answered, in Google and in the interviews.              *)
(*                                                                         *)
(* A connection is made anew in place of the old one, or after it was      *)
(* removed, and has a number of its own: its refresh token and connection  *)
(* generation.  Handlers load the row, call Google, and write back under   *)
(* the condition that the row is still what they loaded.  Several of them  *)
(* may be at work: the renewal, a sync for each notification, a            *)
(* disconnection; each may stop anywhere.                                  *)
(***************************************************************************)
EXTENDS Naturals, FiniteSets

CONSTANTS
    Event,         \* events of interviews, known to the interviews
    None,
    MaxGen,        \* bound: connections made
    MaxChannels,   \* bound: channels made
    MaxChanges,    \* bound: answers of a candidate in Google, each a new one
    MaxRefreshes,  \* bound: access tokens refreshed
    MaxWork        \* bound: handlers at once

ASSUME CalendarAssumption ==
    /\ {MaxGen, MaxChannels, MaxChanges, MaxRefreshes, MaxWork} \subseteq Nat
    /\ None \notin Event

VARIABLES
    row,        \* None, or the connection: gen, access, channel and position
    made,       \* how many connections, channels and access tokens there were
    open,       \* channels Google sends notifications to
    answer,     \* per event: the number of the candidate's answer in Google
    over,       \* events that have ended
    passed,     \* history, per event: the answer it had when a listing left it
                \* out because it was over
    shown,      \* per interview: the answer it shows and the connection it came
                \* from, or None for an answer by link
    confirmed,  \* history: the newest answer a sync has shown, or found shown
    work        \* the handlers

eventVars == <<over, passed>>
vars == <<row, made, open, answer, eventVars, shown, confirmed, work>>

\* What a handler loads of the row: the renewal needs the channel, a sync that
\* has begun to read the position.
Load(kind, at) ==
    [kind |-> kind, at |-> at, gen |-> row.gen, access |-> row.access,
     channel |-> IF kind = "setup" THEN row.channel ELSE None,
     position |-> IF kind = "sync" /\ at = "loaded" THEN row.position ELSE None,
     made |-> None, left |-> {}, event |-> None, seen |-> [e \in Event |-> 0]]

\* The row is still the connection the handler has loaded.
Current(h) == row # None /\ row.gen = h.gen

\* Its next step is a call to Google, in which the client may refresh its token.
CallsGoogle(h) == h.at \in {"loaded", "stopped", "stopping", "listed"}

Leaves(h) == work' = work \ {h}
Becomes(h, g) == work' = (work \ {h}) \cup {g}

Init ==
    /\ row = None
    /\ made = [gen |-> 0, channel |-> 0, access |-> 0]
    /\ open = {}
    /\ answer = [e \in Event |-> 0]
    /\ over = {}
    /\ passed = [e \in Event |-> 0]
    /\ shown = [e \in Event |-> <<0, 0>>]
    /\ confirmed = [e \in Event |-> 0]
    /\ work = {}

-----------------------------------------------------------------------------
(* Connections. *)

\* saveCalendarIntegration: credentials of a new connection; what belonged to
\* the old one is cleared in the same update.
Connect ==
    /\ made.gen < MaxGen
    /\ made' = [made EXCEPT !.gen = @ + 1]
    /\ row' = [gen |-> made'.gen, access |-> <<made'.gen, 0>>,
               channel |-> None, position |-> None]
    /\ UNCHANGED <<open, answer, eventVars, shown, confirmed, work>>

\* Mutant: a refreshed token is stored whatever became of the row.
RefreshLate(h) ==
    /\ CallsGoogle(h)
    /\ made.access < MaxRefreshes
    /\ made' = [made EXCEPT !.access = @ + 1]
    /\ LET fresh == <<h.gen, made'.access>>
       IN  IF row # None
           THEN /\ row' = [row EXCEPT !.access = fresh]
                /\ Becomes(h, [h EXCEPT !.access = fresh])
           ELSE UNCHANGED <<row, work>>
    /\ UNCHANGED <<open, answer, eventVars, shown, confirmed>>

\* The client of a handler refreshes its access token, and stores it if the one
\* it has loaded or stored before is still there.
Refresh(h) ==
    /\ CallsGoogle(h)
    /\ made.access < MaxRefreshes
    /\ made' = [made EXCEPT !.access = @ + 1]
    /\ LET fresh == <<h.gen, made'.access>>
       IN  IF row # None /\ row.access = h.access
           THEN /\ row' = [row EXCEPT !.access = fresh]
                /\ Becomes(h, [h EXCEPT !.access = fresh])
           ELSE UNCHANGED <<row, work>>
    /\ UNCHANGED <<open, answer, eventVars, shown, confirmed>>

\* removeConnectedCalendarIntegration reads the connection it will remove.
Disconnect ==
    /\ row # None
    /\ Cardinality(work) < MaxWork
    /\ work' = work \cup {Load("disconnect", "loaded")}
    /\ UNCHANGED <<row, made, open, answer, eventVars, shown, confirmed>>

\* removeCalendarIntegration deletes that generation only, else answers 409.
Delete(h) ==
    /\ h.kind = "disconnect" /\ h.at = "loaded"
    /\ IF Current(h)
       THEN /\ row' = None
            /\ Becomes(h, [h EXCEPT !.at = "stopping", !.made = row.channel])
       ELSE /\ Leaves(h)
            /\ UNCHANGED row
    /\ UNCHANGED <<made, open, answer, eventVars, shown, confirmed>>

-----------------------------------------------------------------------------
(* Channels. *)

\* setupCalendarWebhook, after a connection is saved or by the renewal.
Setup ==
    /\ row # None
    /\ Cardinality(work) < MaxWork
    /\ work' = work \cup {Load("setup", "loaded")}
    /\ UNCHANGED <<row, made, open, answer, eventVars, shown, confirmed>>

\* The old channel is stopped; an error is ignored.
StopOld(h) ==
    /\ h.kind = "setup" /\ h.at = "loaded"
    /\ open' \in {open, open \ {h.channel}}
    /\ Becomes(h, [h EXCEPT !.at = "stopped"])
    /\ UNCHANGED <<row, made, answer, eventVars, shown, confirmed>>

\* events.watch makes a channel.
Watch(h) ==
    /\ h.at = "stopped"
    /\ made.channel < MaxChannels
    /\ made' = [made EXCEPT !.channel = @ + 1]
    /\ open' = open \cup {<<h.gen, made'.channel>>}
    /\ Becomes(h, [h EXCEPT !.at = "watching", !.made = <<h.gen, made'.channel>>])
    /\ UNCHANGED <<row, answer, eventVars, shown, confirmed>>

\* Mutant: the channel is stored whatever became of the row.
StoreLate(h) ==
    /\ h.at = "watching"
    /\ row # None
    /\ row' = [row EXCEPT !.channel = h.made]
    /\ Becomes(h, [h EXCEPT !.kind = "sync", !.at = "begun"])
    /\ UNCHANGED <<made, open, answer, eventVars, shown, confirmed>>

\* The channel is stored if connection and channel are those loaded, and a sync
\* follows; else it is stopped again.
Store(h) ==
    /\ h.at = "watching"
    /\ IF Current(h) /\ row.channel = h.channel
       THEN /\ row' = [row EXCEPT !.channel = h.made]
            /\ Becomes(h, [h EXCEPT !.kind = "sync", !.at = "begun"])
       ELSE /\ Becomes(h, [h EXCEPT !.at = "stopping"])
            /\ UNCHANGED row
    /\ UNCHANGED <<made, open, answer, eventVars, shown, confirmed>>

\* A channel nobody wants is stopped; failures are ignored.
StopMade(h) ==
    /\ h.at = "stopping"
    /\ open' \in {open, open \ {h.made}}
    /\ Leaves(h)
    /\ UNCHANGED <<row, made, answer, eventVars, shown, confirmed>>

\* The webhook: a notification for a channel the row knows begins a sync.
Notify(c) ==
    /\ c \in open
    /\ row # None /\ row.channel = c
    /\ Cardinality(work) < MaxWork
    /\ work' = work \cup {Load("sync", "begun")}
    /\ UNCHANGED <<row, made, open, answer, eventVars, shown, confirmed>>

-----------------------------------------------------------------------------
(* Synchronization. *)

\* performIncrementalSync loads the row.
Begin(h) ==
    /\ h.kind = "sync" /\ h.at = "begun"
    /\ IF row = None THEN Leaves(h) ELSE Becomes(h, Load("sync", "loaded"))
    /\ UNCHANGED <<row, made, open, answer, eventVars, shown, confirmed>>

\* events.list: what has changed since the position; without one, the events
\* that are not over (timeMin is the present).  The new position covers the
\* others all the same.
List(h) ==
    /\ h.kind = "sync" /\ h.at = "loaded"
    /\ LET changed == {e \in Event : answer[e] > h.position.at[e]}
           due == IF h.position = None THEN Event \ over ELSE changed
       IN  Becomes(h, [h EXCEPT !.at = "listed", !.seen = answer, !.left = due])
    /\ passed' = IF h.position = None
                 THEN [e \in Event |-> IF e \in over /\ answer[e] > confirmed[e]
                                      THEN answer[e] ELSE passed[e]]
                 ELSE passed
    /\ UNCHANGED <<row, made, open, answer, over, shown, confirmed>>

\* The position has expired (410): it is cleared, and the sync begins again,
\* without one.
Expired(h) ==
    /\ h.kind = "sync" /\ h.at = "loaded" /\ h.position # None
    /\ IF Current(h)
       THEN /\ row' = [row EXCEPT !.position = None]
            /\ Becomes(h, [h EXCEPT !.at = "begun"])
       ELSE /\ Leaves(h)
            /\ UNCHANGED row
    /\ UNCHANGED <<made, open, answer, eventVars, shown, confirmed>>

Confirmed(h, e) == [confirmed EXCEPT ![e] = IF h.seen[e] > @ THEN h.seen[e] ELSE @]

\* syncEventAttendeeStatus of an event on a page, which is looked at only while
\* the connection is current: what the interview shows already is left alone.
Read(h, e) ==
    /\ h.at = "listed"
    /\ e \in h.left
    /\ IF ~Current(h)
       THEN /\ Leaves(h)
            /\ UNCHANGED confirmed
       ELSE IF shown[e] # None /\ shown[e][2] = h.seen[e]
       THEN /\ Becomes(h, [h EXCEPT !.left = @ \ {e}])
            /\ confirmed' = Confirmed(h, e)
       ELSE /\ Becomes(h, [h EXCEPT !.at = "writing", !.left = @ \ {e}, !.event = e])
            /\ UNCHANGED confirmed
    /\ UNCHANGED <<row, made, open, answer, eventVars, shown>>

\* Mutant: the answer is written whatever became of the connection.
WriteLate(h) ==
    /\ h.at = "writing"
    /\ shown' = [shown EXCEPT ![h.event] = <<h.gen, h.seen[h.event]>>]
    /\ confirmed' = Confirmed(h, h.event)
    /\ Becomes(h, [h EXCEPT !.at = "listed", !.event = None])
    /\ UNCHANGED <<row, made, open, answer, eventVars>>

\* The answer is written if the connection still exists in the same statement.
Write(h) ==
    /\ h.at = "writing"
    /\ IF Current(h)
       THEN /\ shown' = [shown EXCEPT ![h.event] = <<h.gen, h.seen[h.event]>>]
            /\ confirmed' = Confirmed(h, h.event)
       ELSE UNCHANGED <<shown, confirmed>>
    /\ Becomes(h, [h EXCEPT !.at = "listed", !.event = None])
    /\ UNCHANGED <<row, made, open, answer, eventVars>>

\* Mutant: the position is stored before the events are dealt with.
SaveEarly(h) ==
    /\ h.at = "listed"
    /\ Leaves(h)
    /\ row' = IF Current(h)
              THEN [row EXCEPT !.position = [gen |-> h.gen, at |-> h.seen]]
              ELSE row
    /\ UNCHANGED <<made, open, answer, eventVars, shown, confirmed>>

\* After the last page the new position is stored, for the same connection.
Save(h) ==
    /\ h.at = "listed" /\ h.left = {}
    /\ Leaves(h)
    /\ row' = IF Current(h)
              THEN [row EXCEPT !.position = [gen |-> h.gen, at |-> h.seen]]
              ELSE row
    /\ UNCHANGED <<made, open, answer, eventVars, shown, confirmed>>

-----------------------------------------------------------------------------
\* A call fails, or the process stops: nothing more is done.
Drop(h) ==
    /\ Leaves(h)
    /\ UNCHANGED <<row, made, open, answer, eventVars, shown, confirmed>>

\* The candidate answers in Google.
Answer(e) ==
    /\ answer[e] < MaxChanges
    /\ answer' = [answer EXCEPT ![e] = @ + 1]
    /\ UNCHANGED <<row, made, open, eventVars, shown, confirmed, work>>

\* The time of the interview passes.
EventEnds(e) ==
    /\ e \notin over
    /\ over' = over \cup {e}
    /\ UNCHANGED <<row, made, open, answer, passed, shown, confirmed, work>>

\* The candidate answers by the link in the invitation.
Respond(e) ==
    /\ shown[e] # None
    /\ shown' = [shown EXCEPT ![e] = None]
    /\ UNCHANGED <<row, made, open, answer, eventVars, confirmed, work>>

HandlerStep(h) ==
    \/ Refresh(h) \/ Drop(h)
    \/ Delete(h)
    \/ StopOld(h) \/ Watch(h) \/ Store(h) \/ StopMade(h)
    \/ Begin(h) \/ List(h) \/ Expired(h)
    \/ \E e \in Event : Read(h, e)
    \/ Write(h) \/ Save(h)

Next ==
    \/ Connect \/ Disconnect \/ Setup
    \/ \E c \in open : Notify(c)
    \/ \E h \in work : HandlerStep(h)
    \/ \E e \in Event : Answer(e) \/ EventEnds(e) \/ Respond(e)

Spec == Init /\ [][Next]_vars

-----------------------------------------------------------------------------
Channel == Nat \X Nat
Position == [gen : Nat, at : [Event -> Nat]]
Row == [gen : Nat, access : Nat \X Nat,
        channel : Channel \cup {None}, position : Position \cup {None}]
Handler == [kind : {"disconnect", "setup", "sync"},
            at : {"loaded", "stopped", "watching", "stopping", "begun", "listed", "writing"},
            gen : Nat, access : Nat \X Nat, channel : Channel \cup {None},
            position : Position \cup {None}, made : Channel \cup {None},
            left : SUBSET Event, event : Event \cup {None}, seen : [Event -> Nat]]

TypeOK ==
    /\ row \in Row \cup {None}
    /\ made \in [gen : Nat, channel : Nat, access : Nat]
    /\ open \subseteq Channel
    /\ answer \in [Event -> Nat]
    /\ over \subseteq Event
    /\ passed \in [Event -> Nat]
    /\ shown \in [Event -> (Nat \X Nat) \cup {None}]
    /\ confirmed \in [Event -> Nat]
    /\ work \subseteq Handler

\* Access token, channel and position in the row are those of its connection,
\* however late a handler of an earlier one comes back from Google.
RowIsOneConnection ==
    row # None =>
        /\ row.access[1] = row.gen
        /\ row.channel # None => row.channel[1] = row.gen
        /\ row.position # None => row.position.gen = row.gen

\* Google will not list again what lies before the position.  It has been
\* shown, or its event was over when a sync without a position left it out.
NothingIsSkipped ==
    row # None /\ row.position # None
        => \A e \in Event :
               \/ row.position.at[e] <= confirmed[e]
               \/ e \in over /\ row.position.at[e] <= passed[e]

\* An interview goes back to an older answer of its candidate only between two
\* syncs of one connection.  One that is late for a connection that was removed
\* or replaced never undoes what the syncs of a later one have shown.
NewerAnswersStand ==
    [][\A e \in Event :
           /\ shown[e] # None /\ shown'[e] # None
           /\ shown'[e][2] < shown[e][2]
           => shown'[e][1] = shown[e][1]]_vars

\* "clear it and do a full re-sync" (google-calendar.ts:817): the new position
\* covers only what a sync has shown.  The code violates it: after a 410 it
\* lists future events only, like a first sync.
ResyncIsFull ==
    row # None /\ row.position # None
        => \A e \in Event : row.position.at[e] <= confirmed[e]
=============================================================================
