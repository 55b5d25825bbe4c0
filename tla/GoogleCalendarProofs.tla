------------------------- MODULE GoogleCalendarProofs -------------------------
(***************************************************************************)
(* Theorems about the Google Calendar connection, for any number of        *)
(* events, connections, channels, answers, refreshes and handlers.         *)
(*                                                                         *)
(* Lineage says which connection each token comes from; Coverage, on top   *)
(* of it, says that a sync which still counts has shown what it will not   *)
(* be told again.                                                          *)
(***************************************************************************)
EXTENDS GoogleCalendar, TLAPS

\* Numbers of connections are handed out in order, and what a handler has got
\* from Google belongs to the connection it has loaded.
Lineage ==
    /\ RowIsOneConnection
    /\ row # None => row.gen <= made.gen
    /\ \A h \in work :
           /\ h.gen <= made.gen
           /\ h.access[1] = h.gen
           /\ h.made # None => h.made[1] = h.gen

\* What an event's interview has shown, or will not be shown since the event was
\* over: the newer of the two.
covered == [e \in Event |-> IF passed[e] > confirmed[e] THEN passed[e] ELSE confirmed[e]]

Covers(position) == \A e \in Event : position.at[e] <= covered[e]

NothingIsUnknown ==
    row # None /\ row.position # None
        => \A e \in Event : row.position.at[e] <= covered[e]

\* Only events that are over are left out, with the answer they have.
PassedAreOver ==
    \A e \in Event : /\ passed[e] # 0 => e \in over
                     /\ passed[e] <= answer[e]

\* A sync of the current connection has dealt with an event, is writing it, or
\* has it before it.
Coverage ==
    /\ NothingIsUnknown
    /\ \A h \in work : h.position # None => Covers(h.position)
    /\ \A h \in work : h.at \in {"listed", "writing"} /\ Current(h) =>
           \A e \in Event : \/ e \in h.left
                            \/ h.at = "writing" /\ e = h.event
                            \/ h.seen[e] <= covered[e]

-----------------------------------------------------------------------------
LEMMA LoadType ==
    ASSUME TypeOK, row # None, NEW kind \in {"disconnect", "setup", "sync"},
           NEW at \in {"loaded", "begun"}
    PROVE  Load(kind, at) \in Handler
<1>1. row \in Row
  BY DEF TypeOK
<1>2. [e \in Event |-> 0] \in [Event -> Nat]
  OBVIOUS
<1>3. QED
  BY <1>1, <1>2 DEF Load, Row, Handler

\* Row, handlers and numbers are well formed.
THEOREM CalendarTypeCorrect == Spec => []TypeOK
<1>1. Init => TypeOK
  BY CalendarAssumption DEF Init, TypeOK
<1>2. TypeOK /\ [Next]_vars => TypeOK'
  <2> SUFFICES ASSUME TypeOK, [Next]_vars PROVE TypeOK'
    OBVIOUS
  <2> USE CalendarAssumption DEF eventVars
  <2>1. CASE Connect
    BY <2>1 DEF Connect, TypeOK, Row
  <2>2. CASE Disconnect
    BY <2>2, LoadType DEF Disconnect, TypeOK
  <2>3. CASE Setup
    BY <2>3, LoadType DEF Setup, TypeOK
  <2>4. ASSUME NEW c \in open, Notify(c) PROVE TypeOK'
    BY <2>4, LoadType DEF Notify, TypeOK
  <2>5. ASSUME NEW h \in work, HandlerStep(h) PROVE TypeOK'
    <3>1. h \in Handler
      BY DEF TypeOK
    <3> USE <3>1
    <3>2. CASE Refresh(h)
      BY <3>2 DEF Refresh, TypeOK, Row, Handler, Becomes
    <3>3. CASE Drop(h)
      BY <3>3 DEF Drop, TypeOK, Leaves
    <3>4. CASE Delete(h)
      <4>1. ASSUME Current(h)
            PROVE  [h EXCEPT !.at = "stopping", !.made = row.channel] \in Handler
        <5>1. row.channel \in Channel \cup {None}
          BY <4>1 DEF Current, TypeOK, Row
        <5>2. QED
          BY <5>1 DEF Handler
      <4>2. QED
        BY <3>4, <4>1 DEF Delete, TypeOK, Becomes, Leaves
    <3>5. CASE StopOld(h)
      BY <3>5 DEF StopOld, TypeOK, Handler, Becomes
    <3>6. CASE Watch(h)
      <4>1. made' \in [gen : Nat, channel : Nat, access : Nat]
        BY <3>6 DEF Watch, TypeOK
      <4>2. <<h.gen, made'.channel>> \in Channel
        BY <4>1 DEF Channel, Handler
      <4>3. [h EXCEPT !.at = "watching", !.made = <<h.gen, made'.channel>>] \in Handler
        BY <4>2 DEF Handler
      <4>4. QED
        BY <3>6, <4>1, <4>2, <4>3 DEF Watch, TypeOK, Becomes
    <3>7. CASE Store(h)
      <4>1. /\ [h EXCEPT !.kind = "sync", !.at = "begun"] \in Handler
            /\ [h EXCEPT !.at = "stopping"] \in Handler
        BY DEF Handler
      <4>2. row # None => [row EXCEPT !.channel = h.made] \in Row
        BY DEF TypeOK, Row, Handler
      <4>3. QED
        BY <3>7, <4>1, <4>2 DEF Store, Current, TypeOK, Becomes
    <3>8. CASE StopMade(h)
      BY <3>8 DEF StopMade, TypeOK, Leaves
    <3>9. CASE Begin(h)
      <4>1. CASE row = None
        BY <3>9, <4>1 DEF Begin, TypeOK, Leaves
      <4>2. CASE row # None
        <5>1. Load("sync", "loaded") \in Handler
          BY <4>2, LoadType
        <5>2. QED
          <6>1. work' = (work \ {h}) \cup {Load("sync", "loaded")}
            BY <3>9, <4>2 DEF Begin, Becomes
          <6>2. work' \subseteq Handler
            BY <5>1, <6>1 DEF TypeOK
          <6>3. QED
            BY <3>9, <6>2 DEF Begin, TypeOK
      <4>3. QED
        BY <4>1, <4>2
    <3>10. CASE List(h)
      <4> DEFINE due == IF h.position = None THEN Event \ over
                        ELSE {e \in Event : answer[e] > h.position.at[e]}
                 g == [h EXCEPT !.at = "listed", !.seen = answer, !.left = due]
      <4>1. due \in SUBSET Event /\ answer \in [Event -> Nat]
        BY DEF TypeOK
      <4>2. Becomes(h, g) /\ UNCHANGED <<row, made, open, answer, over, shown, confirmed>>
        BY <3>10 DEF List
      <4>3. passed' \in [Event -> Nat]
        BY <3>10, <4>1 DEF List, TypeOK
      <4> HIDE DEF due
      <4>4. g \in Handler
        BY <4>1 DEF Handler
      <4> HIDE DEF g
      <4>5. QED
        BY <4>2, <4>3, <4>4 DEF TypeOK, Becomes
    <3>11. CASE Expired(h)
      <4>1. [h EXCEPT !.at = "begun"] \in Handler
        BY DEF Handler
      <4>2. row # None => [row EXCEPT !.position = None] \in Row
        BY DEF TypeOK, Row
      <4>3. QED
        BY <3>11, <4>1, <4>2 DEF Expired, Current, TypeOK, Becomes, Leaves
    <3>12. ASSUME NEW e \in Event, Read(h, e) PROVE TypeOK'
      <4>1. Confirmed(h, e) \in [Event -> Nat]
        BY DEF Confirmed, TypeOK, Handler
      <4>2. /\ [h EXCEPT !.left = @ \ {e}] \in Handler
            /\ [h EXCEPT !.at = "writing", !.left = @ \ {e}, !.event = e] \in Handler
        BY DEF Handler
      <4>3. QED
        <5>1. work' \subseteq Handler
          BY <3>12, <4>2 DEF Read, TypeOK, Becomes, Leaves
        <5>2. confirmed' \in [Event -> Nat]
          BY <3>12, <4>1 DEF Read, TypeOK
        <5>3. QED
          BY <3>12, <5>1, <5>2 DEF Read, TypeOK
    <3>13. CASE Write(h)
      <4>1. Confirmed(h, h.event) \in [Event -> Nat]
        BY DEF Confirmed, TypeOK, Handler
      <4>2. [shown EXCEPT ![h.event] = <<h.gen, h.seen[h.event]>>]
                \in [Event -> (Nat \X Nat) \cup {None}]
        BY DEF TypeOK, Handler
      <4>3. [h EXCEPT !.at = "listed", !.event = None] \in Handler
        BY DEF Handler
      <4>4. QED
        BY <3>13, <4>1, <4>2, <4>3 DEF Write, TypeOK, Becomes
    <3>14. CASE Save(h)
      BY <3>14 DEF Save, Current, TypeOK, Row, Position, Handler, Leaves
    <3>15. QED
      BY <2>5, <3>2, <3>3, <3>4, <3>5, <3>6, <3>7, <3>8, <3>9, <3>10, <3>11,
         <3>12, <3>13, <3>14 DEF HandlerStep
  <2>6. ASSUME NEW e \in Event, Answer(e) PROVE TypeOK'
    BY <2>6 DEF Answer, TypeOK
  <2>7. ASSUME NEW e \in Event, EventEnds(e) PROVE TypeOK'
    BY <2>7 DEF EventEnds, TypeOK
  <2>8. ASSUME NEW e \in Event, Respond(e) PROVE TypeOK'
    BY <2>8 DEF Respond, TypeOK
  <2>9. CASE UNCHANGED vars
    BY <2>9 DEF vars, TypeOK
  <2>10. QED
    BY <2>1, <2>2, <2>3, <2>4, <2>5, <2>6, <2>7, <2>8, <2>9 DEF Next
<1>3. QED
  BY <1>1, <1>2, PTL DEF Spec

-----------------------------------------------------------------------------
\* A handler that starts, from the row as it is, has what belongs to it.
LEMMA LoadLineage ==
    ASSUME Lineage, row # None, NEW kind, NEW at
    PROVE  LET h == Load(kind, at)
           IN  /\ h.gen = row.gen
               /\ h.gen <= made.gen
               /\ h.access[1] = h.gen
               /\ h.made = None
               /\ h.kind = kind /\ h.at = at
BY DEF Lineage, RowIsOneConnection, Load

\* A handler goes on with what it has loaded; the row is that of a connection.
LEMMA HandlerLineage ==
    ASSUME TypeOK, Lineage, NEW h \in work, NEW g,
           g.gen = h.gen, g.access = h.access,
           g.made # None => g.made[1] = h.gen,
           Becomes(h, g), made'.gen = made.gen,
           RowIsOneConnection', row' # None => row # None /\ row'.gen = row.gen
    PROVE  Lineage'
<1>1. \A k \in work' : k \in work \/ k = g
  BY DEF Becomes
<1>2. QED
  BY <1>1 DEF Lineage

LEMMA LineageStep == TypeOK /\ Lineage /\ [Next]_vars => Lineage'
<1> SUFFICES ASSUME TypeOK, Lineage, [Next]_vars PROVE Lineage'
  OBVIOUS
<1> USE CalendarAssumption
<1>1. CASE Connect
  <2>1. /\ made.gen \in Nat /\ made'.gen = made.gen + 1
        /\ row' = [gen |-> made'.gen, access |-> <<made'.gen, 0>>,
                   channel |-> None, position |-> None]
    BY <1>1 DEF Connect, TypeOK
  <2>2. \A h \in work : h.gen \in Nat
    BY DEF TypeOK, Handler
  <2>3. QED
    BY <1>1, <2>1, <2>2 DEF Connect, Lineage, RowIsOneConnection
<1>2. CASE Disconnect
  BY <1>2, LoadLineage DEF Disconnect, Lineage, RowIsOneConnection
<1>3. CASE Setup
  BY <1>3, LoadLineage DEF Setup, Lineage, RowIsOneConnection
<1>4. ASSUME NEW c \in open, Notify(c) PROVE Lineage'
  BY <1>4, LoadLineage DEF Notify, Lineage, RowIsOneConnection
<1>5. ASSUME NEW h \in work, HandlerStep(h) PROVE Lineage'
  <2>1. h \in Handler /\ row \in Row \cup {None}
    BY DEF TypeOK
  <2> USE <2>1
  <2>2. CASE Refresh(h)
    <3>1. made'.gen = made.gen
      BY <2>2 DEF Refresh, TypeOK
    <3>2. CASE row # None /\ row.access = h.access
      <4> DEFINE fresh == <<h.gen, made'.access>>
                 g == [h EXCEPT !.access = fresh]
      <4>1. g.gen = h.gen /\ g.access[1] = h.gen /\ g.made = h.made
        BY DEF Handler
      <4>2. /\ row' = [row EXCEPT !.access = fresh]
            /\ work' = (work \ {h}) \cup {g}
        BY <2>2, <3>2 DEF Refresh, Becomes
      <4>3. row.gen = h.gen
        BY <3>2 DEF Lineage, RowIsOneConnection
      <4>4. /\ row'.gen = row.gen /\ row'.access[1] = row.gen
            /\ row'.channel = row.channel /\ row'.position = row.position
        BY <3>2, <4>2, <4>3 DEF Row
      <4> HIDE DEF fresh, g
      <4>5. RowIsOneConnection'
        BY <3>2, <4>4 DEF Lineage, RowIsOneConnection
      <4>6. \A k \in work' : k \in work \/ k = g
        BY <4>2
      <4>7. QED
        BY <3>1, <3>2, <4>1, <4>4, <4>5, <4>6 DEF Lineage
    <3>3. CASE ~(row # None /\ row.access = h.access)
      BY <2>2, <3>1, <3>3 DEF Refresh, Lineage, RowIsOneConnection
    <3>4. QED
      BY <3>2, <3>3
  <2>3. CASE Drop(h)
    BY <2>3 DEF Drop, Leaves, Lineage, RowIsOneConnection
  <2>4. CASE Delete(h)
    <3>1. CASE Current(h)
      <4> DEFINE g == [h EXCEPT !.at = "stopping", !.made = row.channel]
      <4>1. g.gen = h.gen /\ g.access = h.access /\ g.made = row.channel
        BY DEF Handler
      <4>2. row' = None /\ Becomes(h, g) /\ UNCHANGED made
        BY <2>4, <3>1 DEF Delete
      <4>3. row.channel # None => row.channel[1] = h.gen
        BY <3>1 DEF Current, Lineage, RowIsOneConnection
      <4> HIDE DEF g
      <4>4. QED
        BY <4>1, <4>2, <4>3, HandlerLineage DEF RowIsOneConnection
    <3>2. CASE ~Current(h)
      BY <2>4, <3>2 DEF Delete, Leaves, Lineage, RowIsOneConnection
    <3>3. QED
      BY <3>1, <3>2
  <2>5. CASE StopOld(h)
    BY <2>5 DEF StopOld, Becomes, Lineage, RowIsOneConnection, Handler
  <2>6. CASE Watch(h)
    <3>1. made'.gen = made.gen
      BY <2>6 DEF Watch, TypeOK
    <3> DEFINE g == [h EXCEPT !.at = "watching", !.made = <<h.gen, made'.channel>>]
    <3>2. g.gen = h.gen /\ g.access = h.access /\ g.made[1] = h.gen
      BY DEF Handler
    <3>3. Becomes(h, g) /\ UNCHANGED row
      BY <2>6 DEF Watch
    <3> HIDE DEF g
    <3>4. RowIsOneConnection'
      BY <3>3 DEF Lineage, RowIsOneConnection
    <3>5. QED
      BY <3>1, <3>2, <3>3, <3>4, HandlerLineage
  <2>7. CASE Store(h)
    <3>1. /\ [h EXCEPT !.kind = "sync", !.at = "begun"].gen = h.gen
          /\ [h EXCEPT !.kind = "sync", !.at = "begun"].access = h.access
          /\ [h EXCEPT !.kind = "sync", !.at = "begun"].made = h.made
          /\ [h EXCEPT !.at = "stopping"].gen = h.gen
          /\ [h EXCEPT !.at = "stopping"].access = h.access
          /\ [h EXCEPT !.at = "stopping"].made = h.made
      BY DEF Handler
    <3>2. h.made # None => h.made[1] = h.gen
      BY DEF Lineage
    <3>3. CASE Current(h) /\ row.channel = h.channel
      <4>1. /\ row # None /\ row.gen = h.gen
            /\ row' = [row EXCEPT !.channel = h.made]
            /\ Becomes(h, [h EXCEPT !.kind = "sync", !.at = "begun"])
            /\ UNCHANGED made
        BY <2>7, <3>3 DEF Store, Current
      <4>2. /\ row'.gen = row.gen /\ row'.access = row.access
            /\ row'.channel = h.made /\ row'.position = row.position
        BY <4>1 DEF Row
      <4>3. RowIsOneConnection'
        BY <3>2, <4>1, <4>2 DEF Lineage, RowIsOneConnection
      <4>4. QED
        BY <3>1, <3>2, <4>1, <4>2, <4>3, HandlerLineage
    <3>4. CASE ~(Current(h) /\ row.channel = h.channel)
      <4>1. Becomes(h, [h EXCEPT !.at = "stopping"]) /\ UNCHANGED <<row, made>>
        BY <2>7, <3>4 DEF Store
      <4>2. RowIsOneConnection'
        BY <4>1 DEF Lineage, RowIsOneConnection
      <4>3. QED
        BY <3>1, <3>2, <4>1, <4>2, HandlerLineage
    <3>5. QED
      BY <3>3, <3>4
  <2>8. CASE StopMade(h)
    BY <2>8 DEF StopMade, Leaves, Lineage, RowIsOneConnection
  <2>9. CASE Begin(h)
    BY <2>9, LoadLineage DEF Begin, Becomes, Leaves, Lineage, RowIsOneConnection
  <2>10. CASE List(h)
    BY <2>10 DEF List, Becomes, Lineage, RowIsOneConnection, Handler
  <2>11. CASE Expired(h)
    <3>1. CASE Current(h)
      <4> DEFINE g == [h EXCEPT !.at = "begun"]
      <4>1. g.gen = h.gen /\ g.access = h.access /\ g.made = h.made
        BY DEF Handler
      <4>2. /\ row # None /\ row' = [row EXCEPT !.position = None]
            /\ Becomes(h, g) /\ UNCHANGED made
        BY <2>11, <3>1 DEF Expired, Current
      <4>3. /\ row'.gen = row.gen /\ row'.access = row.access
            /\ row'.channel = row.channel /\ row'.position = None
        BY <4>2 DEF Row
      <4> HIDE DEF g
      <4>4. RowIsOneConnection'
        BY <4>2, <4>3 DEF Lineage, RowIsOneConnection
      <4>5. h.made # None => h.made[1] = h.gen
        BY DEF Lineage
      <4>6. QED
        BY <4>1, <4>2, <4>3, <4>4, <4>5, HandlerLineage
    <3>2. CASE ~Current(h)
      BY <2>11, <3>2 DEF Expired, Leaves, Lineage, RowIsOneConnection
    <3>3. QED
      BY <3>1, <3>2
  <2>12. ASSUME NEW e \in Event, Read(h, e) PROVE Lineage'
    <3>1. /\ [h EXCEPT !.left = @ \ {e}].gen = h.gen
          /\ [h EXCEPT !.left = @ \ {e}].access = h.access
          /\ [h EXCEPT !.left = @ \ {e}].made = h.made
          /\ [h EXCEPT !.at = "writing", !.left = @ \ {e}, !.event = e].gen = h.gen
          /\ [h EXCEPT !.at = "writing", !.left = @ \ {e}, !.event = e].access = h.access
          /\ [h EXCEPT !.at = "writing", !.left = @ \ {e}, !.event = e].made = h.made
      BY DEF Handler
    <3>2. /\ UNCHANGED <<row, made>>
          /\ \/ Leaves(h)
             \/ Becomes(h, [h EXCEPT !.left = @ \ {e}])
             \/ Becomes(h, [h EXCEPT !.at = "writing", !.left = @ \ {e}, !.event = e])
      BY <2>12 DEF Read
    <3>3. RowIsOneConnection' /\ (h.made # None => h.made[1] = h.gen)
      BY <3>2 DEF Lineage, RowIsOneConnection
    <3>4. CASE Leaves(h)
      BY <3>2, <3>3, <3>4 DEF Leaves, Lineage
    <3>5. QED
      BY <3>1, <3>2, <3>3, <3>4, HandlerLineage
  <2>13. CASE Write(h)
    <3> DEFINE g == [h EXCEPT !.at = "listed", !.event = None]
    <3>1. g.gen = h.gen /\ g.access = h.access /\ g.made = h.made
      BY DEF Handler
    <3>2. Becomes(h, g) /\ UNCHANGED <<row, made>>
      BY <2>13 DEF Write
    <3> HIDE DEF g
    <3>3. RowIsOneConnection' /\ (h.made # None => h.made[1] = h.gen)
      BY <3>2 DEF Lineage, RowIsOneConnection
    <3>4. QED
      BY <3>1, <3>2, <3>3, HandlerLineage
  <2>14. CASE Save(h)
    <3>1. row # None => LET r == [row EXCEPT !.position = [gen |-> h.gen, at |-> h.seen]]
                        IN  /\ r.gen = row.gen /\ r.access = row.access
                            /\ r.channel = row.channel
                            /\ r.position.gen = h.gen
      BY DEF Row
    <3>2. QED
      BY <2>14, <3>1 DEF Save, Current, Leaves, Lineage, RowIsOneConnection
  <2>15. QED
    BY <1>5, <2>2, <2>3, <2>4, <2>5, <2>6, <2>7, <2>8, <2>9, <2>10, <2>11,
       <2>12, <2>13, <2>14 DEF HandlerStep
<1>6. ASSUME NEW e \in Event, Answer(e) PROVE Lineage'
  BY <1>6 DEF Answer, Lineage, RowIsOneConnection
<1>7. ASSUME NEW e \in Event, EventEnds(e) \/ Respond(e) PROVE Lineage'
  BY <1>7 DEF EventEnds, Respond, Lineage, RowIsOneConnection
<1>8. CASE UNCHANGED vars
  BY <1>8 DEF vars, Lineage, RowIsOneConnection
<1>9. QED
  BY <1>1, <1>2, <1>3, <1>4, <1>5, <1>6, <1>7, <1>8 DEF Next

\* Every part of the row comes from its connection, and what a handler brings
\* back from Google from the connection it has loaded.
THEOREM LineageCorrect == Spec => []RowIsOneConnection
<1>1. Init => Lineage
  BY DEF Init, Lineage, RowIsOneConnection
<1>2. TypeOK /\ Lineage /\ [Next]_vars => Lineage'
  BY LineageStep
<1>3. Lineage => RowIsOneConnection
  BY DEF Lineage
<1>4. QED
  BY <1>1, <1>2, <1>3, CalendarTypeCorrect, PTL DEF Spec

-----------------------------------------------------------------------------
LEMMA CoveredType == TypeOK => covered \in [Event -> Nat]
  BY DEF TypeOK, covered

LEMMA CoveredStays == UNCHANGED <<confirmed, passed>> => UNCHANGED covered
  BY DEF covered

\* What is asked of a handler outlives any step that leaves it alone, keeps the
\* connection or removes it, and confirms more.
LEMMA HandlerCoverage ==
    ASSUME TypeOK, Coverage, NEW h \in work, NEW g,
           Becomes(h, g) \/ Leaves(h),
           row' # None => row # None /\ row'.gen = row.gen,
           covered' \in [Event -> Nat],
           \A e \in Event : covered[e] <= covered'[e],
           NothingIsUnknown',
           g.position = h.position,
           g.at \in {"listed", "writing"} /\ row' # None /\ row'.gen = g.gen =>
               \A e \in Event : \/ e \in g.left
                                \/ g.at = "writing" /\ e = g.event
                                \/ g.seen[e] <= covered'[e]
    PROVE  Coverage'
<1>1. covered \in [Event -> Nat]
  BY CoveredType
<1>2. ASSUME NEW k \in work
      PROVE  k.position # None => Covers(k.position)'
  <2>1. k.position # None => k.position.at \in [Event -> Nat]
    BY DEF TypeOK, Handler, Position
  <2>2. QED
    BY <1>1, <2>1 DEF Coverage, Covers
<1>3. ASSUME NEW k \in work, k.at \in {"listed", "writing"}, Current(k)',
             NEW e \in Event
      PROVE  \/ e \in k.left
             \/ k.at = "writing" /\ e = k.event
             \/ k.seen[e] <= covered'[e]
  <2>1. Current(k)
    BY <1>3 DEF Current
  <2>2. k.seen[e] \in Nat /\ covered[e] \in Nat /\ covered'[e] \in Nat
    BY <1>1 DEF TypeOK, Handler
  <2>3. QED
    BY <1>3, <2>1, <2>2 DEF Coverage
<1>4. \A k \in work' : k \in work \/ k = g
  BY DEF Becomes, Leaves
<1>5. g.position # None => Covers(g.position)'
  BY <1>2
<1>6. QED
  BY <1>2, <1>3, <1>4, <1>5 DEF Coverage, Current

\* A handler that starts has nothing to deal with yet.
LEMMA StartCoverage ==
    ASSUME TypeOK, Coverage, row # None, NEW kind, NEW at \in {"loaded", "begun"},
           work' = work \cup {Load(kind, at)},
           UNCHANGED <<row, confirmed, passed>>
    PROVE  Coverage'
<1>1. /\ Load(kind, at).position \in {row.position, None}
      /\ Load(kind, at).at = at
  BY DEF Load
<1>2. row.position # None => Covers(row.position)
  BY DEF Coverage, NothingIsUnknown, Covers
<1>3. covered' = covered
  BY CoveredStays
<1>4. QED
  BY <1>1, <1>2, <1>3 DEF Coverage, NothingIsUnknown, Covers, Current

\* A listing leaves out only events that are over, and they stay over.
LEMMA PassedStep == TypeOK /\ PassedAreOver /\ [Next]_vars => PassedAreOver'
<1> SUFFICES ASSUME TypeOK, PassedAreOver, [Next]_vars PROVE PassedAreOver'
  OBVIOUS
<1>1. CASE UNCHANGED <<answer, eventVars>>
  BY <1>1 DEF PassedAreOver, eventVars
<1>2. ASSUME NEW h \in work, List(h) PROVE PassedAreOver'
  BY <1>2 DEF List, PassedAreOver, TypeOK
<1>3. ASSUME NEW e \in Event, EventEnds(e) PROVE PassedAreOver'
  BY <1>3 DEF EventEnds, PassedAreOver
<1>4. ASSUME NEW e \in Event, Answer(e) PROVE PassedAreOver'
  BY <1>4 DEF Answer, PassedAreOver, TypeOK, eventVars
<1>5. QED
  BY <1>1, <1>2, <1>3, <1>4 DEF Next, HandlerStep, vars, Connect, Disconnect, Setup, Notify,
     Refresh, Drop, Delete, StopOld, Watch, Store, StopMade, Begin, Expired, Read, Write,
     Save, Respond

\* Looking at an event, and writing its answer, cover what was seen of it.
LEMMA ConfirmedGrows ==
    ASSUME TypeOK, NEW h \in work, NEW e, UNCHANGED passed,
           confirmed' \in {confirmed, Confirmed(h, e)}
    PROVE  /\ covered' \in [Event -> Nat]
           /\ \A d \in Event : covered[d] <= covered'[d]
           /\ e \in Event /\ confirmed' = Confirmed(h, e) => h.seen[e] <= covered'[e]
<1>1. /\ confirmed \in [Event -> Nat] /\ passed \in [Event -> Nat]
      /\ h.seen \in [Event -> Nat]
  BY DEF TypeOK, Handler
<1>2. /\ confirmed' \in [Event -> Nat]
      /\ \A d \in Event : confirmed[d] <= confirmed'[d]
      /\ e \in Event /\ confirmed' = Confirmed(h, e) => h.seen[e] <= confirmed'[e]
  <2>1. CASE e \in Event
    BY <1>1, <2>1 DEF Confirmed
  <2>2. CASE e \notin Event
    BY <1>1, <2>2 DEF Confirmed
  <2>3. QED
    BY <2>1, <2>2
<1>3. QED
  BY <1>1, <1>2 DEF covered

LEMMA ReadCoverage ==
    ASSUME TypeOK, Coverage, NEW h \in work, NEW e \in Event, Read(h, e)
    PROVE  Coverage'
<1>1. h \in Handler /\ covered \in [Event -> Nat]
  BY CoveredType DEF TypeOK
<1> DEFINE g == [h EXCEPT !.left = @ \ {e}]
           w == [h EXCEPT !.at = "writing", !.left = @ \ {e}, !.event = e]
<1>2. /\ g.position = h.position /\ g.gen = h.gen /\ g.seen = h.seen
      /\ g.at = h.at /\ g.left = h.left \ {e}
      /\ w.position = h.position /\ w.gen = h.gen /\ w.seen = h.seen
      /\ w.at = "writing" /\ w.left = h.left \ {e} /\ w.event = e
  BY <1>1 DEF Handler
<1>3. h.at = "listed" /\ UNCHANGED <<row, passed>>
  BY DEF Read, eventVars
<1>4. /\ covered' \in [Event -> Nat]
      /\ \A d \in Event : covered[d] <= covered'[d]
  BY <1>3, ConfirmedGrows DEF Read
<1>5. NothingIsUnknown'
  <2>1. ASSUME row # None, row.position # None, NEW d \in Event
        PROVE  row.position.at[d] <= covered'[d]
    <3>1. row.position.at[d] \in Nat /\ row.position.at[d] <= covered[d]
      BY <2>1 DEF Coverage, NothingIsUnknown, TypeOK, Row, Position
    <3>2. QED
      BY <1>1, <1>4, <3>1
  <2>2. QED
    BY <1>3, <2>1 DEF NothingIsUnknown
<1>6. CASE ~Current(h)
  <2>1. Leaves(h)
    BY <1>6 DEF Read
  <2>2. g.at \in {"listed", "writing"} /\ row' # None /\ row'.gen = g.gen => FALSE
    BY <1>2, <1>3, <1>6 DEF Current
  <2> HIDE DEF g
  <2>3. QED
    BY <1>2, <1>3, <1>4, <1>5, <2>1, <2>2, HandlerCoverage
<1>7. CASE Current(h) /\ shown[e] # None /\ shown[e][2] = h.seen[e]
  <2>1. Becomes(h, g) /\ confirmed' = Confirmed(h, e)
    BY <1>7 DEF Read
  <2>2. ASSUME NEW d \in Event
        PROVE  d \in g.left \/ g.seen[d] <= covered'[d]
    <3>1. h.seen[e] <= covered'[e]
      BY <1>3, <2>1, ConfirmedGrows
    <3>2. d \in h.left \/ h.seen[d] <= covered[d]
      BY <1>3, <1>7 DEF Coverage
    <3>3. h.seen[d] \in Nat /\ covered[d] \in Nat /\ covered'[d] \in Nat
      BY <1>1, <1>4 DEF Handler
    <3>4. QED
      BY <1>2, <1>4, <3>1, <3>2, <3>3
  <2> HIDE DEF g
  <2>3. QED
    BY <1>2, <1>3, <1>4, <1>5, <2>1, <2>2, HandlerCoverage
<1>8. CASE Current(h) /\ ~(shown[e] # None /\ shown[e][2] = h.seen[e])
  <2>1. Becomes(h, w) /\ UNCHANGED covered
    BY <1>3, <1>8, CoveredStays DEF Read
  <2>2. ASSUME NEW d \in Event
        PROVE  d \in w.left \/ d = w.event \/ w.seen[d] <= covered'[d]
    BY <1>2, <1>3, <1>8, <2>1 DEF Coverage
  <2> HIDE DEF w
  <2>3. QED
    BY <1>2, <1>3, <1>4, <1>5, <2>1, <2>2, HandlerCoverage
<1>9. QED
  BY <1>6, <1>7, <1>8

LEMMA WriteCoverage ==
    ASSUME TypeOK, Coverage, NEW h \in work, Write(h)
    PROVE  Coverage'
<1>1. h \in Handler /\ covered \in [Event -> Nat]
  BY CoveredType DEF TypeOK
<1> DEFINE g == [h EXCEPT !.at = "listed", !.event = None]
<1>2. /\ g.position = h.position /\ g.gen = h.gen /\ g.seen = h.seen
      /\ g.at = "listed" /\ g.left = h.left
  BY <1>1 DEF Handler
<1>3. h.at = "writing" /\ Becomes(h, g) /\ UNCHANGED <<row, passed>>
  BY DEF Write, eventVars
<1>4. /\ covered' \in [Event -> Nat]
      /\ \A d \in Event : covered[d] <= covered'[d]
      /\ Current(h) /\ h.event \in Event => h.seen[h.event] <= covered'[h.event]
  <2>1. CASE ~Current(h)
    <3>1. confirmed' = confirmed
      BY <2>1 DEF Write
    <3>2. QED
      BY <1>3, <2>1, <3>1, ConfirmedGrows
  <2>2. CASE Current(h)
    <3>1. confirmed' = Confirmed(h, h.event)
      BY <2>2 DEF Write
    <3>2. QED
      BY <1>3, <3>1, ConfirmedGrows
  <2>3. QED
    BY <2>1, <2>2
<1>5. NothingIsUnknown'
  <2>1. ASSUME row # None, row.position # None, NEW d \in Event
        PROVE  row.position.at[d] <= covered'[d]
    <3>1. row.position.at[d] \in Nat /\ row.position.at[d] <= covered[d]
      BY <2>1 DEF Coverage, NothingIsUnknown, TypeOK, Row, Position
    <3>2. QED
      BY <1>1, <1>4, <3>1
  <2>2. QED
    BY <1>3, <2>1 DEF NothingIsUnknown
<1>6. ASSUME row' # None /\ row'.gen = g.gen, NEW d \in Event
      PROVE  d \in g.left \/ g.seen[d] <= covered'[d]
  <2>1. Current(h)
    BY <1>2, <1>3, <1>6 DEF Current
  <2>2. d \in h.left \/ d = h.event \/ h.seen[d] <= covered[d]
    BY <1>3, <2>1 DEF Coverage
  <2>3. h.seen[d] \in Nat /\ covered[d] \in Nat /\ covered'[d] \in Nat
    BY <1>1, <1>4 DEF Handler
  <2>4. QED
    BY <1>2, <1>4, <2>1, <2>2, <2>3
<1> HIDE DEF g
<1>7. QED
  BY <1>2, <1>3, <1>4, <1>5, <1>6, HandlerCoverage

\* What Google will not list again has been shown, or its event was over when a
\* sync without a position left it out: no other answer is skipped by a sync that
\* was interrupted, overtaken by another or late for a connection.
THEOREM CoverageCorrect == Spec => []NothingIsSkipped
<1>1. Init => Coverage
  BY DEF Init, Coverage, NothingIsUnknown
<1>2. TypeOK /\ Lineage /\ PassedAreOver /\ Coverage /\ [Next]_vars => Coverage'
  <2> SUFFICES ASSUME TypeOK, Lineage, PassedAreOver, Coverage, [Next]_vars PROVE Coverage'
    OBVIOUS
  <2>a. covered \in [Event -> Nat]
    BY CoveredType
  <2> USE CoveredStays DEF eventVars
  <2>1. CASE Connect
    <3>1. /\ made.gen \in Nat
          /\ row'.gen = made.gen + 1 /\ row'.position = None
          /\ UNCHANGED <<covered, work>>
      BY <2>1 DEF Connect, TypeOK
    <3>2. \A h \in work : h.gen \in Nat /\ h.gen <= made.gen
      BY DEF TypeOK, Handler, Lineage
    <3>3. \A h \in work : ~Current(h)'
      BY <3>1, <3>2 DEF Current
    <3>4. NothingIsUnknown'
      BY <3>1 DEF NothingIsUnknown
    <3>5. QED
      BY <3>1, <3>3, <3>4 DEF Coverage, Covers
  <2>2. CASE Disconnect
    BY <2>2, StartCoverage DEF Disconnect
  <2>3. CASE Setup
    BY <2>3, StartCoverage DEF Setup
  <2>4. ASSUME NEW c \in open, Notify(c) PROVE Coverage'
    BY <2>4, StartCoverage DEF Notify
  <2>5. ASSUME NEW h \in work, HandlerStep(h) PROVE Coverage'
    <3>1. h \in Handler /\ row \in Row \cup {None}
      BY DEF TypeOK
    <3> USE <3>1
    <3>b. UNCHANGED <<row, covered>> =>
              NothingIsUnknown' /\ (\A e \in Event : covered[e] <= covered'[e])
                                /\ covered' \in [Event -> Nat]
      BY <2>a DEF Coverage, NothingIsUnknown
    <3>2. CASE Refresh(h)
      <4> DEFINE fresh == <<h.gen, made'.access>>
                 g == [h EXCEPT !.access = fresh]
      <4>1. CASE row # None /\ row.access = h.access
        <5>1. /\ g.gen = h.gen /\ g.position = h.position /\ g.at = h.at
              /\ g.left = h.left /\ g.event = h.event /\ g.seen = h.seen
          BY DEF Handler
        <5>2. Becomes(h, g) /\ row' = [row EXCEPT !.access = fresh] /\ UNCHANGED covered
          BY <3>2, <4>1 DEF Refresh
        <5>3. row'.gen = row.gen /\ row'.position = row.position
          BY <4>1, <5>2 DEF Row
        <5> HIDE DEF fresh, g
        <5>4. /\ NothingIsUnknown'
              /\ \A e \in Event : covered[e] <= covered'[e]
              /\ covered' \in [Event -> Nat]
          BY <2>a, <4>1, <5>2, <5>3 DEF Coverage, NothingIsUnknown
        <5>5. g.at \in {"listed", "writing"} /\ row' # None /\ row'.gen = g.gen =>
                 \A e \in Event : \/ e \in g.left
                                  \/ g.at = "writing" /\ e = g.event
                                  \/ g.seen[e] <= covered'[e]
          BY <4>1, <5>1, <5>2, <5>3 DEF Coverage, Current
        <5>6. QED
          BY <4>1, <5>1, <5>2, <5>3, <5>4, <5>5, HandlerCoverage
      <4>2. CASE ~(row # None /\ row.access = h.access)
        BY <3>2, <4>2 DEF Refresh, Coverage, NothingIsUnknown, Covers, Current
      <4>3. QED
        BY <4>1, <4>2
    <3>3. CASE Drop(h)
      BY <3>3, <3>b DEF Drop, Leaves, Coverage, Covers, Current
    <3>4. CASE Delete(h)
      <4>1. CASE Current(h)
        <5>1. row' = None /\ UNCHANGED covered
              /\ Becomes(h, [h EXCEPT !.at = "stopping", !.made = row.channel])
          BY <3>4, <4>1 DEF Delete
        <5>2. [h EXCEPT !.at = "stopping", !.made = row.channel].position = h.position
          BY DEF Handler
        <5>3. NothingIsUnknown' /\ \A e \in Event : covered[e] <= covered'[e]
          BY <2>a, <5>1 DEF NothingIsUnknown
        <5>4. QED
          BY <2>a, <5>1, <5>2, <5>3, HandlerCoverage
      <4>2. CASE ~Current(h)
        BY <3>4, <3>b, <4>2 DEF Delete, Leaves, Coverage, Covers, Current
      <4>3. QED
        BY <4>1, <4>2
    <3>5. CASE StopOld(h)
      <4>1. /\ [h EXCEPT !.at = "stopped"].position = h.position
            /\ [h EXCEPT !.at = "stopped"].at = "stopped"
        BY DEF Handler
      <4>2. Becomes(h, [h EXCEPT !.at = "stopped"]) /\ UNCHANGED <<row, covered>>
        BY <3>5 DEF StopOld
      <4>3. QED
        BY <3>b, <4>1, <4>2, HandlerCoverage
    <3>6. CASE Watch(h)
      <4> DEFINE g == [h EXCEPT !.at = "watching", !.made = <<h.gen, made'.channel>>]
      <4>1. g.position = h.position /\ g.at = "watching"
        BY DEF Handler
      <4>2. Becomes(h, g) /\ UNCHANGED <<row, covered>>
        BY <3>6 DEF Watch
      <4> HIDE DEF g
      <4>3. QED
        BY <3>b, <4>1, <4>2, HandlerCoverage
    <3>7. CASE Store(h)
      <4> DEFINE s == [h EXCEPT !.kind = "sync", !.at = "begun"]
                 g == [h EXCEPT !.at = "stopping"]
      <4>1. /\ s.position = h.position /\ s.at = "begun"
            /\ g.position = h.position /\ g.at = "stopping"
        BY DEF Handler
      <4>2. CASE Current(h) /\ row.channel = h.channel
        <5>1. /\ row # None /\ row' = [row EXCEPT !.channel = h.made]
              /\ Becomes(h, s) /\ UNCHANGED covered
          BY <3>7, <4>2 DEF Store, Current
        <5>2. row'.gen = row.gen /\ row'.position = row.position
          BY <5>1 DEF Row
        <5> HIDE DEF s, g
        <5>3. /\ NothingIsUnknown'
              /\ \A e \in Event : covered[e] <= covered'[e]
          BY <2>a, <5>1, <5>2 DEF Coverage, NothingIsUnknown
        <5>4. QED
          BY <2>a, <4>1, <5>1, <5>2, <5>3, HandlerCoverage
      <4>3. CASE ~(Current(h) /\ row.channel = h.channel)
        <5>1. Becomes(h, g) /\ UNCHANGED <<row, covered>>
          BY <3>7, <4>3 DEF Store
        <5> HIDE DEF s, g
        <5>2. QED
          BY <3>b, <4>1, <5>1, HandlerCoverage
      <4>4. QED
        BY <4>2, <4>3
    <3>8. CASE StopMade(h)
      BY <3>8, <3>b DEF StopMade, Leaves, Coverage, Covers, Current
    <3>9. CASE Begin(h)
      <4>1. CASE row = None
        BY <3>9, <3>b, <4>1 DEF Begin, Leaves, Coverage, Covers, Current
      <4>2. CASE row # None
        <5> DEFINE g == Load("sync", "loaded")
        <5>1. g.position = row.position /\ g.at = "loaded"
          BY DEF Load
        <5>2. work' = (work \ {h}) \cup {g} /\ UNCHANGED <<row, covered>>
          BY <3>9, <4>2 DEF Begin, Becomes
        <5>3. row.position # None => Covers(row.position)
          BY <4>2 DEF Coverage, NothingIsUnknown, Covers
        <5> HIDE DEF g
        <5>4. QED
          BY <3>b, <5>1, <5>2, <5>3 DEF Coverage, Covers, Current
      <4>3. QED
        BY <4>1, <4>2
    <3>10. CASE List(h)
      <4> DEFINE due == IF h.position = None THEN Event \ over
                        ELSE {e \in Event : answer[e] > h.position.at[e]}
                 g == [h EXCEPT !.at = "listed", !.seen = answer, !.left = due]
      <4>1. Becomes(h, g) /\ UNCHANGED <<row, confirmed>>
        BY <3>10 DEF List
      <4>2. g.position = h.position /\ g.at = "listed" /\ g.seen = answer /\ g.left = due
        BY DEF Handler
      <4>3. /\ covered' \in [Event -> Nat]
            /\ \A e \in Event : covered[e] <= covered'[e]
            /\ h.position = None => \A e \in over \cap Event : answer[e] <= covered'[e]
        <5>1. CASE h.position = None
          <6>1. passed' = [e \in Event |-> IF e \in over /\ answer[e] > confirmed[e]
                                          THEN answer[e] ELSE passed[e]]
            BY <3>10, <5>1 DEF List
          <6>2. \A e \in Event : /\ answer[e] \in Nat /\ passed[e] \in Nat
                                  /\ confirmed[e] \in Nat
            BY DEF TypeOK
          <6>3. covered' = [e \in Event |-> IF passed'[e] > confirmed[e] THEN passed'[e]
                                           ELSE confirmed[e]]
            BY <4>1 DEF covered
          <6>4. \A e \in Event : passed[e] <= answer[e]
            BY DEF PassedAreOver
          <6>5. QED
            BY <6>1, <6>2, <6>3, <6>4 DEF covered
        <5>2. CASE h.position # None
          BY <2>a, <3>10, <4>1, <5>2 DEF List
        <5>3. QED
          BY <5>1, <5>2
      <4>4. ASSUME NEW e \in Event, e \notin due
            PROVE  answer[e] <= covered'[e]
        <5>1. CASE h.position = None
          BY <4>3, <4>4, <5>1
        <5>2. CASE h.position # None
          <6>1. ~(answer[e] > h.position.at[e])
            BY <4>4, <5>2
          <6>2. h.position.at \in [Event -> Nat] /\ answer[e] \in Nat
                /\ covered[e] \in Nat /\ covered'[e] \in Nat
            BY <2>a, <4>3, <5>2 DEF TypeOK, Handler, Position
          <6>3. h.position.at[e] <= covered[e]
            BY <5>2 DEF Coverage, Covers
          <6>4. QED
            BY <4>3, <6>1, <6>2, <6>3
        <5>3. QED
          BY <5>1, <5>2
      <4>5. NothingIsUnknown'
        <5>1. ASSUME row # None, row.position # None, NEW e \in Event
              PROVE  row.position.at[e] <= covered'[e]
          <6>1. row.position.at[e] \in Nat /\ row.position.at[e] <= covered[e]
            BY <5>1 DEF Coverage, NothingIsUnknown, TypeOK, Row, Position
          <6>2. QED
            BY <2>a, <4>3, <6>1
        <5>2. QED
          BY <4>1, <5>1 DEF NothingIsUnknown
      <4> HIDE DEF g, due
      <4>6. QED
        BY <4>1, <4>2, <4>3, <4>4, <4>5, HandlerCoverage
    <3>11. CASE Expired(h)
      <4> DEFINE g == [h EXCEPT !.at = "begun"]
      <4>1. g.position = h.position /\ g.at = "begun"
        BY DEF Handler
      <4>2. CASE Current(h)
        <5>1. /\ row # None /\ row' = [row EXCEPT !.position = None]
              /\ Becomes(h, g) /\ UNCHANGED covered
          BY <3>11, <4>2 DEF Expired, Current
        <5>2. row'.gen = row.gen /\ row'.position = None
          BY <5>1 DEF Row
        <5> HIDE DEF g
        <5>3. NothingIsUnknown' /\ \A e \in Event : covered[e] <= covered'[e]
          BY <2>a, <5>1, <5>2 DEF NothingIsUnknown
        <5>4. QED
          BY <2>a, <4>1, <5>1, <5>2, <5>3, HandlerCoverage
      <4>3. CASE ~Current(h)
        BY <3>11, <3>b, <4>3 DEF Expired, Leaves, Coverage, Covers, Current
      <4>4. QED
        BY <4>2, <4>3
    <3>12. ASSUME NEW e \in Event, Read(h, e) PROVE Coverage'
      BY <2>a, <3>12, ReadCoverage
    <3>13. CASE Write(h)
      BY <2>a, <3>13, WriteCoverage
    <3>14. CASE Save(h)
      <4>1. CASE Current(h)
        <5>1. /\ row # None /\ row' = [row EXCEPT !.position = [gen |-> h.gen, at |-> h.seen]]
              /\ h.at = "listed" /\ h.left = {} /\ Leaves(h) /\ UNCHANGED covered
          BY <3>14, <4>1 DEF Save, Current
        <5>2. row'.gen = row.gen /\ row'.position.at = h.seen
          BY <5>1 DEF Row
        <5>3. \A e \in Event : h.seen[e] <= covered[e]
          BY <4>1, <5>1 DEF Coverage
        <5>4. NothingIsUnknown'
          BY <5>1, <5>2, <5>3 DEF NothingIsUnknown
        <5>5. \A k \in work' : k \in work
          BY <5>1 DEF Leaves
        <5>6. QED
          BY <5>1, <5>2, <5>4, <5>5 DEF Coverage, Covers, Current
      <4>2. CASE ~Current(h)
        BY <3>14, <3>b, <4>2 DEF Save, Leaves, Coverage, Covers, Current
      <4>3. QED
        BY <4>1, <4>2
    <3>15. QED
      BY <2>5, <3>2, <3>3, <3>4, <3>5, <3>6, <3>7, <3>8, <3>9, <3>10, <3>11,
         <3>12, <3>13, <3>14 DEF HandlerStep
  <2>6. ASSUME NEW e \in Event, Answer(e) PROVE Coverage'
    BY <2>6 DEF Answer, Coverage, NothingIsUnknown, Covers, Current
  <2>7. ASSUME NEW e \in Event, EventEnds(e) \/ Respond(e) PROVE Coverage'
    BY <2>7 DEF EventEnds, Respond, Coverage, NothingIsUnknown, Covers, Current
  <2>8. CASE UNCHANGED vars
    BY <2>8 DEF vars, Coverage, NothingIsUnknown, Covers, Current
  <2>9. QED
    BY <2>1, <2>2, <2>3, <2>4, <2>5, <2>6, <2>7, <2>8 DEF Next
<1>3. TypeOK /\ Lineage /\ [Next]_vars => Lineage'
  BY LineageStep
<1>4. Init => Lineage
  BY DEF Init, Lineage, RowIsOneConnection
<1>5. Init => PassedAreOver
  BY DEF Init, PassedAreOver
<1>6. TypeOK /\ PassedAreOver /\ [Next]_vars => PassedAreOver'
  BY PassedStep
<1>7. TypeOK /\ Coverage /\ PassedAreOver => NothingIsSkipped
  <2> SUFFICES ASSUME TypeOK, Coverage, PassedAreOver, row # None, row.position # None,
                      NEW e \in Event
               PROVE  \/ row.position.at[e] <= confirmed[e]
                      \/ e \in over /\ row.position.at[e] <= passed[e]
    BY DEF NothingIsSkipped
  <2>1. row.position.at[e] \in Nat /\ passed[e] \in Nat /\ confirmed[e] \in Nat
    BY DEF TypeOK, Row, Position
  <2>2. row.position.at[e] <= covered[e]
    BY DEF Coverage, NothingIsUnknown
  <2>3. QED
    BY <2>1, <2>2 DEF covered, PassedAreOver
<1>8. QED
  BY <1>1, <1>2, <1>3, <1>4, <1>5, <1>6, <1>7, CalendarTypeCorrect, PTL DEF Spec

-----------------------------------------------------------------------------
(* What a sync of the current connection is about to write is no older than  *)
(* what a sync of another connection has written: it was listed later.       *)

Freshness ==
    /\ \A e \in Event : shown[e] # None => shown[e][2] <= answer[e]
    /\ \A h \in work : h.at \in {"listed", "writing"} /\ Current(h) =>
           \A e \in Event : shown[e] # None /\ shown[e][1] # h.gen =>
               shown[e][2] <= h.seen[e]
    /\ \A h \in work : h.at \in {"listed", "writing"} =>
           \A e \in Event : h.seen[e] <= answer[e]

\* A handler goes on with the answers it has listed, if it has listed any.
LEMMA KeepsFresh ==
    ASSUME TypeOK, Freshness, UNCHANGED <<answer, shown>>,
           row' # None => row # None /\ row'.gen = row.gen,
           \A g \in work' : \/ g.at \notin {"listed", "writing"}
                            \/ \E h \in work : /\ h.at \in {"listed", "writing"}
                                               /\ g.gen = h.gen /\ g.seen = h.seen
    PROVE  Freshness'
  BY DEF Freshness, Current

LEMMA FreshStep == TypeOK /\ Lineage /\ Freshness /\ [Next]_vars => Freshness'
<1> SUFFICES ASSUME TypeOK, Lineage, Freshness, [Next]_vars PROVE Freshness'
  OBVIOUS
<1> USE DEF eventVars
<1>a. /\ work \subseteq Handler /\ row \in Row \cup {None}
      /\ answer \in [Event -> Nat] /\ shown \in [Event -> (Nat \X Nat) \cup {None}]
  BY DEF TypeOK
<1>1. CASE Connect
  <2>1. /\ row'.gen = made.gen + 1 /\ UNCHANGED <<answer, shown, work>>
    BY <1>1 DEF Connect
  <2>2. \A h \in work : h.gen \in Nat /\ h.gen <= made.gen /\ made.gen \in Nat
    BY DEF TypeOK, Handler, Lineage
  <2>3. \A h \in work : ~Current(h)'
    BY <2>1, <2>2 DEF Current
  <2>4. QED
    BY <2>1, <2>3 DEF Freshness
<1>2. CASE Disconnect \/ Setup \/ \E c \in open : Notify(c)
  <2>1. /\ UNCHANGED <<row, answer, shown>>
        /\ \/ work' = work \cup {Load("disconnect", "loaded")}
           \/ work' = work \cup {Load("setup", "loaded")}
           \/ work' = work \cup {Load("sync", "begun")}
    BY <1>2 DEF Disconnect, Setup, Notify
  <2>2. \A g \in work' : g \in work \/ g.at \in {"loaded", "begun"}
    BY <2>1 DEF Load
  <2>3. QED
    BY <2>1, <2>2, KeepsFresh
<1>3. ASSUME NEW h \in work, HandlerStep(h) PROVE Freshness'
  <2>0. h \in Handler
    BY <1>a
  <2>1. CASE Refresh(h)
    <3>1. PICK x : work' \subseteq work \cup {[h EXCEPT !.access = x]}
      BY <2>1, Zenon DEF Refresh, Becomes
    <3>2. \A g \in work' : \/ g \in work
                           \/ g.at = h.at /\ g.gen = h.gen /\ g.seen = h.seen
      BY <2>0, <3>1 DEF Handler
    <3>3. /\ h \in work /\ h.at \in {"loaded", "stopped", "stopping", "listed"}
          /\ UNCHANGED <<answer, shown>>
          /\ row' # None => row # None /\ row'.gen = row.gen
      BY <1>3, <1>a, <2>1 DEF Refresh, CallsGoogle, Row
    <3>4. \A g \in work' : \/ g.at \notin {"listed", "writing"}
                           \/ \E f \in work : /\ f.at \in {"listed", "writing"}
                                              /\ g.gen = f.gen /\ g.seen = f.seen
      BY <3>2, <3>3
    <3>5. QED
      BY <3>3, <3>4, KeepsFresh
  <2>2. CASE Drop(h) \/ Delete(h) \/ StopOld(h) \/ Watch(h) \/ Store(h) \/ StopMade(h)
             \/ Begin(h) \/ Expired(h) \/ Save(h)
    <3>1. \A g \in work' : g \in work \/ g.at \notin {"listed", "writing"}
      <4>1. Load("sync", "loaded").at = "loaded"
        BY DEF Load
      <4>2. CASE Drop(h) \/ StopMade(h) \/ Save(h)
        BY <4>2 DEF Drop, StopMade, Save, Leaves
      <4>3. CASE Delete(h) \/ StopOld(h) \/ Watch(h) \/ Expired(h)
        <5>1. PICK x, y, z : work' \subseteq work \cup
                  {[h EXCEPT !.at = "stopping", !.made = x], [h EXCEPT !.at = "stopped"],
                   [h EXCEPT !.at = "watching", !.made = y], [h EXCEPT !.at = "begun"]}
          BY <4>3, Zenon DEF Delete, StopOld, Watch, Expired, Becomes, Leaves
        <5>2. /\ [h EXCEPT !.at = "stopping", !.made = x].at = "stopping"
              /\ [h EXCEPT !.at = "watching", !.made = y].at = "watching"
              /\ [h EXCEPT !.at = "stopped"].at = "stopped"
              /\ [h EXCEPT !.at = "begun"].at = "begun"
          BY <2>0 DEF Handler
        <5>3. QED
          BY <5>1, <5>2
      <4>4. CASE Store(h)
        <5>1. work' \subseteq work \cup {[h EXCEPT !.kind = "sync", !.at = "begun"],
                                         [h EXCEPT !.at = "stopping"]}
          BY <4>4, Zenon DEF Store, Becomes
        <5>2. /\ [h EXCEPT !.kind = "sync", !.at = "begun"].at = "begun"
              /\ [h EXCEPT !.at = "stopping"].at = "stopping"
          BY <2>0 DEF Handler
        <5>3. QED
          BY <5>1, <5>2
      <4>5. CASE Begin(h)
        BY <4>1, <4>5 DEF Begin, Becomes, Leaves
      <4>6. QED
        BY <2>2, <4>2, <4>3, <4>4, <4>5
    <3>2. /\ UNCHANGED <<answer, shown>>
          /\ row' # None => row # None /\ row'.gen = row.gen
      BY <1>a, <2>2 DEF Drop, Delete, StopOld, Watch, Store, StopMade, Begin, Expired, Save,
         Current, Row
    <3>3. QED
      BY <3>1, <3>2, KeepsFresh
  <2>3. CASE List(h)
    <3>1. PICK x : work' = (work \ {h}) \cup {[h EXCEPT !.at = "listed", !.seen = answer,
                                                       !.left = x]}
      BY <2>3 DEF List, Becomes
    <3>2. [h EXCEPT !.at = "listed", !.seen = answer, !.left = x].seen = answer
      BY <2>0 DEF Handler
    <3>3. /\ UNCHANGED <<row, answer, shown>>
          /\ \A g \in work' : g \in work \/ g.seen = answer
      BY <2>3, <3>1, <3>2 DEF List
    <3>4. \A e \in Event : answer[e] <= answer[e]
      BY <1>a
    <3>5. QED
      BY <3>3, <3>4 DEF Freshness, Current
  <2>4. ASSUME NEW e \in Event, Read(h, e) PROVE Freshness'
    <3>1. /\ h \in work /\ h.at = "listed" /\ UNCHANGED <<row, answer, shown>>
          /\ \A g \in work' : g \in work \/ (g.gen = h.gen /\ g.seen = h.seen)
      <4>1. work' \subseteq work \cup {[h EXCEPT !.left = @ \ {e}],
                [h EXCEPT !.at = "writing", !.left = @ \ {e}, !.event = e]}
        BY <2>4, Zenon DEF Read, Becomes, Leaves
      <4>2. /\ [h EXCEPT !.left = @ \ {e}].gen = h.gen
            /\ [h EXCEPT !.left = @ \ {e}].seen = h.seen
            /\ [h EXCEPT !.at = "writing", !.left = @ \ {e}, !.event = e].gen = h.gen
            /\ [h EXCEPT !.at = "writing", !.left = @ \ {e}, !.event = e].seen = h.seen
        BY <2>0 DEF Handler
      <4>3. QED
        BY <1>3, <2>4, <4>1, <4>2 DEF Read
    <3>2. QED
      BY <3>1, KeepsFresh
  <2>5. CASE Write(h)
    <3>1. /\ h \in work /\ h.at = "writing" /\ UNCHANGED <<row, answer>>
          /\ \A g \in work' : g \in work \/ (g.gen = h.gen /\ g.seen = h.seen)
      <4>1. /\ [h EXCEPT !.at = "listed", !.event = None].gen = h.gen
            /\ [h EXCEPT !.at = "listed", !.event = None].seen = h.seen
        BY <2>0 DEF Handler
      <4>2. QED
        BY <1>3, <2>5, <4>1 DEF Write, Becomes
    <3>2. CASE ~Current(h)
      BY <2>5, <3>1, <3>2, KeepsFresh DEF Write
    <3>3. CASE Current(h)
      <4>1. shown' = [shown EXCEPT ![h.event] = <<h.gen, h.seen[h.event]>>]
        BY <2>5, <3>3 DEF Write
      <4>2. \A e \in Event : shown'[e] = shown[e] \/ shown'[e] = <<h.gen, h.seen[e]>>
        BY <1>a, <4>1
      <4>3. \A e \in Event : h.seen[e] <= answer[e]
        BY <3>1 DEF Freshness
      <4>4. \A g \in work : Current(g)' => Current(g) /\ g.gen = h.gen
        BY <3>1, <3>3 DEF Current
      <4>5. \A e \in Event : shown'[e] # None => shown'[e][2] <= answer'[e]
        BY <3>1, <4>2, <4>3 DEF Freshness
      <4>6. ASSUME NEW g \in work', g.at \in {"listed", "writing"}, Current(g)',
                   NEW e \in Event, shown'[e] # None, shown'[e][1] # g.gen
            PROVE  shown'[e][2] <= g.seen[e]
        <5>1. CASE g \in work
          <6>1. shown'[e] = shown[e]
            BY <4>2, <4>4, <4>6, <5>1
          <6>2. QED
            BY <4>4, <4>6, <5>1, <6>1 DEF Freshness
        <5>2. CASE g \notin work
          <6>1. g.gen = h.gen /\ g.seen = h.seen
            BY <3>1, <4>6, <5>2
          <6>2. shown'[e] = shown[e]
            BY <4>2, <4>6, <6>1
          <6>3. QED
            BY <3>1, <3>3, <4>6, <6>1, <6>2 DEF Freshness
        <5>3. QED
          BY <5>1, <5>2
      <4>7. \A g \in work' : g.at \in {"listed", "writing"} =>
                \A e \in Event : g.seen[e] <= answer'[e]
        BY <3>1, <4>3 DEF Freshness
      <4>8. QED
        BY <4>5, <4>6, <4>7 DEF Freshness
    <3>4. QED
      BY <3>2, <3>3
  <2>6. QED
    BY <1>3, <2>1, <2>2, <2>3, <2>4, <2>5 DEF HandlerStep
<1>4. ASSUME NEW e \in Event, Answer(e) PROVE Freshness'
  <2>1. /\ UNCHANGED <<row, shown, work>> /\ answer' \in [Event -> Nat]
        /\ \A d \in Event : answer[d] <= answer'[d]
    BY <1>4, <1>a DEF Answer
  <2>2. \A d \in Event : shown[d] # None => shown[d][2] \in Nat
    BY <1>a
  <2>3. \A h \in work : h.seen \in [Event -> Nat]
    BY <1>a DEF Handler
  <2>4. QED
    BY <1>a, <2>1, <2>2, <2>3 DEF Freshness, Current
<1>5. ASSUME NEW e \in Event, Respond(e) PROVE Freshness'
  BY <1>5, <1>a DEF Respond, Freshness, Current
<1>6. CASE UNCHANGED vars \/ \E e \in Event : EventEnds(e)
  BY <1>6, KeepsFresh DEF vars, EventEnds
<1>7. QED
  BY <1>1, <1>2, <1>3, <1>4, <1>5, <1>6 DEF Next

\* No sync that is late for a connection undoes what the syncs of another one
\* have shown: an older answer comes back only between syncs of one connection.
THEOREM NewerAnswersCorrect == Spec => NewerAnswersStand
<1> DEFINE Stand == \A e \in Event : /\ shown[e] # None /\ shown'[e] # None
                                     /\ shown'[e][2] < shown[e][2]
                                     => shown'[e][1] = shown[e][1]
<1>1. TypeOK /\ Lineage /\ Freshness /\ [Next]_vars => Stand
  <2> SUFFICES ASSUME TypeOK, Lineage, Freshness, [Next]_vars, NEW e \in Event,
                      shown[e] # None, shown'[e] # None, shown'[e][2] < shown[e][2]
               PROVE  shown'[e][1] = shown[e][1]
    OBVIOUS
  <2>a. shown \in [Event -> (Nat \X Nat) \cup {None}] /\ work \subseteq Handler
    BY DEF TypeOK
  <2>b. shown' # shown
    BY <2>a
  <2>1. PICK h \in work : Write(h)
    <3>1. ~\E d \in Event : Respond(d)
      BY <2>a, CalendarAssumption DEF Respond
    <3>2. QED
      BY <2>b, <3>1 DEF Next, HandlerStep, vars, Connect, Disconnect, Setup, Notify,
         Refresh, Drop, Delete, StopOld, Watch, Store, StopMade, Begin, List, Expired,
         Read, Save, Answer, EventEnds
  <2>2. /\ Current(h) /\ h.at = "writing"
        /\ shown' = [shown EXCEPT ![h.event] = <<h.gen, h.seen[h.event]>>]
    BY <2>1, <2>b DEF Write
  <2>3. e = h.event /\ shown'[e] = <<h.gen, h.seen[e]>>
    BY <2>2, <2>a
  <2>4. shown[e][1] # h.gen => shown[e][2] <= h.seen[e]
    BY <2>2 DEF Freshness
  <2>5. shown[e][2] \in Nat /\ h.seen[e] \in Nat
    BY <2>a DEF Handler
  <2>6. QED
    BY <2>3, <2>4, <2>5
<1>2. Init => Lineage /\ Freshness
  BY CalendarAssumption DEF Init, Lineage, RowIsOneConnection, Freshness
<1>3. TypeOK /\ Lineage /\ [Next]_vars => Lineage'
  BY LineageStep
<1>4. TypeOK /\ Lineage /\ Freshness /\ [Next]_vars => Freshness'
  BY FreshStep
<1>5. QED
  BY <1>1, <1>2, <1>3, <1>4, CalendarTypeCorrect, PTL DEF Spec, NewerAnswersStand
=============================================================================
