---------------------------- MODULE EventsProofs ----------------------------
(***************************************************************************)
(* The two computations of dates agree on every event and range,           *)
(* attendance stays on dates of its event until a request writes that was  *)
(* overtaken, and an event ends once, flag and last day together, unless   *)
(* a request lasts over a midnight: for any number of requests and days.   *)
(***************************************************************************)
EXTENDS Events, TLAPS

USE EventsAssumption

-----------------------------------------------------------------------------
(* Rows and dates.                                                         *)

\* A row that exists has a kind.
LEMMA EventExists == \A e \in Event : e # NoEvent
BY DEF Event, NoEvent, Kinds

\* What a save makes of a row, column by column.
LEMMA WrittenEvent ==
  ASSUME NEW e \in Event, NEW c \in Event, NEW cs
  PROVE  /\ Written(e, c, cs) \in Event
         /\ Written(e, c, cs).kind = IF "kind" \in cs THEN c.kind ELSE e.kind
         /\ Written(e, c, cs).startDate = IF "startDate" \in cs THEN c.startDate ELSE e.startDate
         /\ Written(e, c, cs).weekdays = IF "weekdays" \in cs THEN c.weekdays ELSE e.weekdays
         /\ Written(e, c, cs).active = IF "active" \in cs THEN c.active ELSE e.active
         /\ Written(e, c, cs).endedOn = IF "endedOn" \in cs THEN c.endedOn ELSE e.endedOn
<1>1. DOMAIN e = {"kind", "startDate", "weekdays", "active", "endedOn"}
  BY DEF Event
<1>2. Written(e, c, cs) =
        [kind      |-> IF "kind" \in cs THEN c.kind ELSE e.kind,
         startDate |-> IF "startDate" \in cs THEN c.startDate ELSE e.startDate,
         weekdays  |-> IF "weekdays" \in cs THEN c.weekdays ELSE e.weekdays,
         active    |-> IF "active" \in cs THEN c.active ELSE e.active,
         endedOn   |-> IF "endedOn" \in cs THEN c.endedOn ELSE e.endedOn]
  BY <1>1 DEF Written
<1>3. /\ c.active \in BOOLEAN /\ e.active \in BOOLEAN
      /\ c.kind \in Kinds /\ e.kind \in Kinds
      /\ c.startDate \in Dates /\ e.startDate \in Dates
      /\ c.weekdays \in SUBSET (0 .. 6) /\ e.weekdays \in SUBSET (0 .. 6)
      /\ c.endedOn \in Dates \cup {NoDate} /\ e.endedOn \in Dates \cup {NoDate}
  BY DEF Event
<1>4. (IF "active" \in cs THEN c.active ELSE e.active) \in BOOLEAN
  BY <1>3
<1> QED
  BY <1>2, <1>3, <1>4 DEF Event

\* What ListAgrees says, of any event, range and day: the loop of `occurrences`
\* visits the very dates that `setAttendance` accepts.
LEMMA SameDates ==
  ASSUME NEW e \in Event, NEW from \in Int, NEW to \in Int, NEW day \in Dates
  PROVE  OccurrenceDates(e, from, to, day) = {d \in from .. to : IsOccurrence(e, d, day)}
<1>1. /\ e.startDate \in Int /\ day \in Int /\ e.kind \in Kinds
      /\ e.endedOn \in Int \cup {NoDate}
  BY DEF Event, Dates
<1>2. PICK last \in Int : last = UpperBound(e, day)
  BY <1>1 DEF UpperBound, Earlier
<1>3. CASE e.kind = "one_off"
  BY <1>1, <1>3 DEF OccurrenceDates, IsOccurrence
<1>4. CASE e.kind # "one_off"
  <2>1. \A d : d \in OccurrenceDates(e, from, to, day) <=>
                 d \in Later(e.startDate, from) .. Earlier(last, to) /\ WeekdayOf(d) \in e.weekdays
    BY <1>2, <1>4 DEF OccurrenceDates
  <2>2. \A d \in Int : IsOccurrence(e, d, day) <=>
                 e.startDate <= d /\ d <= last /\ WeekdayOf(d) \in e.weekdays
    BY <1>2, <1>4 DEF IsOccurrence
  <2>3. \A d : d \in Later(e.startDate, from) .. Earlier(last, to) <=>
                 d \in from .. to /\ e.startDate <= d /\ d <= last
    BY <1>1, <1>2 DEF Later, Earlier
  <2>4. \A d : d \in OccurrenceDates(e, from, to, day) <=>
                 d \in from .. to /\ IsOccurrence(e, d, day)
    BY <2>1, <2>2, <2>3
  <2> QED
    BY <2>4
<1> QED
  BY <1>3, <1>4

\* A date of an event stays one when the event ends today or goes on.
LEMMA StillOccurrence ==
  ASSUME NEW e \in Event, NEW f \in Event, NEW day \in Dates, NEW d \in Dates,
         SameSchedule(e, f), d <= day,
         f.endedOn = e.endedOn \/ f.endedOn \in {NoDate, day},
         IsOccurrence(e, d, day)
  PROVE  IsOccurrence(f, d, day)
<1>1. e.endedOn \in Int \cup {NoDate} /\ f.endedOn \in Int \cup {NoDate} /\ day \in Int /\ d \in Int
  BY DEF Event, Dates
<1>2. CASE e.kind = "one_off"
  BY <1>2 DEF SameSchedule, IsOccurrence
<1>3. CASE e.kind # "one_off"
  <2>1. d <= UpperBound(f, day)
    BY <1>1, <1>3 DEF IsOccurrence, UpperBound, Earlier
  <2> QED
    BY <1>3, <2>1 DEF SameSchedule, IsOccurrence
<1> QED
  BY <1>2, <1>3

\* It stays one on the day after.
LEMMA NextDay ==
  ASSUME NEW e \in Event, NEW day \in Dates, NEW d \in Dates, day + 1 \in Dates,
         IsOccurrence(e, d, day)
  PROVE  IsOccurrence(e, d, day + 1)
<1>1. e.endedOn \in Int \cup {NoDate} /\ day \in Int /\ d \in Int
  BY DEF Event, Dates
<1>2. CASE e.kind = "one_off"
  BY <1>2 DEF IsOccurrence
<1>3. CASE e.kind # "one_off"
  <2>1. d <= UpperBound(e, day + 1)
    BY <1>1, <1>3 DEF IsOccurrence, UpperBound, Earlier
  <2> QED
    BY <1>3, <2>1 DEF IsOccurrence
<1> QED
  BY <1>2, <1>3

-----------------------------------------------------------------------------
(* Types.                                                                  *)

\* Whoever edits an event found it, whoever loads attendance has its date.
EditsFound ==
  \A r \in Requests : /\ Editing(r) => event \in Event /\ copy[r] \in Event
                      /\ Loading(r) => date[r] \in Dates

LEMMA InitTypes == Init => TypeOK /\ EditsFound
<1> SUFFICES ASSUME Init PROVE TypeOK /\ EditsFound
  OBVIOUS
<1>1. NoEvent \in Event \cup {NoEvent} /\ FirstDay \in Dates
  BY DEF Dates
<1>2. TypeOK
  BY <1>1 DEF Init, TypeOK, Steps
<1>3. EditsFound
  BY DEF Init, EditsFound, Editing, Loading
<1> QED
  BY <1>2, <1>3

\* A request that ends forgets its copy.
LEMMA EndTypes ==
  ASSUME TypeOK, EditsFound, NEW r \in Requests, End(r),
         event' \in Event \cup {NoEvent}, event \in Event => event' \in Event
  PROVE  EditsFound'
<1>1. \A q \in Requests : pc'[q] # "out" => 
          pc'[q] = pc[q] /\ copy'[q] = copy[q] /\ date'[q] = date[q]
  BY DEF TypeOK, End
<1> QED
  BY <1>1 DEF EditsFound, Editing, Loading

LEMMA NextTypes == TypeOK /\ EditsFound /\ [Next]_vars => TypeOK' /\ EditsFound'
<1> SUFFICES ASSUME TypeOK, EditsFound, [Next]_vars PROVE TypeOK' /\ EditsFound'
  OBVIOUS
<1>1. ASSUME NEW r \in Requests, NEW kind \in Kinds, NEW start \in Dates,
             NEW days \in WeekdayChoices \cup {event.weekdays}, BeginUpdate(r, kind, start, days)
      PROVE  TypeOK' /\ EditsFound'
  <2>1. event \in Event
    BY <1>1 DEF BeginUpdate, TypeOK
  <2>2. PICK wd \in SUBSET (0 .. 6) : wd = IF kind = "one_off" THEN {} ELSE days
    BY <2>1 DEF Event
  <2>3. [event EXCEPT !.kind = kind, !.startDate = start, !.weekdays = wd] \in Event
    BY <2>1, <2>2 DEF Event
  <2> QED
    BY <1>1, <2>1, <2>2, <2>3
    DEF BeginUpdate, Goto, TypeOK, EditsFound, Editing, Loading, Steps
<1>2. ASSUME NEW r \in Requests, BeginDeactivate(r) PROVE TypeOK' /\ EditsFound'
  <2>1. event \in Event /\ [event EXCEPT !.active = FALSE, !.endedOn = today] \in Event
    BY <1>2 DEF BeginDeactivate, TypeOK, Event
  <2> QED
    BY <1>2, <2>1 DEF BeginDeactivate, Goto, TypeOK, EditsFound, Editing, Loading, Steps
<1>3. ASSUME NEW r \in Requests, CountAttendance(r) PROVE TypeOK' /\ EditsFound'
  BY <1>3 DEF CountAttendance, Goto, TypeOK, EditsFound, Editing, Loading, Steps
<1>4. ASSUME NEW r \in Requests, Save(r) PROVE TypeOK' /\ EditsFound'
  <2>1. event \in Event
    BY <1>4 DEF Save, Goto, EditsFound, Editing, Loading
  <2>2. Dirty(copy[r], event) \in SUBSET {"kind", "startDate", "weekdays", "active", "endedOn"}
    BY <2>1 DEF Dirty, Event
  <2> QED
    BY <1>4, <2>1, <2>2 DEF Save, Goto, TypeOK, EditsFound, Editing, Loading, Steps
<1>5. ASSUME NEW r \in Requests, Write(r) PROVE TypeOK' /\ EditsFound'
  <2>1. event \in Event /\ copy[r] \in Event
    BY <1>5 DEF Write, EditsFound, Editing, Loading
  <2>2. /\ event' \in Event /\ RowAllowed(event') /\ End(r)
        /\ UNCHANGED <<attendance, today, overnight>>
        /\ stale' = IF event' = event THEN stale \ {r} ELSE InFlight \ {r}
    BY <1>5, <2>1, WrittenEvent DEF Write
  <2>3. TypeOK'
    BY <2>2 DEF End, TypeOK, Steps, InFlight
  <2> QED
    BY <2>2, <2>3, EndTypes
<1>6. ASSUME NEW r \in Requests, NEW d \in Dates, BeginLoad(r, d) PROVE TypeOK' /\ EditsFound'
  BY <1>6 DEF BeginLoad, Goto, TypeOK, EditsFound, Editing, Loading, Steps
<1>7. ASSUME NEW r \in Requests, FindEvent(r) PROVE TypeOK' /\ EditsFound'
  BY <1>7 DEF FindEvent, Goto, TypeOK, EditsFound, Editing, Loading, Steps
<1>8. ASSUME NEW r \in Requests, Upsert(r) PROVE TypeOK' /\ EditsFound'
  <2>1. TypeOK'
    BY <1>8 DEF Upsert, End, TypeOK, Steps, EditsFound, Loading, InFlight
  <2> QED
    BY <1>8, <2>1, EndTypes DEF Upsert, TypeOK
<1>9. ASSUME NEW r \in Requests, Fail(r) PROVE TypeOK' /\ EditsFound'
  <2>1. TypeOK'
    BY <1>9 DEF Fail, End, TypeOK, Steps
  <2> QED
    BY <1>9, <2>1, EndTypes DEF Fail, TypeOK
<1>10. ASSUME NEW kind \in Kinds, NEW start \in Dates, NEW days \in WeekdayChoices,
              Create(kind, start, days)
       PROVE  TypeOK' /\ EditsFound'
  <2>1. /\ event = NoEvent
        /\ UNCHANGED <<attendance, today, pc, copy, cols, date, asOf, stale, overnight>>
    BY <1>10 DEF Create, requestVars
  <2>2. PICK wd \in SUBSET (0 .. 6) : /\ wd = IF kind = "one_off" THEN {} ELSE days
                                      /\ kind = "one_off" <=> wd = {}
    OBVIOUS
  <2>3. event' = [kind |-> kind, startDate |-> start, weekdays |-> wd,
                  active |-> TRUE, endedOn |-> NoDate]
    BY <1>10, <2>2 DEF Create
  <2>4. event' \in Event /\ RowAllowed(event')
    BY <2>2, <2>3 DEF Event, RowAllowed
  <2>5. TypeOK'
    BY <2>1, <2>4 DEF TypeOK
  <2> QED
    BY <2>1, <2>4, <2>5 DEF EditsFound, Editing, Loading
<1>11. ASSUME Midnight PROVE TypeOK' /\ EditsFound'
  <2>1. /\ today < LastDay /\ today' = today + 1
        /\ stale' = InFlight /\ overnight' = (overnight \/ InFlight # {})
        /\ UNCHANGED <<event, attendance, pc, copy, cols, date, asOf>>
    BY <1>11 DEF Midnight, requestVars
  <2>2. today' \in Dates
    BY <2>1 DEF TypeOK, Dates
  <2> QED
    BY <2>1, <2>2 DEF TypeOK, EditsFound, Editing, Loading, InFlight
<1>12. CASE UNCHANGED vars
  BY <1>12 DEF vars, requestVars, TypeOK, EditsFound, Editing, Loading
<1> QED
  BY <1>1, <1>2, <1>3, <1>4, <1>5, <1>6, <1>7, <1>8, <1>9, <1>10, <1>11, <1>12
  DEF Next, Edit, Load

LEMMA AlwaysTypes == Spec => [](TypeOK /\ EditsFound)
BY InitTypes, NextTypes, PTL DEF Spec

\* Types, with the shape of the row that its constraint keeps.
THEOREM TypeCorrect == Spec => []TypeOK
BY InitTypes, NextTypes, PTL DEF Spec

\* `occurrences` and `setAttendance` agree on the event at all times.
THEOREM ListsAgree == Spec => []ListAgrees
<1>1. TypeOK => ListAgrees
  <2> SUFFICES ASSUME TypeOK, event # NoEvent, NEW from \in Dates, NEW to \in Dates
               PROVE  OccurrenceDates(event, from, to, today)
                        = {d \in from .. to : IsOccurrence(event, d, today)}
    BY DEF ListAgrees
  <2>1. event \in Event /\ today \in Dates /\ from \in Int /\ to \in Int
    BY DEF TypeOK, Dates
  <2> QED
    BY <2>1, SameDates
<1> QED
  BY <1>1, TypeCorrect, PTL

-----------------------------------------------------------------------------
(* Attendance.                                                             *)

\* What a request has read is so still if nobody overtook it: the schedule is the
\* row's once there is attendance, the last day is the row's or today, and the
\* date of an attendance about to be written is one of the event.
Fresh(r) ==
  /\ Editing(r) => copy[r].endedOn \in {event.endedOn, today}
  /\ pc[r] \in {"save", "write"} /\ attendance # {} => SameSchedule(copy[r], event)
  /\ Loading(r) => date[r] <= today /\ asOf[r] = today
  /\ pc[r] = "upsert" => TakesPlace(date[r])

FreshUnlessStale == \A r \in Requests \ stale : Fresh(r)

AInv == TypeOK /\ EditsFound /\ FreshUnlessStale

LEMMA InitFresh == Init => FreshUnlessStale
BY DEF Init, FreshUnlessStale, Fresh, Editing, Loading

\* The others are as they were when nothing is written.
LEMMA QuietFresh ==
  ASSUME NEW r \in Requests, FreshUnlessStale, UNCHANGED <<event, attendance, today>>,
         stale \subseteq stale' \cup {r},
         \A q \in Requests \ {r} : /\ pc'[q] = pc[q] /\ copy'[q] = copy[q]
                                   /\ date'[q] = date[q] /\ asOf'[q] = asOf[q],
         r \notin stale' => Fresh(r)'
  PROVE  FreshUnlessStale'
<1> SUFFICES ASSUME NEW q \in Requests \ stale', q # r PROVE Fresh(q)'
  BY DEF FreshUnlessStale
<1>1. Fresh(q)
  BY DEF FreshUnlessStale
<1> QED
  BY <1>1 DEF Fresh, Editing, Loading, TakesPlace

\* When something is, whoever is in the middle of a request is overtaken.
LEMMA OvertakenFresh ==
  ASSUME NEW r \in Requests, TypeOK, pc' = [pc EXCEPT ![r] = "out"], stale' = InFlight \ {r}
  PROVE  FreshUnlessStale'
<1>1. \A q \in Requests \ stale' : pc'[q] = "out"
  BY DEF InFlight, TypeOK
<1> QED
  BY <1>1 DEF FreshUnlessStale, Fresh, Editing, Loading

\* A request that ends does one or the other.
LEMMA EndFresh ==
  ASSUME NEW r \in Requests, AInv, End(r),
         \/ stale' = stale \ {r} /\ UNCHANGED <<event, attendance, today>>
         \/ stale' = InFlight \ {r}
  PROVE  FreshUnlessStale'
<1>1. /\ pc' = [pc EXCEPT ![r] = "out"] /\ copy' = [copy EXCEPT ![r] = NoEvent]
      /\ date' = [date EXCEPT ![r] = NoDate] /\ asOf' = [asOf EXCEPT ![r] = NoDate]
  BY DEF End
<1>2. CASE stale' = InFlight \ {r}
  BY <1>1, <1>2, OvertakenFresh DEF AInv
<1>3. CASE stale' = stale \ {r} /\ UNCHANGED <<event, attendance, today>>
  <2>1. Fresh(r)'
    BY <1>1 DEF AInv, TypeOK, Fresh, Editing, Loading
  <2>2. \A q \in Requests \ {r} : /\ pc'[q] = pc[q] /\ copy'[q] = copy[q]
                                  /\ date'[q] = date[q] /\ asOf'[q] = asOf[q]
    BY <1>1 DEF AInv, TypeOK
  <2> QED
    BY <1>3, <2>1, <2>2, QuietFresh DEF AInv
<1> QED
  BY <1>2, <1>3

LEMMA NextFresh == AInv /\ [Next]_vars => FreshUnlessStale'
<1> SUFFICES ASSUME AInv, [Next]_vars PROVE FreshUnlessStale'
  OBVIOUS
<1>1. ASSUME NEW r \in Requests, NEW kind \in Kinds, NEW start \in Dates,
             NEW days \in WeekdayChoices \cup {event.weekdays}, BeginUpdate(r, kind, start, days)
      PROVE  FreshUnlessStale'
  <2> DEFINE e == [event EXCEPT !.kind = kind, !.startDate = start,
                                !.weekdays = IF kind = "one_off" THEN {} ELSE days]
  <2>1. /\ event \in Event
        /\ pc' = [pc EXCEPT ![r] = IF SameSchedule(e, event) THEN "save" ELSE "count"]
        /\ copy' = [copy EXCEPT ![r] = e]
        /\ UNCHANGED <<event, attendance, today, date, asOf, stale>>
    BY <1>1 DEF BeginUpdate, Goto, AInv, TypeOK
  <2>2. e.endedOn = event.endedOn
    BY <2>1 DEF Event
  <2> HIDE DEF e
  <2>3. Fresh(r)'
    BY <2>1, <2>2 DEF AInv, TypeOK, Fresh, Editing, Loading
  <2> QED
    BY <2>1, <2>3, QuietFresh DEF AInv, TypeOK
<1>2. ASSUME NEW r \in Requests, BeginDeactivate(r) PROVE FreshUnlessStale'
  <2> DEFINE e == [event EXCEPT !.active = FALSE, !.endedOn = today]
  <2>1. /\ event \in Event /\ pc' = [pc EXCEPT ![r] = "save"]
        /\ copy' = [copy EXCEPT ![r] = e]
        /\ UNCHANGED <<event, attendance, today, date, asOf, stale>>
    BY <1>2 DEF BeginDeactivate, Goto, AInv, TypeOK
  <2>2. e.endedOn = today /\ SameSchedule(e, event)
    BY <2>1 DEF Event, SameSchedule
  <2> HIDE DEF e
  <2>3. Fresh(r)'
    BY <2>1, <2>2 DEF AInv, TypeOK, Fresh, Editing, Loading
  <2> QED
    BY <2>1, <2>3, QuietFresh DEF AInv, TypeOK
<1>3. ASSUME NEW r \in Requests, CountAttendance(r) PROVE FreshUnlessStale'
  <2>1. /\ pc[r] = "count" /\ pc' = [pc EXCEPT ![r] = "save"] /\ attendance = {}
        /\ UNCHANGED <<event, attendance, today, copy, date, asOf, stale>>
    BY <1>3 DEF CountAttendance, Goto
  <2>2. r \notin stale' => Fresh(r)'
    BY <2>1 DEF AInv, TypeOK, FreshUnlessStale, Fresh, Editing, Loading
  <2> QED
    BY <2>1, <2>2, QuietFresh DEF AInv, TypeOK
<1>4. ASSUME NEW r \in Requests, Save(r) PROVE FreshUnlessStale'
  <2>1. /\ pc[r] = "save" /\ pc' = [pc EXCEPT ![r] = "write"]
        /\ UNCHANGED <<event, attendance, today, copy, date, asOf, stale>>
    BY <1>4 DEF Save, Goto
  <2>2. r \notin stale' => Fresh(r)'
    BY <2>1 DEF AInv, TypeOK, FreshUnlessStale, Fresh, Editing, Loading
  <2> QED
    BY <2>1, <2>2, QuietFresh DEF AInv, TypeOK
<1>5. ASSUME NEW r \in Requests, Write(r) PROVE FreshUnlessStale'
  BY <1>5, EndFresh DEF Write
<1>6. ASSUME NEW r \in Requests, NEW d \in Dates, BeginLoad(r, d) PROVE FreshUnlessStale'
  <2>1. /\ d <= today /\ pc' = [pc EXCEPT ![r] = "find"]
        /\ date' = [date EXCEPT ![r] = d] /\ asOf' = [asOf EXCEPT ![r] = today]
        /\ UNCHANGED <<event, attendance, today, copy, stale>>
    BY <1>6 DEF BeginLoad, Goto
  <2>2. Fresh(r)'
    BY <2>1 DEF AInv, TypeOK, Fresh, Editing, Loading
  <2> QED
    BY <2>1, <2>2, QuietFresh DEF AInv, TypeOK
<1>7. ASSUME NEW r \in Requests, FindEvent(r) PROVE FreshUnlessStale'
  <2>1. /\ event # NoEvent /\ IsOccurrence(event, date[r], asOf[r])
        /\ pc[r] = "find" /\ pc' = [pc EXCEPT ![r] = "upsert"]
        /\ UNCHANGED <<event, attendance, today, copy, date, asOf, stale>>
    BY <1>7 DEF FindEvent, Goto
  <2>2. r \notin stale' => Fresh(r)'
    BY <2>1 DEF AInv, TypeOK, FreshUnlessStale, Fresh, Editing, Loading, TakesPlace
  <2> QED
    BY <2>1, <2>2, QuietFresh DEF AInv, TypeOK
<1>8. ASSUME NEW r \in Requests, Upsert(r) PROVE FreshUnlessStale'
  BY <1>8, EndFresh DEF Upsert
<1>9. ASSUME NEW r \in Requests, Fail(r) PROVE FreshUnlessStale'
  BY <1>9, EndFresh DEF Fail
<1>10. ASSUME NEW kind \in Kinds, NEW start \in Dates, NEW days \in WeekdayChoices,
              Create(kind, start, days)
       PROVE  FreshUnlessStale'
  <2>1. /\ event = NoEvent
        /\ UNCHANGED <<attendance, today, pc, copy, date, asOf, stale>>
    BY <1>10 DEF Create, requestVars
  <2>2. \A r \in Requests : ~Editing(r)
    BY <2>1 DEF AInv, EditsFound, Event, NoEvent, Kinds
  <2>3. \A r \in Requests \ stale : pc[r] # "upsert"
    BY <2>1 DEF AInv, FreshUnlessStale, Fresh, TakesPlace
  <2> QED
    BY <2>1, <2>2, <2>3 DEF AInv, FreshUnlessStale, Fresh, Editing, Loading
<1>11. ASSUME Midnight PROVE FreshUnlessStale'
  <2>1. stale' = InFlight /\ pc' = pc
    BY <1>11 DEF Midnight, requestVars
  <2> QED
    BY <2>1 DEF InFlight, FreshUnlessStale, Fresh, Editing, Loading
<1>12. CASE UNCHANGED vars
  BY <1>12
  DEF vars, requestVars, AInv, FreshUnlessStale, Fresh, Editing, Loading, TakesPlace
<1> QED
  BY <1>1, <1>2, <1>3, <1>4, <1>5, <1>6, <1>7, <1>8, <1>9, <1>10, <1>11, <1>12
  DEF Next, Edit, Load

LEMMA AlwaysAInv == Spec => []AInv
<1>1. Init => AInv
  BY InitTypes, InitFresh DEF AInv
<1>2. AInv /\ [Next]_vars => AInv'
  BY NextTypes, NextFresh DEF AInv
<1> QED
  BY <1>1, <1>2, PTL DEF Spec

\* The write of an edit that nobody overtook keeps every date that has attendance.
LEMMA WriteStands ==
  ASSUME AInv, NEW r \in Requests \ stale, Write(r), NEW d \in attendance, TakesPlace(d)
  PROVE  TakesPlace(d)'
<1>1. /\ pc[r] = "write" /\ event' = Written(event, copy[r], cols[r]) /\ today' = today
      /\ event \in Event /\ copy[r] \in Event /\ d \in Dates /\ today \in Dates
  BY DEF Write, AInv, TypeOK, EditsFound, Editing
<1>2. SameSchedule(copy[r], event) /\ copy[r].endedOn \in {event.endedOn, today}
  BY <1>1 DEF AInv, FreshUnlessStale, Fresh, Editing
<1>3. /\ event' \in Event /\ event' # NoEvent
      /\ event'.kind \in {copy[r].kind, event.kind}
      /\ event'.startDate \in {copy[r].startDate, event.startDate}
      /\ event'.weekdays \in {copy[r].weekdays, event.weekdays}
      /\ event'.endedOn \in {copy[r].endedOn, event.endedOn}
  BY <1>1, WrittenEvent, EventExists
<1>4. SameSchedule(event, event') /\ event'.endedOn \in {event.endedOn, today}
  BY <1>2, <1>3 DEF SameSchedule
<1>5. IsOccurrence(event, d, today)
  BY DEF TakesPlace
<1>6. CASE event.kind = "one_off"
  BY <1>1, <1>3, <1>4, <1>5, <1>6 DEF IsOccurrence, SameSchedule, TakesPlace
<1>7. CASE event.kind # "one_off"
  <2>1. d <= today
    BY <1>1, <1>5, <1>7 DEF IsOccurrence, UpperBound, Earlier, Event, Dates
  <2>2. IsOccurrence(event', d, today)
    BY <1>1, <1>3, <1>4, <1>5, <2>1, StillOccurrence
  <2> QED
    BY <1>1, <1>3, <2>2 DEF TakesPlace
<1> QED
  BY <1>6, <1>7

\* DOMAIN.md, section 16: however edits, deactivations, attendances and midnights
\* overlap, no attendance comes to be on a date without event, but by a request
\* that another one or midnight overtook between what it checked and its write.
THEOREM AttendanceKept == Spec => AttendanceStands
<1>1. ASSUME AInv, [Next]_vars
      PROVE  [\A d \in attendance' :
                TakesPlace(d)' \/ (d \in attendance /\ ~TakesPlace(d))
                \/ \E r \in stale : pc[r] \in {"write", "upsert"} /\ pc'[r] = "out"]_vars
  <2> SUFFICES ASSUME NEW d \in attendance', ~TakesPlace(d)', d \in attendance => TakesPlace(d)
               PROVE  \E r \in stale : pc[r] \in {"write", "upsert"} /\ pc'[r] = "out"
    OBVIOUS
  <2>1. ~UNCHANGED <<event, attendance, today>>
    BY DEF TakesPlace
  <2>2. ASSUME NEW r \in Requests, Write(r)
        PROVE  r \in stale /\ pc[r] = "write" /\ pc'[r] = "out"
    <3>1. pc[r] = "write" /\ pc'[r] = "out" /\ d \in attendance
      BY <1>1, <2>2 DEF Write, End, AInv, TypeOK
    <3> QED
      BY <1>1, <2>2, <3>1, WriteStands
  <2>3. ASSUME NEW r \in Requests, Upsert(r)
        PROVE  r \in stale /\ pc[r] = "upsert" /\ pc'[r] = "out"
    <3>1. /\ pc[r] = "upsert" /\ pc'[r] = "out" /\ event' = event /\ today' = today
          /\ d \in attendance \/ d = date[r]
      BY <1>1, <2>3 DEF Upsert, End, AInv, TypeOK
    <3>2. r \notin stale => TakesPlace(date[r])
      BY <1>1, <3>1 DEF AInv, FreshUnlessStale, Fresh
    <3> QED
      BY <3>1, <3>2 DEF TakesPlace
  <2>4. ASSUME NEW kind \in Kinds, NEW start \in Dates, NEW days \in WeekdayChoices,
               Create(kind, start, days)
        PROVE  FALSE
    BY <2>4 DEF Create, TakesPlace
  <2>5. ~Midnight
    <3> SUFFICES ASSUME Midnight PROVE FALSE
      OBVIOUS
    <3>1. event' = event /\ d \in attendance /\ today' = today + 1 /\ today < LastDay
      BY DEF Midnight
    <3>2. /\ event \in Event /\ d \in Dates /\ today \in Dates /\ today + 1 \in Dates
          /\ IsOccurrence(event, d, today)
      BY <1>1, <3>1 DEF AInv, TypeOK, TakesPlace, Dates
    <3> QED
      BY <3>1, <3>2, NextDay DEF TakesPlace
  <2>6. \E r \in Requests : Write(r) \/ Upsert(r)
    BY <1>1, <2>1, <2>4, <2>5
    DEF Next, vars, Edit, Load, BeginUpdate, CountAttendance, BeginDeactivate, Save, BeginLoad,
        FindEvent, Fail
  <2> QED
    BY <2>2, <2>3, <2>6
<1> QED
  BY <1>1, AlwaysAInv, PTL DEF Spec, AttendanceStands

-----------------------------------------------------------------------------
(* Last days.                                                              *)

\* Whether an event ended and which day it did say the same.
EndsTogether(e) == e.active <=> e.endedOn = NoDate

EndedByToday ==
  event # NoEvent => /\ EndsTogether(event)
                     /\ event.endedOn # NoDate => event.endedOn <= today

\* The last day an edit holds is the row's, unless one of the two ended today.
NearRow(e) ==
  \/ e.endedOn = event.endedOn
  \/ e.endedOn \in {NoDate, today} /\ event.endedOn \in {NoDate, today}

\* Then a save finds both columns of a last day changed, or none.
EditsTogether ==
  \A r \in Requests : Editing(r) =>
    /\ EndsTogether(copy[r]) /\ NearRow(copy[r])
    /\ pc[r] = "write" => ("active" \in cols[r] <=> "endedOn" \in cols[r])

Together == ~overnight => EndedByToday /\ EditsTogether

LInv == TypeOK /\ EditsFound /\ Together

LEMMA InitTogether == Init => Together
BY DEF Init, Together, EndedByToday, EditsTogether, Editing

\* Whoever begins to edit begins close to the row.
LEMMA EditBegins ==
  ASSUME LInv, NEW r \in Requests, NEW e, NEW s \in {"count", "save"},
         ~overnight => EndsTogether(e) /\ NearRow(e),
         pc' = [pc EXCEPT ![r] = s], copy' = [copy EXCEPT ![r] = e],
         UNCHANGED <<event, today, cols, overnight>>
  PROVE  Together'
<1>1. \A q \in Requests \ {r} : pc'[q] = pc[q] /\ copy'[q] = copy[q]
  BY DEF LInv, TypeOK
<1>2. pc'[r] = s /\ copy'[r] = e
  BY DEF LInv, TypeOK
<1>3. EditsTogether /\ ~overnight => EditsTogether'
  BY <1>1, <1>2 DEF EditsTogether, Editing, EndsTogether, NearRow
<1> QED
  BY <1>3 DEF LInv, Together, EndedByToday, EndsTogether

\* The others are as they were when nothing is written.
LEMMA QuietTogether ==
  ASSUME Together, UNCHANGED <<event, today, overnight>>,
         \A q \in Requests : Editing(q)' =>
           Editing(q) /\ pc'[q] = pc[q] /\ copy'[q] = copy[q] /\ cols'[q] = cols[q]
  PROVE  Together'
<1>1. EditsTogether => EditsTogether'
  BY DEF EditsTogether, EndsTogether, NearRow
<1> QED
  BY <1>1 DEF Together, EndedByToday, EndsTogether

\* A request that ends edits no more.
LEMMA EndOthers ==
  ASSUME TypeOK, NEW r \in Requests, End(r)
  PROVE  \A q \in Requests : Editing(q)' =>
           Editing(q) /\ pc'[q] = pc[q] /\ copy'[q] = copy[q] /\ cols'[q] = cols[q]
BY DEF TypeOK, End, Editing

\* The last day that a write leaves is the row's, unless one of the two is today.
LEMMA WriteTogether ==
  ASSUME LInv, ~overnight, NEW r \in Requests, Write(r)
  PROVE  /\ event \in Event /\ event' \in Event /\ event' # NoEvent
         /\ EndsTogether(event')
         /\ event.endedOn # NoDate => event.endedOn <= today
         /\ \/ event'.endedOn = event.endedOn
            \/ event'.endedOn \in {NoDate, today} /\ event.endedOn \in {NoDate, today}
<1>1. /\ pc[r] = "write" /\ event' = Written(event, copy[r], cols[r])
      /\ event \in Event /\ copy[r] \in Event /\ event # NoEvent
  BY EventExists DEF Write, LInv, EditsFound, Editing
<1>2. /\ EndsTogether(copy[r]) /\ EndsTogether(event) /\ NearRow(copy[r])
      /\ "active" \in cols[r] <=> "endedOn" \in cols[r]
      /\ event.endedOn # NoDate => event.endedOn <= today
  BY <1>1 DEF LInv, Together, EndedByToday, EditsTogether, Editing
<1>3. /\ event' \in Event /\ event' # NoEvent
      /\ event'.active = IF "active" \in cols[r] THEN copy[r].active ELSE event.active
      /\ event'.endedOn = IF "endedOn" \in cols[r] THEN copy[r].endedOn ELSE event.endedOn
  BY <1>1, WrittenEvent, EventExists
<1>4. PICK e \in {copy[r], event} : event'.active = e.active /\ event'.endedOn = e.endedOn
  BY <1>2, <1>3
<1>5. EndsTogether(event')
  BY <1>2, <1>4 DEF EndsTogether
<1> QED
  BY <1>1, <1>2, <1>3, <1>4, <1>5 DEF NearRow

LEMMA NextTogether == LInv /\ [Next]_vars => Together'
<1> SUFFICES ASSUME LInv, [Next]_vars PROVE Together'
  OBVIOUS
<1>1. ASSUME NEW r \in Requests, NEW kind \in Kinds, NEW start \in Dates,
             NEW days \in WeekdayChoices \cup {event.weekdays}, BeginUpdate(r, kind, start, days)
      PROVE  Together'
  <2>1. PICK e : e = [event EXCEPT !.kind = kind, !.startDate = start,
                                   !.weekdays = IF kind = "one_off" THEN {} ELSE days]
    OBVIOUS
  <2>2. PICK s \in {"count", "save"} : s = IF SameSchedule(e, event) THEN "save" ELSE "count"
    OBVIOUS
  <2>3. /\ event \in Event /\ event # NoEvent
        /\ pc' = [pc EXCEPT ![r] = s] /\ copy' = [copy EXCEPT ![r] = e]
        /\ UNCHANGED <<event, today, cols, overnight>>
    BY <1>1, <2>1, <2>2 DEF BeginUpdate, Goto, LInv, TypeOK
  <2>4. e.active = event.active /\ e.endedOn = event.endedOn
    BY <2>1, <2>3 DEF Event
  <2>5. ~overnight => EndsTogether(e) /\ NearRow(e)
    BY <2>3, <2>4 DEF LInv, Together, EndedByToday, EndsTogether, NearRow
  <2> QED
    BY <2>3, <2>5, EditBegins
<1>2. ASSUME NEW r \in Requests, BeginDeactivate(r) PROVE Together'
  <2>1. PICK e : e = [event EXCEPT !.active = FALSE, !.endedOn = today]
    OBVIOUS
  <2>2. /\ event \in Event /\ event # NoEvent /\ event.active
        /\ pc' = [pc EXCEPT ![r] = "save"] /\ copy' = [copy EXCEPT ![r] = e]
        /\ UNCHANGED <<event, today, cols, overnight>>
    BY <1>2, <2>1 DEF BeginDeactivate, Goto, LInv, TypeOK
  <2>3. e.endedOn = today /\ ~e.active /\ today # NoDate
    BY <2>1, <2>2 DEF Event, LInv, TypeOK, Dates
  <2>4. ~overnight => EndsTogether(e) /\ NearRow(e)
    BY <2>2, <2>3 DEF LInv, Together, EndedByToday, EndsTogether, NearRow
  <2> QED
    BY <2>2, <2>4, EditBegins
<1>3. ASSUME NEW r \in Requests, CountAttendance(r) PROVE Together'
  BY <1>3 DEF CountAttendance, Goto, LInv, TypeOK, Together, EndedByToday, EditsTogether, Editing,
              EndsTogether, NearRow
<1>4. ASSUME NEW r \in Requests, Save(r) PROVE Together'
  <2>1. PICK cs : cs = Dirty(copy[r], event)
    OBVIOUS
  <2>2. /\ pc[r] = "save" /\ pc' = [pc EXCEPT ![r] = "write"] /\ cols' = [cols EXCEPT ![r] = cs]
        /\ event \in Event /\ event # NoEvent /\ copy[r] \in Event
        /\ UNCHANGED <<event, today, copy, overnight>>
    BY <1>4, <2>1, EventExists DEF Save, Goto, LInv, EditsFound, Editing
  <2>3. /\ "active" \in cs <=> copy[r].active # event.active
        /\ "endedOn" \in cs <=> copy[r].endedOn # event.endedOn
    BY <2>1, <2>2 DEF Dirty, Event
  <2>4. copy[r].active \in BOOLEAN /\ event.active \in BOOLEAN
    BY <2>2 DEF Event
  <2>5. ~overnight => EndsTogether(copy[r]) /\ EndsTogether(event)
    BY <2>2 DEF LInv, Together, EndedByToday, EditsTogether, Editing
  <2>6. ~overnight => ("active" \in cs <=> "endedOn" \in cs)
    <3>1. SUFFICES ASSUME ~overnight
                   PROVE  copy[r].active # event.active <=> copy[r].endedOn # event.endedOn
      BY <2>3
    <3>2. NearRow(copy[r])
      BY <2>2, <3>1 DEF LInv, Together, EditsTogether, Editing
    <3> QED
      BY <2>4, <2>5, <3>1, <3>2 DEF EndsTogether, NearRow
  <2>7. pc \in [Requests -> Steps] /\ DOMAIN cols = Requests
    BY DEF LInv, TypeOK
  <2>8. \A q \in Requests : Editing(q)' =>
           Editing(q) /\ (q # r => pc'[q] = pc[q] /\ cols'[q] = cols[q])
    BY <2>2, <2>7 DEF Editing
  <2>9. ~overnight => EditsTogether'
    <3> SUFFICES ASSUME ~overnight, NEW q \in Requests, Editing(q)'
                 PROVE  /\ EndsTogether(copy[q]) /\ NearRow(copy[q])
                        /\ pc'[q] = "write" => ("active" \in cols'[q] <=> "endedOn" \in cols'[q])
      BY <2>2 DEF EditsTogether, NearRow
    <3>1. EndsTogether(copy[q]) /\ NearRow(copy[q]) /\ (q = r => cols'[q] = cs)
      BY <2>2, <2>7, <2>8 DEF LInv, Together, EditsTogether
    <3> QED
      BY <2>6, <2>8, <3>1 DEF LInv, Together, EditsTogether
  <2> QED
    BY <2>2, <2>9 DEF LInv, Together, EndedByToday
<1>5. ASSUME NEW r \in Requests, Write(r) PROVE Together'
  <2>1. End(r) /\ UNCHANGED <<today, overnight>>
    BY <1>5 DEF Write
  <2>2. SUFFICES ASSUME ~overnight PROVE EndedByToday' /\ EditsTogether'
    BY <2>1 DEF Together
  <2>3. /\ event' # NoEvent /\ EndsTogether(event')
        /\ event.endedOn # NoDate => event.endedOn <= today
        /\ \/ event'.endedOn = event.endedOn
           \/ event'.endedOn \in {NoDate, today} /\ event.endedOn \in {NoDate, today}
    BY <1>5, <2>2, WriteTogether
  <2>4. EndedByToday'
    BY <2>1, <2>3 DEF EndedByToday, LInv, TypeOK, Dates
  <2>5. EditsTogether'
    <3> SUFFICES ASSUME NEW q \in Requests, Editing(q)'
                 PROVE  /\ EndsTogether(copy'[q]) /\ NearRow(copy[q])'
                        /\ pc'[q] = "write" => ("active" \in cols'[q] <=> "endedOn" \in cols'[q])
      BY DEF EditsTogether
    <3>1. Editing(q) /\ pc'[q] = pc[q] /\ copy'[q] = copy[q] /\ cols'[q] = cols[q]
      BY <2>1, EndOthers DEF LInv
    <3>2. /\ EndsTogether(copy[q]) /\ NearRow(copy[q])
          /\ pc[q] = "write" => ("active" \in cols[q] <=> "endedOn" \in cols[q])
      BY <2>2, <3>1 DEF LInv, Together, EditsTogether
    <3>3. NearRow(copy[q])'
      BY <2>1, <2>3, <3>1, <3>2 DEF NearRow
    <3> QED
      BY <3>1, <3>2, <3>3
  <2> QED
    BY <2>4, <2>5
<1>6. ASSUME NEW r \in Requests, NEW d \in Dates, BeginLoad(r, d) PROVE Together'
  BY <1>6, QuietTogether DEF BeginLoad, Goto, LInv, TypeOK, Editing
<1>7. ASSUME NEW r \in Requests, FindEvent(r) PROVE Together'
  BY <1>7, QuietTogether DEF FindEvent, Goto, LInv, TypeOK, Editing
<1>8. ASSUME NEW r \in Requests, Upsert(r) PROVE Together'
  BY <1>8, EndOthers, QuietTogether DEF Upsert, LInv
<1>9. ASSUME NEW r \in Requests, Fail(r) PROVE Together'
  BY <1>9, EndOthers, QuietTogether DEF Fail, LInv
<1>10. ASSUME NEW kind \in Kinds, NEW start \in Dates, NEW days \in WeekdayChoices,
              Create(kind, start, days)
       PROVE  Together'
  <2>1. /\ event = NoEvent /\ event'.active = TRUE /\ event'.endedOn = NoDate
        /\ UNCHANGED <<pc, overnight>>
    BY <1>10 DEF Create, requestVars
  <2>2. \A r \in Requests : ~Editing(r)'
    BY <2>1 DEF LInv, EditsFound, Editing, Event, NoEvent, Kinds
  <2> QED
    BY <2>1, <2>2 DEF Together, EndedByToday, EditsTogether, EndsTogether
<1>11. ASSUME Midnight PROVE Together'
  <2>1. /\ today' = today + 1 /\ overnight' = (overnight \/ InFlight # {})
        /\ UNCHANGED <<event, pc>>
    BY <1>11 DEF Midnight, requestVars
  <2>2. SUFFICES ASSUME ~overnight' PROVE EndedByToday' /\ EditsTogether'
    BY DEF Together
  <2>3. ~overnight /\ \A r \in Requests : ~Editing(r)'
    BY <2>1, <2>2 DEF InFlight, Editing
  <2>4. EndedByToday'
    <3>1. event \in Event \cup {NoEvent} /\ today \in Int
      BY DEF LInv, TypeOK, Dates
    <3>2. event.endedOn \in Int \cup {NoDate}
      BY <3>1 DEF Event, NoEvent, Dates
    <3> QED
      BY <2>1, <2>3, <3>1, <3>2 DEF LInv, Together, EndedByToday, EndsTogether
  <2> QED
    BY <2>3, <2>4 DEF EditsTogether
<1>12. CASE UNCHANGED vars
  BY <1>12, QuietTogether DEF vars, requestVars, LInv, Editing
<1> QED
  BY <1>1, <1>2, <1>3, <1>4, <1>5, <1>6, <1>7, <1>8, <1>9, <1>10, <1>11, <1>12
  DEF Next, Edit, Load

LEMMA AlwaysLInv == Spec => []LInv
<1>1. Init => LInv
  BY InitTypes, InitTogether DEF LInv
<1>2. LInv /\ [Next]_vars => LInv'
  BY NextTypes, NextTogether DEF LInv
<1> QED
  BY <1>1, <1>2, PTL DEF Spec

\* An event has a last day exactly when it ended, in spite of saves that write some
\* columns only, if no request was ever in flight at midnight.
THEOREM EndedTogether == Spec => []EndedIffInactive
<1>1. LInv => EndedIffInactive
  BY DEF LInv, Together, EndedByToday, EndsTogether, EndedIffInactive
<1> QED
  BY <1>1, AlwaysLInv, PTL

\* The comment of `deactivate`: a last day may be taken back by an edit that read
\* the event before, but is not replaced by another, under the same condition.
THEOREM LastDayStands == Spec => EndedOnStands
<1>1. ASSUME LInv, [Next]_vars
      PROVE  [~overnight /\ event.endedOn # NoDate =>
                event'.endedOn \in {event.endedOn, NoDate}]_vars
  <2> SUFFICES ASSUME ~overnight, event.endedOn # NoDate, event' # event
               PROVE  event'.endedOn \in {event.endedOn, NoDate}
    OBVIOUS
  <2>1. event # NoEvent
    BY DEF NoEvent
  <2>2. PICK r \in Requests : Write(r)
    BY <1>1, <2>1 DEF Next, vars, Create, Midnight, Fail, Edit, Load, BeginUpdate, CountAttendance,
                      BeginDeactivate, Save, BeginLoad, FindEvent, Upsert
  <2> QED
    BY <1>1, <2>2, WriteTogether
<1> QED
  BY <1>1, AlwaysLInv, PTL DEF Spec, EndedOnStands
=============================================================================
