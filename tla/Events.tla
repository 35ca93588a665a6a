------------------------------- MODULE Events -------------------------------
(***************************************************************************)
(* One event of an organization and the attendance loaded for it           *)
(* (event.service.ts).  On which dates the event takes place is not stored *)
(* but computed from its row, and attendance is kept by date, so an edit   *)
(* of the row may leave attendance on a date without event.  Edits are     *)
(* saves, attendance is an upsert, and no transaction holds them together. *)
(***************************************************************************)
EXTENDS Integers, TypeOrmSave

CONSTANTS
  FirstDay, LastDay, \* dates are numbers of days; 0 is a Sunday
  WeekdayChoices,    \* the sets of weekdays people choose, none of them empty
  Requests,          \* requests in flight; a slot is used again
  NoDate             \* null

Dates == FirstDay .. LastDay

ASSUME EventsAssumption ==
  /\ FirstDay \in Nat /\ LastDay \in Nat /\ FirstDay <= LastDay
  /\ WeekdayChoices \subseteq (SUBSET (0 .. 6)) \ {{}}
  /\ NoDate \notin Int

VARIABLES
  event,      \* the row
  attendance, \* the dates with a count
  today,
  pc,         \* where each request is
  copy,       \* its copy of the row
  cols,       \* the columns its save is about to write
  date,       \* the date whose attendance it loads
  asOf,       \* what day it is for it
  stale,      \* requests that began before another one wrote, or before a
              \* midnight (history)
  overnight   \* whether a request was ever in flight at midnight (history)

requestVars == <<pc, copy, cols, date, asOf>>
vars == <<event, attendance, today, requestVars, stale, overnight>>

Kinds == {"periodic", "one_off"}

\* Weekdays are null, here empty, for a one-off event.
Event == [kind : Kinds, startDate : Dates, weekdays : SUBSET (0 .. 6),
          active : BOOLEAN, endedOn : Dates \cup {NoDate}]

\* CHK_events_weekdays.
RowAllowed(e) == e.kind = "one_off" <=> e.weekdays = {}

NoEvent == [kind |-> "none", startDate |-> FirstDay, weekdays |-> {},
            active |-> FALSE, endedOn |-> NoDate]

Steps == {"out", "count", "save", "write", "find", "upsert"}

TypeOK ==
  /\ event \in Event \cup {NoEvent}
  /\ event # NoEvent => RowAllowed(event)
  /\ attendance \subseteq Dates
  /\ today \in Dates
  /\ pc \in [Requests -> Steps]
  /\ copy \in [Requests -> Event \cup {NoEvent}]
  /\ cols \in [Requests -> SUBSET {"kind", "startDate", "weekdays", "active", "endedOn"}]
  /\ date \in [Requests -> Dates \cup {NoDate}]
  /\ asOf \in [Requests -> Dates \cup {NoDate}]
  /\ stale \subseteq Requests
  /\ overnight \in BOOLEAN

-----------------------------------------------------------------------------
(* On which dates the event takes place.                                   *)

WeekdayOf(d) == d % 7

Earlier(a, b) == IF a < b THEN a ELSE b
Later(a, b) == IF a > b THEN a ELSE b

\* The last day of a periodic event.
UpperBound(e, day) == Earlier(IF e.endedOn = NoDate THEN day ELSE e.endedOn, day)

IsOccurrence(e, d, day) ==
  IF e.kind = "one_off" THEN d = e.startDate
  ELSE e.startDate <= d /\ d <= UpperBound(e, day) /\ WeekdayOf(d) \in e.weekdays

\* Mutant of OccurrenceDates: the loop stops before the last day.
OccurrenceDatesShort(e, from, to, day) ==
  IF e.kind = "one_off" THEN {e.startDate} \cap (from .. to)
  ELSE {d \in Later(e.startDate, from) .. Earlier(UpperBound(e, day), to) - 1 :
          WeekdayOf(d) \in e.weekdays}

\* The dates that `occurrences` lists.
OccurrenceDates(e, from, to, day) ==
  IF e.kind = "one_off" THEN {e.startDate} \cap (from .. to)
  ELSE {d \in Later(e.startDate, from) .. Earlier(UpperBound(e, day), to) :
          WeekdayOf(d) \in e.weekdays}

SameSchedule(e, f) ==
  e.kind = f.kind /\ e.startDate = f.startDate /\ e.weekdays = f.weekdays

-----------------------------------------------------------------------------
Init ==
  /\ event = NoEvent
  /\ attendance = {}
  /\ today = FirstDay
  /\ pc = [r \in Requests |-> "out"]
  /\ copy = [r \in Requests |-> NoEvent]
  /\ cols = [r \in Requests |-> {}]
  /\ date = [r \in Requests |-> NoDate]
  /\ asOf = [r \in Requests |-> NoDate]
  /\ stale = {}
  /\ overnight = FALSE

Goto(r, from, to) ==
  /\ pc[r] = from
  /\ pc' = [pc EXCEPT ![r] = to]

\* The request is answered, and forgets what it had in memory.
End(r) ==
  /\ pc' = [pc EXCEPT ![r] = "out"]
  /\ copy' = [copy EXCEPT ![r] = NoEvent]
  /\ cols' = [cols EXCEPT ![r] = {}]
  /\ date' = [date EXCEPT ![r] = NoDate]
  /\ asOf' = [asOf EXCEPT ![r] = NoDate]

Editing(r) == pc[r] \in {"count", "save", "write"}
Loading(r) == pc[r] \in {"find", "upsert"}

InFlight == {r \in Requests : pc[r] # "out"}

\* A one-off event never has weekdays, whatever the body says.
Create(kind, start, days) ==
  /\ event = NoEvent
  /\ event' = [kind |-> kind, startDate |-> start,
               weekdays |-> IF kind = "one_off" THEN {} ELSE days,
               active |-> TRUE, endedOn |-> NoDate]
  /\ UNCHANGED <<attendance, today, requestVars, stale, overnight>>

-----------------------------------------------------------------------------
(* Edits.                                                                  *)

\* The name and the time of an event can always be edited, its schedule only
\* while there is no attendance.  The refusal of a periodic event without
\* weekdays comes after that count, and changes nothing either way.
BeginUpdate(r, kind, start, days) ==
  LET edited == [event EXCEPT !.kind = kind, !.startDate = start,
                              !.weekdays = IF kind = "one_off" THEN {} ELSE days]
  IN /\ event # NoEvent
     /\ RowAllowed(edited)
     /\ Goto(r, "out", IF SameSchedule(edited, event) THEN "save" ELSE "count")
     /\ copy' = [copy EXCEPT ![r] = edited]
     /\ UNCHANGED <<event, attendance, today, cols, date, asOf, stale, overnight>>

\* Mutant of CountAttendance: only past dates are counted.
CountBeforeToday(r) ==
  /\ \A d \in attendance : d >= today
  /\ Goto(r, "count", "save")
  /\ UNCHANGED <<event, attendance, today, copy, cols, date, asOf, stale, overnight>>

CountAttendance(r) ==
  /\ attendance = {}
  /\ Goto(r, "count", "save")
  /\ UNCHANGED <<event, attendance, today, copy, cols, date, asOf, stale, overnight>>

\* Mutant of BeginDeactivate: an event that ended ends again.
BeginDeactivateAgain(r) ==
  /\ event # NoEvent
  /\ Goto(r, "out", "save")
  /\ copy' = [copy EXCEPT ![r] = [event EXCEPT !.active = FALSE, !.endedOn = today]]
  /\ UNCHANGED <<event, attendance, today, cols, date, asOf, stale, overnight>>

\* Mutant of BeginDeactivate: the day is not kept.
BeginDeactivateOnly(r) ==
  /\ event # NoEvent /\ event.active
  /\ Goto(r, "out", "save")
  /\ copy' = [copy EXCEPT ![r] = [event EXCEPT !.active = FALSE]]
  /\ UNCHANGED <<event, attendance, today, cols, date, asOf, stale, overnight>>

BeginDeactivate(r) ==
  /\ event # NoEvent /\ event.active
  /\ Goto(r, "out", "save")
  /\ copy' = [copy EXCEPT ![r] = [event EXCEPT !.active = FALSE, !.endedOn = today]]
  /\ UNCHANGED <<event, attendance, today, cols, date, asOf, stale, overnight>>

\* The comparing read of the save.
Save(r) ==
  /\ Goto(r, "save", "write")
  /\ cols' = [cols EXCEPT ![r] = Dirty(copy[r], event)]
  /\ UNCHANGED <<event, attendance, today, copy, date, asOf, stale, overnight>>

\* Columns of two edits may not add up to a row: the constraint refuses it.
Write(r) ==
  /\ pc[r] = "write"
  /\ RowAllowed(Written(event, copy[r], cols[r]))
  /\ event' = Written(event, copy[r], cols[r])
  /\ stale' = IF event' = event THEN stale \ {r} ELSE InFlight \ {r}
  /\ End(r)
  /\ UNCHANGED <<attendance, today, overnight>>

-----------------------------------------------------------------------------
(* Attendance.                                                             *)

BeginLoad(r, d) ==
  /\ d <= today
  /\ Goto(r, "out", "find")
  /\ date' = [date EXCEPT ![r] = d]
  /\ asOf' = [asOf EXCEPT ![r] = today]
  /\ UNCHANGED <<event, attendance, today, copy, cols, stale, overnight>>

FindEvent(r) ==
  /\ event # NoEvent
  /\ pc[r] = "find" /\ IsOccurrence(event, date[r], asOf[r])
  /\ Goto(r, "find", "upsert")
  /\ UNCHANGED <<event, attendance, today, copy, cols, date, asOf, stale, overnight>>

\* A second count for a date replaces the first.
Upsert(r) ==
  /\ pc[r] = "upsert"
  /\ attendance' = attendance \cup {date[r]}
  /\ stale' = IF attendance' = attendance THEN stale \ {r} ELSE InFlight \ {r}
  /\ End(r)
  /\ UNCHANGED <<event, today, overnight>>

-----------------------------------------------------------------------------
\* A check refuses, a query or the row's constraint fails, or the process stops.
Fail(r) ==
  /\ pc[r] # "out"
  /\ End(r)
  /\ stale' = stale \ {r}
  /\ UNCHANGED <<event, attendance, today, overnight>>

Midnight ==
  /\ today < LastDay
  /\ today' = today + 1
  /\ stale' = InFlight
  /\ overnight' = (overnight \/ InFlight # {})
  /\ UNCHANGED <<event, attendance, requestVars>>

Edit(r) ==
  \/ \E kind \in Kinds, start \in Dates, days \in WeekdayChoices \cup {event.weekdays} :
       BeginUpdate(r, kind, start, days)
  \/ CountAttendance(r) \/ BeginDeactivate(r) \/ Save(r) \/ Write(r)

Load(r) ==
  \/ \E d \in Dates : BeginLoad(r, d)
  \/ FindEvent(r) \/ Upsert(r)

Next ==
  \/ \E kind \in Kinds, start \in Dates, days \in WeekdayChoices : Create(kind, start, days)
  \/ \E r \in Requests : Edit(r) \/ Load(r) \/ Fail(r)
  \/ Midnight

Spec == Init /\ [][Next]_vars

-----------------------------------------------------------------------------
(* Properties.                                                             *)

TakesPlace(d) == event # NoEvent /\ IsOccurrence(event, d, today)

\* DOMAIN.md, section 16: attendance is on dates of the event, and stays so over
\* every edit, deactivation and midnight, until a request writes that another one,
\* or midnight, overtook.
AttendanceStands ==
  [][\A d \in attendance' :
       TakesPlace(d)' \/ (d \in attendance /\ ~TakesPlace(d))
       \/ \E r \in stale : pc[r] \in {"write", "upsert"} /\ pc'[r] = "out"]_vars

\* An event has a last day exactly when it was deactivated, though a save may
\* write one of the two columns and not the other; so it is while no request
\* takes longer than until midnight.
EndedIffInactive ==
  ~overnight /\ event # NoEvent => (event.active <=> event.endedOn = NoDate)

\* The comment of `deactivate`: the last day of an event is not written again,
\* unless by a request that took longer than until midnight.
EndedOnStands ==
  [][~overnight /\ event.endedOn # NoDate => event'.endedOn \in {event.endedOn, NoDate}]_vars

\* `occurrences` lists, in any range, the very dates that `setAttendance` takes
\* or would take on its day.
ListAgrees ==
  event # NoEvent =>
    \A from, to \in Dates :
      OccurrenceDates(event, from, to, today) = {d \in from .. to : IsOccurrence(event, d, today)}

=============================================================================
