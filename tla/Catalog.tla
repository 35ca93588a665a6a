------------------------------ MODULE Catalog ------------------------------
(***************************************************************************)
(* A catalog of one organization: its collection points                    *)
(* (collection-point.service.ts), its supplies (supply.service.ts) or its  *)
(* kinds of volunteering (volunteer-type.service.ts).  The three services  *)
(* do the same: they look for the name, then write; only the points have a *)
(* unique index behind them, a schedule and two operations instead of a    *)
(* toggle.                                                                 *)
(***************************************************************************)
EXTENDS Integers, Sequences, FiniteSets, SequencesExt, TypeOrmSave

CONSTANTS
  Entries,     \* the rows there may be
  Editors,     \* requests of the panel in flight; a slot is used again
  Names,
  Lower,       \* lower(name)
  Like,        \* <<n, m>> when the name m ILIKE the name n as a pattern
  LastDay,     \* days of the week go from 0 to LastDay (6)
  Times,       \* hours of the day, in their order
  Schedules,   \* the schedules that requests bring
  NoEntry, NoName

\* `null` in the hours of a closed day.
NoTime == -1

ScheduleDay ==
  [day : 0 .. LastDay, closed : BOOLEAN, open : Times \cup {NoTime}, close : Times \cup {NoTime}]

\* The DTO: as many days as the week has, and hours for the days not closed.
ASSUME CatalogAssumption ==
  /\ LastDay \in Nat /\ Times \subseteq Nat
  /\ Lower \in [Names -> Names] /\ Like \subseteq Names \X Names
  /\ \A s \in Schedules :
       /\ s \in Seq(ScheduleDay) /\ Len(s) = LastDay + 1
       /\ \A i \in DOMAIN s : s[i].closed \/ NoTime \notin {s[i].open, s[i].close}
  /\ NoEntry \notin Entries /\ NoName \notin Names

VARIABLES
  kind,     \* which catalog this is
  entry,    \* its rows; NoName is no row
  pc,       \* where each request is
  target,   \* the row it edits, NoEntry for a new one
  name,     \* the name it asked for
  copy,     \* its copy of the row
  cols,     \* the columns its save is about to write
  stale     \* requests that began before the last write of another (history)

requestVars == <<pc, target, name, copy, cols>>
catalogVars == <<kind, entry, requestVars, stale>>

-----------------------------------------------------------------------------
(* normalizeSchedule.                                                      *)

Normalized(day) == IF day.closed THEN [day EXCEPT !.open = NoTime, !.close = NoTime] ELSE day

\* One range for each day of the week, not empty, and some day open.
IsAccepted(schedule) ==
  /\ {schedule[i].day : i \in DOMAIN schedule} = 0 .. LastDay
  /\ \A i \in DOMAIN schedule :
       schedule[i].closed \/ schedule[i].open < schedule[i].close
  /\ \E i \in DOMAIN schedule : ~schedule[i].closed

\* The days in their order; accepted schedules have none twice.
SortByDay(schedule) ==
  LET order == CHOOSE p \in Bijection(DOMAIN schedule, DOMAIN schedule) :
                 \A i, j \in DOMAIN schedule :
                   i < j => schedule[p[i]].day <= schedule[p[j]].day
  IN [i \in DOMAIN schedule |-> schedule[order[i]]]

\* Mutant of NormalizeSchedule: the hours sent for a closed day are kept.
SortSchedule(schedule) == SortByDay(schedule)

NormalizeSchedule(schedule) == SortByDay([i \in DOMAIN schedule |-> Normalized(schedule[i])])

\* Only the points have a schedule.
Accepted == IF kind = "points" THEN {NormalizeSchedule(s) : s \in {x \in Schedules : IsAccepted(x)}}
            ELSE {<<>>}

-----------------------------------------------------------------------------
Row == [name : Names \cup {NoName}, active : BOOLEAN, schedule : Seq(ScheduleDay)]

NoRow == [name |-> NoName, active |-> FALSE, schedule |-> <<>>]

Steps == {"idle", "insert", "check", "save", "write"}

CatalogTypeOK ==
  /\ kind \in {"points", "supplies"}
  /\ entry \in [Entries -> Row]
  /\ pc \in [Editors -> Steps]
  /\ target \in [Editors -> Entries \cup {NoEntry}]
  /\ name \in [Editors -> Names \cup {NoName}]
  /\ copy \in [Editors -> Row]
  /\ cols \in [Editors -> SUBSET DOMAIN NoRow]
  /\ stale \subseteq Editors

CatalogInit ==
  /\ kind \in {"points", "supplies"}
  /\ entry = [e \in Entries |-> NoRow]
  /\ pc = [m \in Editors |-> "idle"]
  /\ target = [m \in Editors |-> NoEntry]
  /\ name = [m \in Editors |-> NoName]
  /\ copy = [m \in Editors |-> NoRow]
  /\ cols = [m \in Editors |-> {}]
  /\ stale = {}

Exists(e) == entry[e].name # NoName

Goto(m, from, to) ==
  /\ pc[m] = from
  /\ pc' = [pc EXCEPT ![m] = to]

End(m) ==
  /\ pc' = [pc EXCEPT ![m] = "idle"]
  /\ target' = [target EXCEPT ![m] = NoEntry]
  /\ name' = [name EXCEPT ![m] = NoName]
  /\ copy' = [copy EXCEPT ![m] = NoRow]
  /\ cols' = [cols EXCEPT ![m] = {}]
  /\ UNCHANGED kind

\* assertNameAvailable: a row whose name matches, other than the one edited.
IsTaken(n, except) == \E e \in Entries \ {except} : Exists(e) /\ <<n, entry[e].name>> \in Like

\* "IDX_collection_points_org_name"; the other catalogs have no such index.
Allows(e, n) ==
  kind = "points" => \A f \in Entries \ {e} : Exists(f) => Lower[entry[f].name] # Lower[n]

Refuse(m) ==
  /\ End(m)
  /\ stale' = stale \ {m}
  /\ UNCHANGED entry

\* The row changes under whoever is in the middle of a request.
SetEntry(m, e, row) ==
  /\ entry' = [entry EXCEPT ![e] = row]
  /\ stale' = IF entry[e] = row THEN stale \ {m} ELSE {q \in Editors \ {m} : pc[q] # "idle"}

-----------------------------------------------------------------------------
\* `create`: the name is free and the schedule accepted...
Create(m, n) ==
  /\ ~IsTaken(n, NoEntry)
  /\ Goto(m, "idle", "insert")
  /\ \E s \in Accepted :
       copy' = [copy EXCEPT ![m] = [name |-> n, active |-> TRUE, schedule |-> s]]
  /\ UNCHANGED <<kind, entry, target, name, cols, stale>>

\* ...and the row is inserted, or refused by the index.
Insert(m) ==
  /\ pc[m] = "insert"
  /\ \E e \in Entries :
       /\ ~Exists(e)
       /\ IF Allows(e, copy[m].name) THEN SetEntry(m, e, copy[m]) /\ End(m) ELSE Refuse(m)

\* `update`: the row is read, then the name is looked for.
BeginUpdate(m, e, n) ==
  /\ Exists(e)
  /\ Goto(m, "idle", "check")
  /\ target' = [target EXCEPT ![m] = e]
  /\ name' = [name EXCEPT ![m] = n]
  /\ copy' = [copy EXCEPT ![m] = entry[e]]
  /\ UNCHANGED <<kind, entry, cols, stale>>

\* Mutant of Check: the names of the others are not looked at.
CheckNothing(m) ==
  /\ Goto(m, "check", "save")
  /\ \E s \in Accepted :
       copy' = [copy EXCEPT ![m].name = name[m], ![m].schedule = s]
  /\ UNCHANGED <<kind, entry, target, name, cols, stale>>

\* Mutant of Check: the row is built anew, as `create` does.
CheckRebuilds(m) ==
  /\ ~IsTaken(name[m], target[m])
  /\ Goto(m, "check", "save")
  /\ \E s \in Accepted :
       copy' = [copy EXCEPT ![m] = [name |-> name[m], active |-> TRUE, schedule |-> s]]
  /\ UNCHANGED <<kind, entry, target, name, cols, stale>>

Check(m) ==
  /\ ~IsTaken(name[m], target[m])
  /\ Goto(m, "check", "save")
  /\ \E s \in Accepted :
       copy' = [copy EXCEPT ![m].name = name[m], ![m].schedule = s]
  /\ UNCHANGED <<kind, entry, target, name, cols, stale>>

CheckRefuses(m) ==
  /\ pc[m] = "check"
  /\ IsTaken(name[m], target[m])
  /\ Refuse(m)

\* findOrFail and the change in memory.
BeginSetActive(m, e, active) ==
  /\ Exists(e)
  /\ Goto(m, "idle", "save")
  /\ target' = [target EXCEPT ![m] = e]
  /\ copy' = [copy EXCEPT ![m] = [entry[e] EXCEPT !.active = active]]
  /\ UNCHANGED <<kind, entry, name, cols, stale>>

\* Points are activated or deactivated; the others turn round what was read.
SetActive(m, e, active) == kind = "points" /\ BeginSetActive(m, e, active)

Toggle(m, e) == kind # "points" /\ BeginSetActive(m, e, ~entry[e].active)

\* The comparing read of the save.
Save(m) ==
  /\ Goto(m, "save", "write")
  /\ cols' = [cols EXCEPT ![m] = Dirty(copy[m], entry[target[m]])]
  /\ UNCHANGED <<kind, entry, target, name, copy, stale>>

Write(m) ==
  /\ pc[m] = "write"
  /\ LET row == Written(entry[target[m]], copy[m], cols[m]) IN
       IF Allows(target[m], row.name) THEN SetEntry(m, target[m], row) /\ End(m) ELSE Refuse(m)

\* A query fails.
Fail(m) == pc[m] # "idle" /\ Refuse(m)

Edit(m) ==
  \/ \E n \in Names : Create(m, n) \/ \E e \in Entries : BeginUpdate(m, e, n)
  \/ \E e \in Entries : Toggle(m, e) \/ \E active \in BOOLEAN : SetActive(m, e, active)
  \/ Insert(m) \/ Check(m) \/ CheckRefuses(m) \/ Save(m) \/ Write(m) \/ Fail(m)

-----------------------------------------------------------------------------
(* Properties.                                                             *)

Duplicates ==
  {p \in SUBSET Entries : /\ Cardinality(p) = 2 /\ \A e \in p : Exists(e)
                          /\ \A e, f \in p : Lower[entry[e].name] = Lower[entry[f].name]}

\* "Ya existe un insumo con ese nombre": names that differ in case only are never
\* those of two entries, but for catalogs without the index, where a request that
\* another one overtook between its check and its write may repeat one, and so may a
\* name that is a pattern which the other does not match, or even itself (a\b).
NamesUnique ==
  [][\A p \in Duplicates' \ Duplicates :
       /\ kind # "points"
       /\ \/ \E m \in stale : pc[m] \in {"insert", "write"} /\ pc'[m] = "idle"
          \/ \E e, f \in p : e # f /\ <<entry'[e].name, entry'[f].name>> \notin Like]_catalogVars

\* Whoever edits the data of an entry does not bring it back into use, or take
\* it out, unless somebody did while the edit was in flight.
ActiveStands ==
  [][\A e \in Entries, m \in Editors :
       (/\ Exists(e) /\ entry'[e].active # entry[e].active
        /\ pc[m] = "write" /\ pc'[m] = "idle" /\ target[m] = e)
       => m \in stale \/ name[m] = NoName]_catalogVars

\* A whole week in order, with hours that make sense on the days it opens, none
\* on the others, and a day to go.
MakesSense(week) ==
  /\ Len(week) = LastDay + 1
  /\ \A i \in DOMAIN week :
       /\ week[i].day = i - 1
       /\ IF week[i].closed THEN week[i].open = NoTime /\ week[i].close = NoTime
          ELSE week[i].open \in Times /\ week[i].open < week[i].close
  /\ \E i \in DOMAIN week : ~week[i].closed

\* What the public page shows of a point makes sense, whatever schedule was sent.
ScheduleMakesSense ==
  kind = "points" => \A e \in Entries : Exists(e) => MakesSense(entry[e].schedule)
=============================================================================
