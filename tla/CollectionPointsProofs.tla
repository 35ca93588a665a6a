----------------------- MODULE CollectionPointsProofs -----------------------
(***************************************************************************)
(* The catalogs of an organization and the geocoder that its people ask,   *)
(* for every number of entries, names, people and days of the week.        *)
(***************************************************************************)
EXTENDS CollectionPoints, FiniteSetTheorems, SequenceTheorems, WellFoundedInduction, TLAPS

USE CatalogAssumption

-----------------------------------------------------------------------------
(* Schedules.                                                              *)

\* Any set of numbers has a least one.
LEMMA LeastNatural ==
  ASSUME NEW T \in SUBSET Nat, T # {}
  PROVE  \E n \in T : \A m \in T : n <= m
<1>1. PICK n \in T : \A m \in T : <<m, n>> \notin OpToRel(<, Nat)
  BY NatLessThanWellFounded, WFMin
<1>2. \A m \in T : ~(m < n)
  BY <1>1 DEF OpToRel
<1> QED
  BY <1>2

Week == 1 .. LastDay + 1

\* As many days as the week has, each of them there: none is there twice.
LEMMA DaysDiffer ==
  ASSUME NEW s \in [Week -> ScheduleDay], {s[i].day : i \in Week} = 0 .. LastDay
  PROVE  \A i, j \in Week : s[i].day = s[j].day => i = j
<1> DEFINE dayOf == [i \in Week |-> s[i].day]
<1>1. dayOf \in Surjection(Week, 0 .. LastDay)
  BY DEF Surjection
<1>2. IsFiniteSet(Week) /\ Cardinality(Week) = Cardinality(0 .. LastDay)
  BY FS_Interval DEF Week
<1>3. dayOf \in Injection(Week, 0 .. LastDay)
  BY <1>1, <1>2, FS_SurjSameCardinalityImpliesInj
<1> QED
  BY <1>3 DEF Injection, IsInjective

\* They can be put in their order.
LEMMA OrderExists ==
  ASSUME NEW s \in [Week -> ScheduleDay], {s[i].day : i \in Week} = 0 .. LastDay
  PROVE  \E p \in Bijection(Week, Week) :
           \A i, j \in Week : i < j => s[p[i]].day <= s[p[j]].day
<1> DEFINE p == [i \in Week |-> CHOOSE j \in Week : s[j].day = i - 1]
<1>1. \A i \in Week : \E j \in Week : s[j].day = i - 1
  <2>1. \A i \in Week : i - 1 \in 0 .. LastDay
    BY DEF Week
  <2>2. \A d \in 0 .. LastDay : \E j \in Week : s[j].day = d
    OBVIOUS
  <2> QED
    BY <2>1, <2>2
<1>2. \A i \in Week : p[i] \in Week /\ s[p[i]].day = i - 1
  BY <1>1
<1>3. p \in [Week -> Week]
  BY <1>2
<1> HIDE DEF p
<1>4. \A i, j \in Week : p[i] = p[j] => i = j
  <2>1. \A i \in Week : i \in Int /\ i = s[p[i]].day + 1
    BY <1>2 DEF Week
  <2> QED
    BY <2>1
<1>5. \A j \in Week : \E i \in Week : p[i] = j
  <2> TAKE j \in Week
  <2>1. s[j].day \in 0 .. LastDay
    BY DEF ScheduleDay
  <2>2. s[j].day + 1 \in Week /\ s[p[s[j].day + 1]].day = s[j].day
    BY <1>2, <2>1 DEF Week
  <2>3. p[s[j].day + 1] = j
    BY <1>2, <2>2, DaysDiffer
  <2> QED
    BY <2>2, <2>3
<1>6. p \in Bijection(Week, Week)
  BY <1>3, <1>4, <1>5 DEF Bijection, Injection, Surjection, IsInjective
<1>7. \A i, j \in Week : i < j => s[p[i]].day <= s[p[j]].day
  BY <1>2 DEF Week
<1> QED
  BY <1>6, <1>7

\* The i-th day of the sorted week is that of the number i - 1: the first one to
\* be out of its place would be missing further on.
LEMMA SortedWeek ==
  ASSUME NEW s \in [Week -> ScheduleDay], {s[i].day : i \in Week} = 0 .. LastDay
  PROVE  /\ SortByDay(s) \in [Week -> ScheduleDay]
         /\ \A i \in Week : SortByDay(s)[i].day = i - 1
         /\ \A i \in Week : \E j \in Week : SortByDay(s)[i] = s[j]
         /\ \A j \in Week : \E i \in Week : SortByDay(s)[i] = s[j]
<1> DEFINE Sorts(p) == \A i, j \in DOMAIN s : i < j => s[p[i]].day <= s[p[j]].day
           order == CHOOSE p \in Bijection(DOMAIN s, DOMAIN s) : Sorts(p)
<1>1. DOMAIN s = Week
  OBVIOUS
<1>2. order \in Bijection(Week, Week) /\ Sorts(order)
  BY <1>1, OrderExists
<1>3. SortByDay(s) = [i \in Week |-> s[order[i]]]
  BY <1>1 DEF SortByDay
<1> HIDE DEF order
<1>4. /\ \A i \in Week : order[i] \in Week
      /\ \A i, j \in Week : order[i] = order[j] => i = j
      /\ \A j \in Week : \E i \in Week : order[i] = j
  BY <1>2 DEF Bijection, Injection, Surjection, IsInjective
<1> DEFINE day == [i \in Week |-> s[order[i]].day]
<1>5. /\ \A i \in Week : day[i] \in 0 .. LastDay
      /\ \A i, j \in Week : day[i] = day[j] => i = j
      /\ \A i, j \in Week : i < j => day[i] < day[j]
      /\ \A d \in 0 .. LastDay : \E i \in Week : day[i] = d
  <2>1. \A i \in Week : day[i] \in 0 .. LastDay
    BY <1>4 DEF ScheduleDay
  <2>2. \A i, j \in Week : day[i] = day[j] => i = j
    BY <1>4, DaysDiffer
  <2>3. \A i, j \in Week : i < j => day[i] <= day[j]
    BY <1>1, <1>2
  <2>4. \A d \in 0 .. LastDay : \E i \in Week : day[i] = d
    <3> TAKE d \in 0 .. LastDay
    <3>1. PICK j \in Week : s[j].day = d
      OBVIOUS
    <3> QED
      BY <1>4, <3>1
  <2>5. \A i, j \in Week : i < j => day[i] < day[j]
    <3> SUFFICES ASSUME NEW i \in Week, NEW j \in Week, i < j PROVE day[i] < day[j]
      OBVIOUS
    <3>1. i # j /\ day[i] <= day[j] /\ day[i] # day[j]
      BY <2>2, <2>3 DEF Week
    <3>2. day[i] \in Int /\ day[j] \in Int
      BY <2>1
    <3> HIDE DEF day
    <3> QED
      BY <3>1, <3>2
  <2> QED
    BY <2>1, <2>2, <2>4, <2>5
<1>6. \A i \in Week : SortByDay(s)[i].day = day[i]
  BY <1>3
<1> HIDE DEF day
<1>7. \A i \in Week : day[i] = i - 1
  <2> DEFINE Wrong == {i \in Week : day[i] # i - 1}
  <2> SUFFICES ASSUME Wrong # {} PROVE FALSE
    OBVIOUS
  <2>1. PICK n \in Wrong : \A m \in Wrong : n <= m
    <3>1. Wrong \in SUBSET Nat
      BY DEF Week
    <3> HIDE DEF Wrong
    <3> QED
      BY <3>1, LeastNatural
  <2>2. n \in Week /\ n \in Nat /\ day[n] # n - 1 /\ \A m \in Week : m < n => day[m] = m - 1
    BY <2>1 DEF Week
  <2>3. n - 1 \in 0 .. LastDay
    BY <2>2 DEF Week
  <2>4. PICK k \in Week : day[k] = n - 1
    BY <2>3, <1>5
  <2>5. k > n
    BY <2>2, <2>4 DEF Week
  <2>6. day[n] < n - 1
    BY <1>5, <2>2, <2>4, <2>5
  <2>7. day[n] + 1 \in Week /\ day[n] + 1 < n
    <3>1. day[n] \in 0 .. LastDay
      BY <1>5, <2>2
    <3> QED
      BY <2>2, <2>6, <3>1 DEF Week
  <2>8. day[day[n] + 1] = day[n]
    BY <1>5, <2>2, <2>7
  <2> QED
    BY <1>5, <2>2, <2>7, <2>8
<1> QED
  BY <1>3, <1>4, <1>6, <1>7

\* What the service keeps of a schedule that it accepts makes sense.
LEMMA NormalizedMakesSense ==
  ASSUME NEW s \in Schedules, IsAccepted(s)
  PROVE  /\ NormalizeSchedule(s) \in Seq(ScheduleDay)
         /\ MakesSense(NormalizeSchedule(s))
<1> DEFINE n == [i \in DOMAIN s |-> Normalized(s[i])]
           week == SortByDay(n)
<1>1. s \in Seq(ScheduleDay) /\ Len(s) = LastDay + 1
  OBVIOUS
<1>2. DOMAIN s = Week /\ \A i \in Week : s[i] \in ScheduleDay
  BY <1>1 DEF Week
<1>3. \A i \in Week :
        /\ n[i] \in ScheduleDay /\ n[i].day = s[i].day /\ n[i].closed = s[i].closed
        /\ n[i].closed => n[i].open = NoTime /\ n[i].close = NoTime
        /\ ~n[i].closed => n[i].open \in Times /\ n[i].open < n[i].close
  <2> TAKE i \in Week
  <2>1. s[i] \in ScheduleDay /\ n[i] = Normalized(s[i])
    BY <1>2
  <2>2. ~s[i].closed => NoTime \notin {s[i].open, s[i].close} /\ s[i].open < s[i].close
    BY <1>2 DEF IsAccepted
  <2>3. CASE s[i].closed
    <3>1. n[i] = [s[i] EXCEPT !.open = NoTime, !.close = NoTime]
      BY <2>1, <2>3 DEF Normalized
    <3> HIDE DEF n
    <3> QED
      BY <2>1, <2>3, <3>1 DEF ScheduleDay
  <2>4. CASE ~s[i].closed
    <3>1. n[i] = s[i]
      BY <2>1, <2>4 DEF Normalized
    <3> HIDE DEF n
    <3> QED
      BY <2>1, <2>2, <2>4, <3>1 DEF ScheduleDay
  <2> QED
    BY <2>3, <2>4
<1>4. n \in [Week -> ScheduleDay]
  BY <1>2, <1>3
<1>5. {n[i].day : i \in Week} = 0 .. LastDay
  <2>1. {n[i].day : i \in Week} = {s[i].day : i \in DOMAIN s}
    BY <1>2, <1>3
  <2> QED
    BY <2>1 DEF IsAccepted
<1>6. PICK k \in Week : ~n[k].closed
  BY <1>2, <1>3 DEF IsAccepted
<1>7. NormalizeSchedule(s) = week
  BY DEF NormalizeSchedule
<1> HIDE DEF n
<1>8. /\ week \in [Week -> ScheduleDay]
      /\ \A i \in Week : week[i].day = i - 1
      /\ \A i \in Week : \E j \in Week : week[i] = n[j]
      /\ \A j \in Week : \E i \in Week : week[i] = n[j]
  BY <1>4, <1>5, SortedWeek
<1> HIDE DEF week
<1>9. week \in Seq(ScheduleDay) /\ Len(week) = LastDay + 1 /\ DOMAIN week = Week
  <2>1. LastDay + 1 \in Nat /\ week \in [1 .. LastDay + 1 -> ScheduleDay]
    BY <1>8 DEF Week
  <2>2. week \in Seq(ScheduleDay)
    BY <2>1, SeqDef
  <2>3. DOMAIN week = Week /\ DOMAIN week = 1 .. Len(week) /\ Len(week) \in Nat
    BY <1>8, <2>2, LenProperties
  <2> QED
    BY <2>2, <2>3 DEF Week
<1>10. MakesSense(week)
  <2>1. \A i \in Week :
          /\ week[i].closed => week[i].open = NoTime /\ week[i].close = NoTime
          /\ ~week[i].closed => week[i].open \in Times /\ week[i].open < week[i].close
    <3> TAKE i \in Week
    <3>1. PICK j \in Week : week[i] = n[j]
      BY <1>8
    <3> QED
      BY <1>3, <3>1
  <2>2. \E i \in Week : ~week[i].closed
    BY <1>6, <1>8
  <2>3. \A i \in DOMAIN week :
          /\ week[i].day = i - 1
          /\ IF week[i].closed THEN week[i].open = NoTime /\ week[i].close = NoTime
             ELSE week[i].open \in Times /\ week[i].open < week[i].close
    BY <1>8, <1>9, <2>1
  <2> QED
    BY <1>9, <2>2, <2>3 DEF MakesSense
<1> QED
  BY <1>7, <1>9, <1>10

-----------------------------------------------------------------------------
(* The catalog.                                                            *)

Editing == {"check", "save", "write"}

\* While nobody else wrote, what a request has read or found is so still.
UpToDate(m) ==
  /\ pc[m] = "insert" => ~IsTaken(copy[m].name, NoEntry)
  /\ pc[m] \in Editing /\ name[m] = NoName => copy[m].name = entry[target[m]].name
  /\ pc[m] \in Editing /\ name[m] # NoName => copy[m].active = entry[target[m]].active
  /\ pc[m] \in {"save", "write"} /\ name[m] # NoName =>
       copy[m].name = name[m] /\ ~IsTaken(name[m], target[m])

\* What a request is about to write is an entry with a name and its schedule.
RequestOK(m) ==
  /\ pc[m] \in {"idle", "insert"} => name[m] = NoName
  /\ pc[m] = "check" => name[m] # NoName
  /\ pc[m] # "idle" => /\ copy[m].name \in Names
                       /\ kind = "points" => MakesSense(copy[m].schedule)
  /\ pc[m] \in Editing => target[m] \in Entries /\ Exists(target[m])
  /\ m \notin stale => UpToDate(m)

CatalogInv ==
  /\ CatalogTypeOK
  /\ ScheduleMakesSense
  /\ \A m \in Editors : RequestOK(m)

\* A row is its three columns, and stays one whatever a request changes in it.
LEMMA RowFields ==
  ASSUME NEW row \in Row
  PROVE  /\ row.name \in Names \cup {NoName} /\ row.active \in BOOLEAN
         /\ row.schedule \in Seq(ScheduleDay)
         /\ DOMAIN row = {"name", "active", "schedule"}
BY DEF Row

LEMMA ActivatedRow ==
  ASSUME NEW row \in Row, NEW b \in BOOLEAN
  PROVE  LET r == [row EXCEPT !.active = b] IN
           r \in Row /\ r.name = row.name /\ r.schedule = row.schedule
BY DEF Row

\* A save writes a row whose columns are those of the row or of the copy.
LEMMA WrittenRow ==
  ASSUME NEW row \in Row, NEW c \in Row, NEW cs
  PROVE  LET w == Written(row, c, cs) IN
           /\ w \in Row /\ w.name \in {row.name, c.name}
           /\ w.active \in {row.active, c.active} /\ w.schedule \in {row.schedule, c.schedule}
<1> DEFINE w == Written(row, c, cs)
<1>1. /\ w = [name |-> w.name, active |-> w.active, schedule |-> w.schedule]
      /\ \A f \in DOMAIN row : w[f] = IF f \in cs THEN c[f] ELSE row[f]
  BY RowFields DEF Written, Row
<1>2. /\ w.name \in {row.name, c.name} /\ w.active \in {row.active, c.active}
      /\ w.schedule \in {row.schedule, c.schedule}
  BY <1>1, RowFields
<1>3. w \in Row
  BY <1>1, <1>2, RowFields DEF Row
<1> QED
  BY <1>2, <1>3

\* The schedules that are written.
LEMMA AcceptedSchedules ==
  ASSUME NEW s \in Accepted
  PROVE  s \in Seq(ScheduleDay) /\ (kind = "points" => MakesSense(s))
<1>1. CASE kind = "points"
  BY <1>1, NormalizedMakesSense DEF Accepted
<1>2. CASE kind # "points"
  BY <1>2 DEF Accepted
<1> QED
  BY <1>1, <1>2

LEMMA InitCatalogInv == CatalogInit => CatalogInv
<1> SUFFICES ASSUME CatalogInit PROVE CatalogInv
  OBVIOUS
<1>1. NoRow \in Row
  BY DEF NoRow, Row
<1>2. CatalogTypeOK
  BY <1>1 DEF CatalogInit, CatalogTypeOK, Steps
<1>3. ScheduleMakesSense
  BY DEF CatalogInit, ScheduleMakesSense, Exists, NoRow
<1>4. \A m \in Editors : RequestOK(m)
  BY DEF CatalogInit, RequestOK, UpToDate, Editing
<1> QED
  BY <1>2, <1>3, <1>4 DEF CatalogInv

\* Nothing changes for the others when nothing is written.
LEMMA QuietKeeps ==
  ASSUME NEW m \in Editors, CatalogInv, CatalogTypeOK', UNCHANGED <<kind, entry>>,
         \A q \in Editors : q # m =>
           /\ pc'[q] = pc[q] /\ target'[q] = target[q] /\ name'[q] = name[q] /\ copy'[q] = copy[q]
           /\ q \in stale => q \in stale',
         RequestOK(m)'
  PROVE  CatalogInv'
<1>1. ScheduleMakesSense'
  BY DEF CatalogInv, ScheduleMakesSense, Exists
<1>2. ASSUME NEW q \in Editors, q # m PROVE RequestOK(q)'
  <2>1. UpToDate(q) => UpToDate(q)'
    BY <1>2 DEF UpToDate, IsTaken, Exists
  <2> QED
    BY <1>2, <2>1 DEF CatalogInv, RequestOK, Exists
<1> QED
  BY <1>1, <1>2 DEF CatalogInv

\* A request that ends writes nothing.
LEMMA RefuseKeeps == ASSUME NEW m \in Editors, CatalogInv, Refuse(m) PROVE CatalogInv'
<1>1. /\ pc' = [pc EXCEPT ![m] = "idle"] /\ target' = [target EXCEPT ![m] = NoEntry]
      /\ name' = [name EXCEPT ![m] = NoName] /\ copy' = [copy EXCEPT ![m] = NoRow]
      /\ cols' = [cols EXCEPT ![m] = {}] /\ stale' = stale \ {m} /\ UNCHANGED <<kind, entry>>
  BY DEF Refuse, End
<1>2. CatalogTypeOK'
  <2>1. NoRow \in Row
    BY DEF NoRow, Row
  <2> QED
    BY <1>1, <2>1 DEF CatalogInv, CatalogTypeOK, Steps
<1>3. RequestOK(m)'
  BY <1>1 DEF RequestOK, UpToDate, Editing, CatalogInv, CatalogTypeOK
<1> QED
  BY <1>1, <1>2, <1>3, QuietKeeps DEF CatalogInv, CatalogTypeOK

LEMMA CreateKeeps ==
  ASSUME NEW m \in Editors, NEW n \in Names, CatalogInv, Create(m, n) PROVE CatalogInv'
<1>1. PICK s \in Accepted :
        copy' = [copy EXCEPT ![m] = [name |-> n, active |-> TRUE, schedule |-> s]]
  BY DEF Create
<1>2. /\ pc[m] = "idle" /\ pc' = [pc EXCEPT ![m] = "insert"] /\ ~IsTaken(n, NoEntry)
      /\ UNCHANGED <<kind, entry, target, name, cols, stale>>
  BY DEF Create, Goto
<1> DEFINE r == [name |-> n, active |-> TRUE, schedule |-> s]
<1>3. r \in Row /\ r.name = n /\ r.schedule = s
  BY AcceptedSchedules DEF Row
<1> HIDE DEF r
<1>4. CatalogTypeOK'
  BY <1>1, <1>2, <1>3 DEF CatalogInv, CatalogTypeOK, Steps, r
<1>5. RequestOK(m)'
  <2>1. pc'[m] = "insert" /\ copy'[m] = r /\ name'[m] = NoName
    BY <1>1, <1>2 DEF CatalogInv, CatalogTypeOK, RequestOK, r
  <2>2. IsTaken(n, NoEntry)' = IsTaken(n, NoEntry)
    BY <1>2 DEF IsTaken, Exists
  <2>3. copy'[m].name = n /\ (kind = "points" => MakesSense(copy'[m].schedule))
    BY <1>3, <2>1, AcceptedSchedules
  <2> QED
    BY <1>2, <2>1, <2>2, <2>3 DEF RequestOK, UpToDate, Editing
<1> QED
  BY <1>1, <1>2, <1>4, <1>5, QuietKeeps DEF CatalogInv, CatalogTypeOK

LEMMA BeginUpdateKeeps ==
  ASSUME NEW m \in Editors, NEW e \in Entries, NEW n \in Names, CatalogInv, BeginUpdate(m, e, n)
  PROVE  CatalogInv'
<1>1. /\ pc[m] = "idle" /\ pc' = [pc EXCEPT ![m] = "check"] /\ Exists(e)
      /\ target' = [target EXCEPT ![m] = e] /\ name' = [name EXCEPT ![m] = n]
      /\ copy' = [copy EXCEPT ![m] = entry[e]] /\ UNCHANGED <<kind, entry, cols, stale>>
  BY DEF BeginUpdate, Goto
<1>2. CatalogTypeOK'
  BY <1>1 DEF CatalogInv, CatalogTypeOK, Steps
<1>3. entry[e] \in Row /\ entry[e].name \in Names /\ (kind = "points" => MakesSense(entry[e].schedule))
  BY <1>1, RowFields DEF CatalogInv, CatalogTypeOK, ScheduleMakesSense, Exists
<1>4. RequestOK(m)'
  <2>1. /\ pc'[m] = "check" /\ target'[m] = e /\ name'[m] = n /\ n # NoName
        /\ copy'[m] = entry[e]
    BY <1>1 DEF CatalogInv, CatalogTypeOK
  <2> QED
    BY <1>1, <1>3, <2>1 DEF RequestOK, UpToDate, Editing, Exists
<1> QED
  BY <1>1, <1>2, <1>4, QuietKeeps DEF CatalogInv, CatalogTypeOK

LEMMA CheckKeeps == ASSUME NEW m \in Editors, CatalogInv, Check(m) PROVE CatalogInv'
<1>1. PICK s \in Accepted : copy' = [copy EXCEPT ![m].name = name[m], ![m].schedule = s]
  BY DEF Check
<1>2. /\ pc[m] = "check" /\ pc' = [pc EXCEPT ![m] = "save"] /\ ~IsTaken(name[m], target[m])
      /\ UNCHANGED <<kind, entry, target, name, cols, stale>>
  BY DEF Check, Goto
<1> DEFINE r == [copy[m] EXCEPT !.name = name[m], !.schedule = s]
<1>3. /\ s \in Seq(ScheduleDay) /\ (kind = "points" => MakesSense(s))
      /\ name[m] \in Names /\ name[m] # NoName /\ copy[m] \in Row
  BY <1>2, AcceptedSchedules DEF CatalogInv, CatalogTypeOK, RequestOK
<1>4. r \in Row /\ r.name = name[m] /\ r.schedule = s /\ r.active = copy[m].active
  <2>1. PICK u \in Row, n \in Names : u = copy[m] /\ n = name[m]
    BY <1>3
  <2>2. r = [u EXCEPT !.name = n, !.schedule = s]
    BY <2>1
  <2> HIDE DEF r
  <2>3. s \in Seq(ScheduleDay)
    BY <1>3
  <2>4. r \in Row /\ r.name = n /\ r.schedule = s /\ r.active = u.active
    BY <2>2, <2>3 DEF Row
  <2> QED
    BY <2>1, <2>4
<1>5. copy' = [copy EXCEPT ![m] = r]
  BY <1>1 DEF CatalogInv, CatalogTypeOK
<1> HIDE DEF r
<1>6. CatalogTypeOK'
  BY <1>2, <1>4, <1>5 DEF CatalogInv, CatalogTypeOK, Steps
<1>7. RequestOK(m)'
  <2>1. pc'[m] = "save" /\ copy'[m] = r
    BY <1>2, <1>5 DEF CatalogInv, CatalogTypeOK
  <2>2. IsTaken(name[m], target[m])' = IsTaken(name[m], target[m])
    BY <1>2 DEF IsTaken, Exists
  <2>3. /\ target[m] \in Entries /\ Exists(target[m])
        /\ m \notin stale => copy[m].active = entry[target[m]].active
    BY <1>2, <1>3 DEF CatalogInv, RequestOK, UpToDate, Editing
  <2> QED
    BY <1>2, <1>3, <1>4, <2>1, <2>2, <2>3 DEF RequestOK, UpToDate, Editing, Exists
<1> QED
  BY <1>2, <1>5, <1>6, <1>7, QuietKeeps DEF CatalogInv, CatalogTypeOK

LEMMA BeginSetActiveKeeps ==
  ASSUME NEW m \in Editors, NEW e \in Entries, NEW b \in BOOLEAN,
         CatalogInv, BeginSetActive(m, e, b)
  PROVE  CatalogInv'
<1> DEFINE r == [entry[e] EXCEPT !.active = b]
<1>1. /\ pc[m] = "idle" /\ pc' = [pc EXCEPT ![m] = "save"] /\ Exists(e)
      /\ target' = [target EXCEPT ![m] = e] /\ copy' = [copy EXCEPT ![m] = r]
      /\ UNCHANGED <<kind, entry, name, cols, stale>>
  BY DEF BeginSetActive, Goto
<1>2. /\ entry[e] \in Row /\ entry[e].name \in Names
      /\ kind = "points" => MakesSense(entry[e].schedule)
  BY <1>1, RowFields DEF CatalogInv, CatalogTypeOK, ScheduleMakesSense, Exists
<1>3. r \in Row /\ r.name = entry[e].name /\ r.schedule = entry[e].schedule
  BY <1>2, ActivatedRow
<1> HIDE DEF r
<1>4. CatalogTypeOK'
  BY <1>1, <1>3 DEF CatalogInv, CatalogTypeOK, Steps
<1>5. RequestOK(m)'
  <2>1. pc'[m] = "save" /\ target'[m] = e /\ name'[m] = NoName /\ copy'[m] = r
    BY <1>1 DEF CatalogInv, CatalogTypeOK, RequestOK
  <2> QED
    BY <1>1, <1>2, <1>3, <2>1 DEF RequestOK, UpToDate, Editing, Exists
<1> QED
  BY <1>1, <1>4, <1>5, QuietKeeps DEF CatalogInv, CatalogTypeOK

LEMMA SaveKeeps == ASSUME NEW m \in Editors, CatalogInv, Save(m) PROVE CatalogInv'
<1>1. /\ pc[m] = "save" /\ pc' = [pc EXCEPT ![m] = "write"]
      /\ cols' = [cols EXCEPT ![m] = Dirty(copy[m], entry[target[m]])]
      /\ UNCHANGED <<kind, entry, target, name, copy, stale>>
  BY DEF Save, Goto
<1>2. Dirty(copy[m], entry[target[m]]) \subseteq DOMAIN NoRow
  <2>1. entry[target[m]] \in Row
    BY <1>1 DEF CatalogInv, CatalogTypeOK, RequestOK, Editing
  <2> QED
    BY <2>1, RowFields DEF Dirty, NoRow
<1>3. CatalogTypeOK'
  BY <1>1, <1>2 DEF CatalogInv, CatalogTypeOK, Steps
<1>4. RequestOK(m)'
  <2>1. IsTaken(name[m], target[m])' = IsTaken(name[m], target[m]) /\ pc'[m] = "write"
    BY <1>1 DEF IsTaken, Exists, CatalogInv, CatalogTypeOK
  <2> QED
    BY <1>1, <2>1 DEF CatalogInv, RequestOK, UpToDate, Editing, Exists
<1> QED
  BY <1>1, <1>3, <1>4, QuietKeeps DEF CatalogInv, CatalogTypeOK

\* A request that writes, and ends: whoever is in the middle of another is
\* overtaken, unless the row is as it was.
LEMMA WritesKeep ==
  ASSUME NEW m \in Editors, NEW e \in Entries, NEW row \in Row,
         CatalogInv, SetEntry(m, e, row), End(m), row.name \in Names,
         kind = "points" => MakesSense(row.schedule)
  PROVE  CatalogInv'
<1>1. /\ entry' = [entry EXCEPT ![e] = row]
      /\ pc' = [pc EXCEPT ![m] = "idle"] /\ target' = [target EXCEPT ![m] = NoEntry]
      /\ name' = [name EXCEPT ![m] = NoName] /\ copy' = [copy EXCEPT ![m] = NoRow]
      /\ cols' = [cols EXCEPT ![m] = {}] /\ UNCHANGED kind
      /\ stale' = IF entry[e] = row THEN stale \ {m} ELSE {q \in Editors \ {m} : pc[q] # "idle"}
  BY DEF SetEntry, End
<1>2. CatalogTypeOK'
  <2>1. NoRow \in Row
    BY DEF NoRow, Row
  <2>2. stale' \subseteq Editors
    BY <1>1 DEF CatalogInv, CatalogTypeOK
  <2> QED
    BY <1>1, <2>1, <2>2 DEF CatalogInv, CatalogTypeOK, Steps
<1>3. ScheduleMakesSense' /\ \A x \in Entries : Exists(x) => Exists(x)'
  BY <1>1 DEF CatalogInv, CatalogTypeOK, ScheduleMakesSense, Exists
<1>4. RequestOK(m)'
  BY <1>1 DEF RequestOK, UpToDate, Editing, CatalogInv, CatalogTypeOK
<1>5. ASSUME NEW q \in Editors, q # m PROVE RequestOK(q)'
  <2>1. /\ pc'[q] = pc[q] /\ target'[q] = target[q] /\ name'[q] = name[q] /\ copy'[q] = copy[q]
    BY <1>1, <1>5 DEF CatalogInv, CatalogTypeOK
  <2>2. q \notin stale' => UpToDate(q)'
    <3>1. CASE entry[e] = row
      <4>1. entry' = entry
        BY <1>1, <3>1 DEF CatalogInv, CatalogTypeOK
      <4>2. UpToDate(q) => UpToDate(q)'
        BY <2>1, <4>1 DEF UpToDate, IsTaken, Exists
      <4> QED
        BY <1>1, <1>5, <3>1, <4>2 DEF CatalogInv, RequestOK
    <3>2. CASE entry[e] # row
      <4>1. q \notin stale' => pc'[q] = "idle"
        BY <1>1, <1>5, <2>1, <3>2
      <4> QED
        BY <4>1 DEF UpToDate, Editing
    <3> QED
      BY <3>1, <3>2
  <2> QED
    BY <1>1, <1>3, <2>1, <2>2 DEF CatalogInv, RequestOK
<1> QED
  BY <1>2, <1>3, <1>4, <1>5 DEF CatalogInv

\* The row that is written for an edit.
LEMMA RowToWrite ==
  ASSUME NEW m \in Editors, CatalogInv, pc[m] = "write"
  PROVE  LET row == Written(entry[target[m]], copy[m], cols[m]) IN
           /\ target[m] \in Entries /\ Exists(target[m])
           /\ row \in Row /\ row.name \in Names
           /\ row.name \in {entry[target[m]].name, copy[m].name}
           /\ row.active \in {entry[target[m]].active, copy[m].active}
           /\ kind = "points" => MakesSense(row.schedule)
<1> DEFINE row == Written(entry[target[m]], copy[m], cols[m])
<1>1. /\ target[m] \in Entries /\ Exists(target[m])
      /\ entry[target[m]] \in Row /\ copy[m] \in Row
      /\ entry[target[m]].name \in Names /\ copy[m].name \in Names
      /\ kind = "points" =>
           MakesSense(entry[target[m]].schedule) /\ MakesSense(copy[m].schedule)
  <2>1. target[m] \in Entries /\ Exists(target[m]) /\ copy[m].name \in Names /\ copy[m] \in Row
    BY DEF CatalogInv, CatalogTypeOK, RequestOK, Editing
  <2>2. entry[target[m]] \in Row /\ entry[target[m]].name \in Names
    BY <2>1, RowFields DEF CatalogInv, CatalogTypeOK, Exists
  <2> QED
    BY <2>1, <2>2 DEF CatalogInv, RequestOK, ScheduleMakesSense
<1>2. /\ row \in Row /\ row.name \in {entry[target[m]].name, copy[m].name}
      /\ row.active \in {entry[target[m]].active, copy[m].active}
      /\ row.schedule \in {entry[target[m]].schedule, copy[m].schedule}
  BY <1>1, WrittenRow
<1> HIDE DEF row
<1> QED
  BY <1>1, <1>2 DEF row

LEMMA InsertKeeps == ASSUME NEW m \in Editors, CatalogInv, Insert(m) PROVE CatalogInv'
<1>1. PICK e \in Entries :
        /\ ~Exists(e)
        /\ IF Allows(e, copy[m].name) THEN SetEntry(m, e, copy[m]) /\ End(m) ELSE Refuse(m)
  BY DEF Insert
<1>2. copy[m] \in Row /\ copy[m].name \in Names /\ (kind = "points" => MakesSense(copy[m].schedule))
  BY DEF Insert, CatalogInv, CatalogTypeOK, RequestOK
<1>3. CASE Refuse(m)
  BY <1>3, RefuseKeeps
<1>4. CASE SetEntry(m, e, copy[m]) /\ End(m)
  BY <1>2, <1>4, WritesKeep
<1> QED
  BY <1>1, <1>3, <1>4

LEMMA WriteKeeps == ASSUME NEW m \in Editors, CatalogInv, Write(m) PROVE CatalogInv'
<1> DEFINE row == Written(entry[target[m]], copy[m], cols[m])
<1>1. /\ pc[m] = "write"
      /\ IF Allows(target[m], row.name) THEN SetEntry(m, target[m], row) /\ End(m) ELSE Refuse(m)
  BY DEF Write
<1>2. /\ target[m] \in Entries /\ row \in Row /\ row.name \in Names
      /\ kind = "points" => MakesSense(row.schedule)
  BY <1>1, RowToWrite
<1> HIDE DEF row
<1>3. CASE Refuse(m)
  BY <1>3, RefuseKeeps
<1>4. CASE SetEntry(m, target[m], row) /\ End(m)
  BY <1>2, <1>4, WritesKeep
<1> QED
  BY <1>1, <1>3, <1>4

LEMMA EditKeeps == ASSUME NEW m \in Editors, CatalogInv, Edit(m) PROVE CatalogInv'
<1>1. ASSUME NEW n \in Names, Create(m, n) PROVE CatalogInv'
  BY <1>1, CreateKeeps
<1>2. ASSUME NEW n \in Names, NEW e \in Entries, BeginUpdate(m, e, n) PROVE CatalogInv'
  BY <1>2, BeginUpdateKeeps
<1>3. ASSUME NEW e \in Entries, Toggle(m, e) PROVE CatalogInv'
  <2>1. PICK b \in BOOLEAN : b = ~entry[e].active
    OBVIOUS
  <2>2. BeginSetActive(m, e, b)
    BY <1>3, <2>1 DEF Toggle
  <2> QED
    BY <2>2, BeginSetActiveKeeps
<1>4. ASSUME NEW e \in Entries, NEW active \in BOOLEAN, SetActive(m, e, active) PROVE CatalogInv'
  BY <1>4, BeginSetActiveKeeps DEF SetActive
<1>5. CASE Insert(m)
  BY <1>5, InsertKeeps
<1>6. CASE Check(m)
  BY <1>6, CheckKeeps
<1>7. CASE CheckRefuses(m) \/ Fail(m)
  BY <1>7, RefuseKeeps DEF CheckRefuses, Fail
<1>8. CASE Save(m)
  BY <1>8, SaveKeeps
<1>9. CASE Write(m)
  BY <1>9, WriteKeeps
<1> QED
  BY <1>1, <1>2, <1>3, <1>4, <1>5, <1>6, <1>7, <1>8, <1>9 DEF Edit

LEMMA QuietCatalog == CatalogInv /\ UNCHANGED catalogVars => CatalogInv'
<1> SUFFICES ASSUME CatalogInv, UNCHANGED catalogVars PROVE CatalogInv'
  OBVIOUS
<1>1. UNCHANGED <<kind, entry, pc, target, name, copy, cols, stale>>
  BY DEF catalogVars, requestVars
<1>2. CatalogTypeOK' /\ ScheduleMakesSense'
  BY <1>1 DEF CatalogInv, CatalogTypeOK, ScheduleMakesSense, Exists
<1>3. ASSUME NEW m \in Editors PROVE RequestOK(m)'
  BY <1>1 DEF CatalogInv, RequestOK, UpToDate, IsTaken, Exists
<1> QED
  BY <1>2, <1>3 DEF CatalogInv

LEMMA NextCatalogInv == CatalogInv /\ [Next]_vars => CatalogInv'
<1> SUFFICES ASSUME CatalogInv, [Next]_vars PROVE CatalogInv'
  OBVIOUS
<1>1. (\E m \in Editors : Edit(m)) \/ UNCHANGED catalogVars
  BY DEF Next, vars
<1> QED
  BY <1>1, EditKeeps, QuietCatalog

LEMMA CatalogHolds == FairSpec => []CatalogInv
<1>1. Init => CatalogInv
  BY InitCatalogInv DEF Init
<1> QED
  BY <1>1, NextCatalogInv, PTL DEF FairSpec

\* What the page shows of a point makes sense: normalizeSchedule has made a whole
\* week of every schedule that gets to a row, and no save mixes two of them.
THEOREM ScheduleKept == FairSpec => []ScheduleMakesSense
<1>1. CatalogInv => ScheduleMakesSense
  BY DEF CatalogInv
<1> QED
  BY <1>1, CatalogHolds, PTL

-----------------------------------------------------------------------------
(* What a write does to the rows.                                          *)

\* Only an insert and the write of a save change a row, and they end a request.
LEMMA EntryWritten ==
  ASSUME NEW m \in Editors, CatalogInv, Edit(m), entry' # entry
  PROVE  \E e \in Entries, row \in Row :
           /\ SetEntry(m, e, row) /\ End(m) /\ Allows(e, row.name)
           /\ \/ pc[m] = "insert" /\ ~Exists(e) /\ row = copy[m]
              \/ /\ pc[m] = "write" /\ e = target[m]
                 /\ row = Written(entry[e], copy[m], cols[m])
<1>1. Insert(m) \/ Write(m)
  BY DEF Edit, Create, BeginUpdate, Toggle, SetActive, BeginSetActive, Check, CheckRefuses,
         Save, Fail, Refuse
<1>2. CASE Insert(m)
  <2>1. PICK e \in Entries :
          /\ ~Exists(e)
          /\ IF Allows(e, copy[m].name) THEN SetEntry(m, e, copy[m]) /\ End(m) ELSE Refuse(m)
    BY <1>2 DEF Insert
  <2>2. SetEntry(m, e, copy[m]) /\ End(m) /\ Allows(e, copy[m].name)
    BY <2>1 DEF Refuse
  <2>3. pc[m] = "insert" /\ copy[m] \in Row
    BY <1>2 DEF Insert, CatalogInv, CatalogTypeOK
  <2> QED
    BY <2>1, <2>2, <2>3
<1>3. CASE Write(m)
  <2> DEFINE row == Written(entry[target[m]], copy[m], cols[m])
  <2>1. /\ pc[m] = "write"
        /\ IF Allows(target[m], row.name) THEN SetEntry(m, target[m], row) /\ End(m) ELSE Refuse(m)
    BY <1>3 DEF Write
  <2>2. SetEntry(m, target[m], row) /\ End(m) /\ Allows(target[m], row.name)
    BY <2>1 DEF Refuse
  <2>3. target[m] \in Entries /\ row \in Row
    BY <2>1, RowToWrite
  <2> QED
    BY <2>1, <2>2, <2>3
<1> QED
  BY <1>1, <1>2, <1>3

\* A pair of equal names that was not there has the row that changed, and another
\* that did not.
LEMMA NewDuplicate ==
  ASSUME NEW e \in Entries, NEW row \in Row, CatalogTypeOK, entry' = [entry EXCEPT ![e] = row],
         NEW p \in Duplicates' \ Duplicates
  PROVE  /\ e \in p
         /\ \E f \in p \ {e} : /\ f \in Entries /\ Exists(f)
                             /\ Lower[entry[f].name] = Lower[row.name]
         /\ ~(Exists(e) /\ Lower[entry[e].name] = Lower[row.name])
<1>1. /\ p \in SUBSET Entries /\ Cardinality(p) = 2
      /\ \A x \in p : entry'[x].name # NoName
      /\ \A x, y \in p : Lower[entry'[x].name] = Lower[entry'[y].name]
  BY DEF Duplicates, Exists
<1>2. entry'[e] = row /\ \A x \in Entries \ {e} : entry'[x] = entry[x]
  BY DEF CatalogTypeOK
<1>3. e \in p
  <2> SUFFICES ASSUME e \notin p PROVE FALSE
    OBVIOUS
  <2>1. \A x \in p : entry'[x] = entry[x]
    BY <1>1, <1>2
  <2> QED
    BY <1>1, <2>1 DEF Duplicates, Exists
<1>4. PICK f \in p : f # e
  <2> SUFFICES ASSUME \A f \in p : f = e PROVE FALSE
    OBVIOUS
  <2>1. p = {e}
    BY <1>3
  <2>2. Cardinality({e}) = 1
    BY FS_Singleton
  <2> QED
    BY <1>1, <2>1, <2>2
<1>5. f \in Entries \ {e} /\ Exists(f) /\ Lower[entry[f].name] = Lower[row.name]
  BY <1>1, <1>2, <1>3, <1>4 DEF Exists
<1>6. ~(Exists(e) /\ Lower[entry[e].name] = Lower[row.name])
  <2> SUFFICES ASSUME Exists(e), Lower[entry[e].name] = Lower[row.name] PROVE FALSE
    OBVIOUS
  <2>1. \A x \in p : Exists(x) /\ Lower[entry[x].name] = Lower[row.name]
    BY <1>1, <1>2, <1>3 DEF Exists
  <2>2. p \in Duplicates
    BY <1>1, <2>1 DEF Duplicates
  <2> QED
    BY <2>2
<1> QED
  BY <1>3, <1>4, <1>5, <1>6

\* Two entries share a name, but for case, only where there is no index, and when
\* another request has written since the one that makes them share it began, or
\* the name does not match the other: the check before the write sees what does.
LEMMA WriteKeepsNamesUnique ==
  ASSUME NEW m \in Editors, CatalogInv, Edit(m), entry' # entry,
         NEW p \in Duplicates' \ Duplicates
  PROVE  /\ kind # "points"
         /\ \/ m \in stale /\ pc[m] \in {"insert", "write"} /\ pc'[m] = "idle"
            \/ \E e, f \in p : e # f /\ <<entry'[e].name, entry'[f].name>> \notin Like
<1>1. PICK e \in Entries, row \in Row :
        /\ SetEntry(m, e, row) /\ End(m) /\ Allows(e, row.name)
        /\ \/ pc[m] = "insert" /\ ~Exists(e) /\ row = copy[m]
           \/ /\ pc[m] = "write" /\ e = target[m]
              /\ row = Written(entry[e], copy[m], cols[m])
  BY EntryWritten
<1>2. CatalogTypeOK /\ entry' = [entry EXCEPT ![e] = row] /\ pc'[m] = "idle"
  BY <1>1 DEF CatalogInv, CatalogTypeOK, SetEntry, End
<1>3. /\ e \in p
      /\ \E f \in p \ {e} : /\ f \in Entries /\ Exists(f)
                          /\ Lower[entry[f].name] = Lower[row.name]
      /\ ~(Exists(e) /\ Lower[entry[e].name] = Lower[row.name])
  BY <1>2, NewDuplicate
<1>4. PICK f \in p \ {e} : /\ f \in Entries \ {e} /\ Exists(f)
                         /\ Lower[entry[f].name] = Lower[row.name]
  BY <1>3
<1>5. ~(Exists(e) /\ Lower[entry[e].name] = Lower[row.name])
  BY <1>3
<1>6. kind # "points"
  BY <1>1, <1>4 DEF Allows
<1>7. entry[f].name \in Names
  BY <1>2, <1>4, RowFields DEF CatalogTypeOK, Exists
<1>8. CASE <<row.name, entry[f].name>> \notin Like
  <2>1. entry'[e] = row /\ entry'[f] = entry[f]
    BY <1>2, <1>4 DEF CatalogTypeOK
  <2> QED
    BY <1>3, <1>4, <1>6, <1>8, <2>1
<1>9. ASSUME m \notin stale, <<row.name, entry[f].name>> \in Like PROVE FALSE
  <2>1. UpToDate(m) /\ RequestOK(m)
    BY <1>9 DEF CatalogInv, RequestOK
  <2>2. CASE pc[m] = "insert" /\ row = copy[m]
    <3>1. row.name \in Names /\ ~IsTaken(row.name, NoEntry)
      BY <2>1, <2>2 DEF RequestOK, UpToDate
    <3>2. f \in Entries \ {NoEntry}
      BY <1>4, CatalogAssumption
    <3> QED
      BY <1>4, <1>9, <3>1, <3>2 DEF IsTaken
  <2>3. CASE pc[m] = "write" /\ e = target[m] /\ row = Written(entry[e], copy[m], cols[m])
    <3>1. Exists(e) /\ row.name \in Names /\ row.name \in {entry[e].name, copy[m].name}
      BY <2>3, RowToWrite
    <3>2. row.name # entry[e].name /\ row.name = copy[m].name
      BY <1>5, <3>1
    <3>3. name[m] # NoName /\ row.name = name[m] /\ ~IsTaken(name[m], e)
      BY <2>1, <2>3, <3>2 DEF UpToDate, Editing
    <3> QED
      BY <1>4, <1>9, <3>1, <3>3 DEF IsTaken
  <2> QED
    BY <1>1, <2>2, <2>3
<1> QED
  BY <1>1, <1>2, <1>6, <1>8, <1>9

\* "Ya existe un insumo con ese nombre" (and its like in the other catalogs):
\* whatever the names, two entries come to share one only in a catalog without the
\* index, by a request that another overtook or a name that does not match the other.
THEOREM UniqueNames == FairSpec => NamesUnique
<1>1. ASSUME CatalogInv, [Next]_vars
      PROVE  [\A p \in Duplicates' \ Duplicates :
                /\ kind # "points"
                /\ \/ \E m \in stale : pc[m] \in {"insert", "write"} /\ pc'[m] = "idle"
                   \/ \E e, f \in p :
                        e # f /\ <<entry'[e].name, entry'[f].name>> \notin Like]_catalogVars
  <2>1. CASE entry' = entry
    <3>1. Duplicates' = Duplicates
      BY <2>1 DEF Duplicates, Exists
    <3> QED
      BY <3>1
  <2>2. CASE entry' # entry
    <3>1. PICK m \in Editors : Edit(m)
      BY <1>1, <2>2 DEF Next, vars, catalogVars
    <3> QED
      BY <1>1, <2>2, <3>1, WriteKeepsNamesUnique
  <2> QED
    BY <2>1, <2>2
<1> QED
  BY <1>1, CatalogHolds, PTL DEF FairSpec, NamesUnique

\* Saving the data of an entry leaves its state as it was: `save` compares with
\* the row as it is then, which differs from what was read only when somebody
\* wrote in between.
THEOREM StateStands == FairSpec => ActiveStands
<1>1. ASSUME CatalogInv, [Next]_vars
      PROVE  [\A e \in Entries, m \in Editors :
                (/\ Exists(e) /\ entry'[e].active # entry[e].active
                 /\ pc[m] = "write" /\ pc'[m] = "idle" /\ target[m] = e)
                => m \in stale \/ name[m] = NoName]_catalogVars
  <2> SUFFICES ASSUME NEW e \in Entries, NEW m \in Editors,
                      Exists(e), entry'[e].active # entry[e].active,
                      pc[m] = "write", pc'[m] = "idle", target[m] = e,
                      m \notin stale, name[m] # NoName
               PROVE  FALSE
    OBVIOUS
  <2>1. PICK q \in Editors : Edit(q)
    BY <1>1 DEF Next, vars, catalogVars
  <2>2. PICK x \in Entries, row \in Row :
          /\ SetEntry(q, x, row) /\ End(q) /\ Allows(x, row.name)
          /\ \/ pc[q] = "insert" /\ ~Exists(x) /\ row = copy[q]
             \/ /\ pc[q] = "write" /\ x = target[q]
                /\ row = Written(entry[x], copy[q], cols[q])
    BY <1>1, <2>1, EntryWritten
  <2>3. q = m
    BY <1>1, <2>2 DEF End, CatalogInv, CatalogTypeOK
  <2>4. x = e /\ entry'[e] = row /\ row = Written(entry[e], copy[m], cols[m])
    BY <1>1, <2>2, <2>3 DEF SetEntry, CatalogInv, CatalogTypeOK
  <2>5. row.active \in {entry[e].active, copy[m].active}
    BY <1>1, <2>4, RowToWrite
  <2>6. copy[m].active = entry[e].active
    BY <1>1 DEF CatalogInv, RequestOK, UpToDate, Editing
  <2> QED
    BY <2>4, <2>5, <2>6
<1> QED
  BY <1>1, CatalogHolds, PTL DEF FairSpec, ActiveStands

-----------------------------------------------------------------------------
(* The geocoder.                                                           *)

USE GeocodingAssumption

\* The chain and the answers tell the same, and a call waits for the pause: its
\* timer never runs before the time since the last call.
GeocodingInv ==
  /\ GeocodingTypeOK
  /\ phase = "calling" => queue # <<>>
  /\ phase = "ready" => sinceCall = MIN_INTERVAL
  /\ phase = "pause" => timer <= sinceCall \/ sinceCall = MIN_INTERVAL

LEMMA InitGeocodingInv == GeocodingInit => GeocodingInv
  BY DEF GeocodingInit, GeocodingInv, GeocodingTypeOK, MaxTimer, IsInjective

LEMMA SearchKeeps == ASSUME NEW c \in Searchers, GeocodingInv, Search(c) PROVE GeocodingInv'
<1>1. /\ queue \in Seq(Searchers) /\ queue' = Append(queue, c)
      /\ answer' = [answer EXCEPT ![c] = "waiting"] /\ answer[c] = "none"
      /\ UNCHANGED <<phase, timer, sinceCall>>
  BY DEF GeocodingInv, GeocodingTypeOK, Search
<1>2. /\ queue' \in Seq(Searchers) /\ Len(queue') = Len(queue) + 1 /\ Len(queue) \in Nat
      /\ \A i \in 1 .. Len(queue) : queue'[i] = queue[i]
      /\ queue'[Len(queue) + 1] = c
      /\ DOMAIN queue = 1 .. Len(queue) /\ DOMAIN queue' = 1 .. Len(queue) + 1
  BY <1>1, AppendProperties, LenProperties
<1>3. \A i \in DOMAIN queue : queue[i] # c
  BY <1>1 DEF GeocodingInv, GeocodingTypeOK
<1>4. IsInjective(queue')
  <2>1. \A i, j \in DOMAIN queue : queue[i] = queue[j] => i = j
    BY DEF GeocodingInv, GeocodingTypeOK, IsInjective
  <2> SUFFICES ASSUME NEW i \in DOMAIN queue', NEW j \in DOMAIN queue', queue'[i] = queue'[j]
               PROVE  i = j
    BY DEF IsInjective
  <2> QED
    BY <1>2, <1>3, <2>1
<1>5. ASSUME NEW d \in Searchers
      PROVE  answer'[d] = "waiting" <=> \E i \in DOMAIN queue' : queue'[i] = d
  <2>1. answer[d] = "waiting" <=> \E i \in DOMAIN queue : queue[i] = d
    BY DEF GeocodingInv, GeocodingTypeOK
  <2>2. answer'[d] = IF d = c THEN "waiting" ELSE answer[d]
    BY <1>1 DEF GeocodingInv, GeocodingTypeOK
  <2>3. (\E i \in DOMAIN queue' : queue'[i] = d) <=> (d = c \/ \E i \in DOMAIN queue : queue[i] = d)
    BY <1>2
  <2> QED
    BY <2>1, <2>2, <2>3
<1>6. answer' \in [Searchers -> {"none", "waiting", "places", "empty"}]
  BY <1>1 DEF GeocodingInv, GeocodingTypeOK
<1>7. queue' # <<>>
  BY <1>2
<1> QED
  BY <1>1, <1>2, <1>4, <1>5, <1>6, <1>7 DEF GeocodingInv, GeocodingTypeOK, MaxTimer

LEMMA SettleKeeps ==
  ASSUME NEW result \in {"places", "empty"}, GeocodingInv, Settle(result) PROVE GeocodingInv'
<1>1. /\ queue \in Seq(Searchers) /\ queue # <<>> /\ queue' = Tail(queue)
      /\ answer' = [answer EXCEPT ![Head(queue)] = result]
      /\ phase' = "pause" /\ timer' = 0 /\ UNCHANGED sinceCall
  BY DEF GeocodingInv, GeocodingTypeOK, Settle
<1>2. /\ Head(queue) = queue[1] /\ Head(queue) \in Searchers
      /\ queue' \in Seq(Searchers) /\ Len(queue') = Len(queue) - 1 /\ Len(queue) \in Nat \ {0}
      /\ \A i \in 1 .. Len(queue) - 1 : queue'[i] = queue[i + 1]
      /\ DOMAIN queue = 1 .. Len(queue) /\ DOMAIN queue' = 1 .. Len(queue) - 1
  BY <1>1, HeadTailProperties, LenProperties, EmptySeq
<1>3. \A i, j \in DOMAIN queue : queue[i] = queue[j] => i = j
  BY DEF GeocodingInv, GeocodingTypeOK, IsInjective
<1>4. IsInjective(queue')
  <2> SUFFICES ASSUME NEW i \in DOMAIN queue', NEW j \in DOMAIN queue', queue'[i] = queue'[j]
               PROVE  i = j
    BY DEF IsInjective
  <2>1. i + 1 \in DOMAIN queue /\ j + 1 \in DOMAIN queue /\ queue[i + 1] = queue[j + 1]
    BY <1>2
  <2>2. i + 1 = j + 1
    BY <1>3, <2>1
  <2> QED
    BY <1>2, <2>2
<1>5. ASSUME NEW d \in Searchers
      PROVE  answer'[d] = "waiting" <=> \E i \in DOMAIN queue' : queue'[i] = d
  <2>1. answer[d] = "waiting" <=> \E i \in DOMAIN queue : queue[i] = d
    BY DEF GeocodingInv, GeocodingTypeOK
  <2>2. answer'[d] = IF d = queue[1] THEN result ELSE answer[d]
    BY <1>1, <1>2 DEF GeocodingInv, GeocodingTypeOK
  <2>3. CASE d = queue[1]
    <3>1. \A i \in DOMAIN queue' : queue'[i] # d
      <4> SUFFICES ASSUME NEW i \in DOMAIN queue', queue'[i] = d PROVE FALSE
        OBVIOUS
      <4>1. i + 1 \in DOMAIN queue /\ 1 \in DOMAIN queue /\ queue[i + 1] = queue[1] /\ i + 1 # 1
        BY <1>2, <2>3
      <4> QED
        BY <1>3, <4>1
    <3> QED
      BY <2>2, <2>3, <3>1
  <2>4. CASE d # queue[1]
    <3>1. ASSUME NEW i \in DOMAIN queue, queue[i] = d PROVE \E j \in DOMAIN queue' : queue'[j] = d
      <4>1. i # 1 /\ i - 1 \in DOMAIN queue' /\ queue'[i - 1] = queue[i]
        BY <1>2, <2>4, <3>1
      <4> QED
        BY <3>1, <4>1
    <3>2. ASSUME NEW i \in DOMAIN queue', queue'[i] = d PROVE \E j \in DOMAIN queue : queue[j] = d
      <4>1. i + 1 \in DOMAIN queue /\ queue[i + 1] = d
        BY <1>2, <3>2
      <4> QED
        BY <4>1
    <3> QED
      BY <2>1, <2>2, <2>4, <3>1, <3>2
  <2> QED
    BY <2>3, <2>4
<1>6. answer' \in [Searchers -> {"none", "waiting", "places", "empty"}]
  BY <1>1, <1>2 DEF GeocodingInv, GeocodingTypeOK
<1> QED
  BY <1>1, <1>2, <1>4, <1>5, <1>6 DEF GeocodingInv, GeocodingTypeOK, MaxTimer

LEMMA CallKeeps == ASSUME GeocodingInv, Call PROVE GeocodingInv'
  BY DEF GeocodingInv, GeocodingTypeOK, Call, MaxTimer, IsInjective

LEMMA EndPauseKeeps == ASSUME GeocodingInv, EndPause PROVE GeocodingInv'
  BY DEF GeocodingInv, GeocodingTypeOK, EndPause, MaxTimer, IsInjective

LEMMA TickKeeps == ASSUME GeocodingInv, Tick PROVE GeocodingInv'
  BY DEF GeocodingInv, GeocodingTypeOK, Tick, Later, MaxTimer, IsInjective

LEMMA ReceiveKeeps == ASSUME NEW c \in Searchers, GeocodingInv, Receive(c) PROVE GeocodingInv'
  BY DEF GeocodingInv, GeocodingTypeOK, Receive, IsInjective

LEMMA NextGeocodingInv == GeocodingInv /\ [Next]_vars => GeocodingInv'
<1> SUFFICES ASSUME GeocodingInv, [Next]_vars PROVE GeocodingInv'
  OBVIOUS
<1>1. CASE UNCHANGED geocodingVars
  BY <1>1 DEF geocodingVars, GeocodingInv, GeocodingTypeOK, IsInjective
<1>2. CASE \E m \in Editors : Receive(m) \/ Search(m)
  BY <1>2, CollectionPointsAssumption, ReceiveKeeps, SearchKeeps
<1>3. CASE Chain
  BY <1>3, CallKeeps, SettleKeeps, EndPauseKeeps DEF Chain, Respond, TimeOut
<1>4. CASE Tick
  BY <1>4, TickKeeps
<1> QED
  BY <1>1, <1>2, <1>3, <1>4 DEF Next, vars

LEMMA GeocodingHolds == FairSpec => []GeocodingInv
<1>1. Init => GeocodingInv
  BY InitGeocodingInv DEF Init
<1> QED
  BY <1>1, NextGeocodingInv, PTL DEF FairSpec

\* The state of the catalog and of the chain of searches stay what they are said
\* to be: nobody is twice in the chain, and who waits is in it.
THEOREM TypeCorrect == FairSpec => []TypeOK
<1>1. CatalogInv /\ GeocodingInv => TypeOK
  BY DEF CatalogInv, GeocodingInv, TypeOK
<1> QED
  BY <1>1, CatalogHolds, GeocodingHolds, PTL

\* "Limita a 1 request por segundo": two calls to the provider are an interval
\* apart, however long each takes and however late the timers are.
THEOREM Spaced == FairSpec => CallsSpaced
<1>1. ASSUME GeocodingInv, [Next]_vars
      PROVE  [phase # "calling" /\ phase' = "calling" => sinceCall >= MIN_INTERVAL]_geocodingVars
  <2>1. phase # "calling" /\ phase' = "calling" => Call
    BY <1>1 DEF Next, vars, geocodingVars, Chain, Respond, TimeOut, Settle, EndPause, Tick,
                Receive, Search
  <2> QED
    BY <1>1, <2>1 DEF Call, GeocodingInv
<1> QED
  BY <1>1, GeocodingHolds, PTL DEF FairSpec, CallsSpaced
=============================================================================
