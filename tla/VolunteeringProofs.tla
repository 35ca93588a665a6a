------------------------- MODULE VolunteeringProofs -------------------------
(***************************************************************************)
(* What the seats of an activity keep however decisions, edits and         *)
(* failures overlap, for every number of managers, members and visitors.   *)
(***************************************************************************)
EXTENDS Volunteering, FiniteSetTheorems, TLAPS

\* The activity is not there before it is created.
AbsentIsBlank == opp.status = "absent" => opp = NoOpp

\* A visitor whose request is about to be inserted has none yet, and sends one.
AppliesOnce ==
  \A q \in Candidates, s \in BOOLEAN : <<q, s>> \in applying =>
    request[q].status = "none" /\ <<q, ~s>> \notin applying

\* What a manager's request has in memory: who it decides, whether that one asked
\* for a seat, and what it is about to write.
AboutMember(m) ==
  pc[m] \in {"acceptLock", "acceptSave", "acceptCommit", "rejectSave", "rejectWrite"}
    => target[m] \in Volunteers

AboutVisitor(m) ==
  pc[m] \in {"approveLock", "invite", "approveSave", "approveCommit",
             "declineSave", "declineWrite"} =>
    /\ target[m] \in Candidates
    /\ request[target[m]].status # "none"
    /\ reqCopy[m].seat = request[target[m]].seat

InMemory(m) ==
  /\ AboutMember(m)
  /\ AboutVisitor(m)
  /\ pc[m] = "approveLock" => reqCopy[m].seat
  /\ pc[m] \in {"declineSave", "declineWrite"} => reqCopy[m].status = "rejected"
  /\ pc[m] \in {"approveSave", "approveCommit"} => reqCopy[m].status = "approved"
  /\ pc[m] \in {"updateSave", "updateWrite"} =>
       opp.status # "absent" /\ oppCopy[m].status # "absent"

\* A transaction that takes a seat has the lock since it saw one that was free.
HoldsSeat(m) ==
  TakesSeat(m) =>
    /\ lock = m
    /\ oppCopy[m] = [opp EXCEPT !.acceptedCount = @ + 1]
    /\ SeatAvailable(opp)

IInv ==
  /\ TypeOK
  /\ AbsentIsBlank
  /\ AppliesOnce
  /\ \A m \in Managers : InMemory(m)
  /\ \A m \in Managers : HoldsSeat(m)

USE VolunteeringAssumption

-----------------------------------------------------------------------------
\* A row of an activity is its three columns...
LEMMA OpportunityFields ==
  ASSUME NEW o \in Opportunity
  PROVE  /\ o.status \in {"absent", "open", "closed", "cancelled"}
         /\ o.capacity \in 0 .. MaxCapacity /\ o.acceptedCount \in 0 .. MaxCapacity
         /\ DOMAIN o = {"status", "capacity", "acceptedCount"}
         /\ o = [status |-> o.status, capacity |-> o.capacity,
                 acceptedCount |-> o.acceptedCount]
BY DEF Opportunity

\* ...and a request is its four.
LEMMA RequestFields ==
  ASSUME NEW q \in Request
  PROVE  /\ q.status \in {"none", "pending", "approved", "rejected"}
         /\ q.seat \in BOOLEAN /\ q.reason \in BOOLEAN /\ q.invitation \in BOOLEAN
         /\ DOMAIN q = {"status", "seat", "reason", "invitation"}
BY DEF Request

\* A request after its decision in memory.
LEMMA DecidedRequest ==
  ASSUME NEW q \in Request
  PROVE  /\ [q EXCEPT !.status = "rejected", !.reason = TRUE] \in Request
         /\ [q EXCEPT !.status = "rejected", !.reason = TRUE].status = "rejected"
         /\ [q EXCEPT !.status = "rejected", !.reason = TRUE].seat = q.seat
         /\ [q EXCEPT !.status = "approved", !.invitation = TRUE] \in Request
         /\ [q EXCEPT !.status = "approved", !.invitation = TRUE].status = "approved"
         /\ [q EXCEPT !.status = "approved", !.invitation = TRUE].seat = q.seat
<1>1. /\ [q EXCEPT !.status = "rejected", !.reason = TRUE] \in Request
      /\ [q EXCEPT !.status = "approved", !.invitation = TRUE] \in Request
  BY DEF Request
<1>2. /\ [q EXCEPT !.status = "rejected", !.reason = TRUE].status = "rejected"
      /\ [q EXCEPT !.status = "rejected", !.reason = TRUE].seat = q.seat
      /\ [q EXCEPT !.status = "approved", !.invitation = TRUE].status = "approved"
      /\ [q EXCEPT !.status = "approved", !.invitation = TRUE].seat = q.seat
  BY DEF Request
<1> QED
  BY <1>1, <1>2

\* The rows that are not there.
LEMMA NoRows ==
  /\ NoOpp \in Opportunity /\ NoOpp.status = "absent"
  /\ NoOpp.capacity = 0 /\ NoOpp.acceptedCount = 0
  /\ DOMAIN NoOpp = {"status", "capacity", "acceptedCount"}
  /\ NoRequest \in Request /\ NoRequest.status = "none" /\ ~NoRequest.seat
  /\ DOMAIN NoRequest = {"status", "seat", "reason", "invitation"}
BY DEF NoOpp, Opportunity, NoRequest, Request

\* What a save makes of an activity.
LEMMA WrittenOpportunity ==
  ASSUME NEW o \in Opportunity, NEW c \in Opportunity, NEW cs
  PROVE  /\ Written(o, c, cs) \in Opportunity
         /\ Written(o, c, cs).status = IF "status" \in cs THEN c.status ELSE o.status
         /\ Written(o, c, cs).acceptedCount =
              IF "acceptedCount" \in cs THEN c.acceptedCount ELSE o.acceptedCount
<1>1. Written(o, c, cs) =
        [status        |-> IF "status" \in cs THEN c.status ELSE o.status,
         capacity      |-> IF "capacity" \in cs THEN c.capacity ELSE o.capacity,
         acceptedCount |-> IF "acceptedCount" \in cs THEN c.acceptedCount ELSE o.acceptedCount]
  BY OpportunityFields DEF Written
<1>2. /\ o.status \in {"absent", "open", "closed", "cancelled"}
      /\ o.capacity \in 0 .. MaxCapacity /\ o.acceptedCount \in 0 .. MaxCapacity
      /\ c.status \in {"absent", "open", "closed", "cancelled"}
      /\ c.capacity \in 0 .. MaxCapacity /\ c.acceptedCount \in 0 .. MaxCapacity
  BY OpportunityFields
<1> QED
  BY <1>1, <1>2 DEF Opportunity

\* What a save makes of a request.
LEMMA WrittenRequest ==
  ASSUME NEW q \in Request, NEW c \in Request, NEW cs
  PROVE  /\ Written(q, c, cs) \in Request
         /\ Written(q, c, cs).status = IF "status" \in cs THEN c.status ELSE q.status
         /\ Written(q, c, cs).seat = IF "seat" \in cs THEN c.seat ELSE q.seat
<1>1. Written(q, c, cs) =
        [status     |-> IF "status" \in cs THEN c.status ELSE q.status,
         seat       |-> IF "seat" \in cs THEN c.seat ELSE q.seat,
         reason     |-> IF "reason" \in cs THEN c.reason ELSE q.reason,
         invitation |-> IF "invitation" \in cs THEN c.invitation ELSE q.invitation]
  BY RequestFields DEF Written
<1>2. /\ (IF "status" \in cs THEN c.status ELSE q.status)
           \in {"none", "pending", "approved", "rejected"}
      /\ (IF "seat" \in cs THEN c.seat ELSE q.seat) \in BOOLEAN
      /\ (IF "reason" \in cs THEN c.reason ELSE q.reason) \in BOOLEAN
      /\ (IF "invitation" \in cs THEN c.invitation ELSE q.invitation) \in BOOLEAN
  BY RequestFields
<1> QED
  BY <1>1, <1>2 DEF Request

\* The columns that a save finds changed are columns.
LEMMA DirtyColumns ==
  /\ \A o, c \in Opportunity : Dirty(c, o) \subseteq DOMAIN NoOpp
  /\ \A q, c \in Request : Dirty(c, q) \subseteq DOMAIN NoRequest
BY OpportunityFields, RequestFields, NoRows DEF Dirty

\* The types, one by one.
LEMMA Types ==
  ASSUME IInv
  PROVE  /\ opp \in Opportunity
         /\ application \in [Volunteers -> {"none", "pending", "accepted", "rejected"}]
         /\ request \in [Candidates -> Request]
         /\ lock \in Managers \cup {NoOne}
         /\ pc \in [Managers -> Steps \cup Deciding]
         /\ target \in [Managers -> Volunteers \cup Candidates \cup {NoOne}]
         /\ oppCopy \in [Managers -> Opportunity]
         /\ reqCopy \in [Managers -> Request]
         /\ cols \in [Managers -> SUBSET (DOMAIN NoOpp \cup DOMAIN NoRequest)]
BY DEF IInv, TypeOK

-----------------------------------------------------------------------------
\* No step takes a request away, or changes whether it asks for a seat.
RequestsStand ==
  \A q \in Candidates : request[q].status # "none" =>
    request'[q].status # "none" /\ request'[q].seat = request[q].seat

\* But one, no step adds a request.
NoNewRequest ==
  \A q \in Candidates : request[q].status = "none" => request'[q].status = "none"

OthersStand(m) ==
  \A n \in Managers : n # m =>
    /\ pc'[n] = pc[n] /\ target'[n] = target[n] /\ oppCopy'[n] = oppCopy[n]
    /\ reqCopy'[n] = reqCopy[n] /\ cols'[n] = cols[n]
    /\ lock = n => lock' = n /\ opp' = opp

\* A step of one manager leaves the others as they were.
LEMMA StepOfOne ==
  ASSUME IInv, NEW m \in Managers, RequestsStand, OthersStand(m),
         opp.status # "absent" => opp'.status # "absent",
         TypeOK', AbsentIsBlank', AppliesOnce', InMemory(m)', HoldsSeat(m)'
  PROVE  IInv'
<1>1. ASSUME NEW n \in Managers, n # m PROVE InMemory(n)'
  <2>1. InMemory(n)
    BY DEF IInv
  <2>2. /\ pc'[n] = pc[n] /\ target'[n] = target[n] /\ oppCopy'[n] = oppCopy[n]
        /\ reqCopy'[n] = reqCopy[n]
    BY <1>1 DEF OthersStand
  <2>3. AboutMember(n)'
    BY <2>1, <2>2 DEF InMemory, AboutMember
  <2>4. AboutVisitor(n)'
    BY <2>1, <2>2 DEF InMemory, AboutVisitor, RequestsStand
  <2> QED
    BY <2>1, <2>2, <2>3, <2>4 DEF InMemory
<1>2. ASSUME NEW n \in Managers, n # m PROVE HoldsSeat(n)'
  <2>1. HoldsSeat(n)
    BY DEF IInv
  <2>2. /\ pc'[n] = pc[n] /\ target'[n] = target[n] /\ oppCopy'[n] = oppCopy[n]
        /\ reqCopy'[n] = reqCopy[n]
        /\ lock = n => lock' = n /\ opp' = opp
    BY <1>2 DEF OthersStand
  <2> QED
    BY <2>1, <2>2 DEF HoldsSeat, TakesSeat
<1> QED
  BY <1>1, <1>2 DEF IInv

\* Nobody's transaction runs when a manager's request has ended.
Ends(m) ==
  /\ pc' = [pc EXCEPT ![m] = "idle"]
  /\ target' = [target EXCEPT ![m] = NoOne]
  /\ oppCopy' = [oppCopy EXCEPT ![m] = NoOpp]
  /\ reqCopy' = [reqCopy EXCEPT ![m] = NoRequest]
  /\ cols' = [cols EXCEPT ![m] = {}]

\* Ending leaves a manager with nothing in memory.
LEMMA EndsClean ==
  ASSUME IInv, NEW m \in Managers, Ends(m)
  PROVE  /\ pc' \in [Managers -> Steps \cup Deciding]
         /\ target' \in [Managers -> Volunteers \cup Candidates \cup {NoOne}]
         /\ oppCopy' \in [Managers -> Opportunity]
         /\ reqCopy' \in [Managers -> Request]
         /\ cols' \in [Managers -> SUBSET (DOMAIN NoOpp \cup DOMAIN NoRequest)]
         /\ InMemory(m)' /\ HoldsSeat(m)'
         /\ \A n \in Managers : n # m =>
              /\ pc'[n] = pc[n] /\ target'[n] = target[n] /\ oppCopy'[n] = oppCopy[n]
              /\ reqCopy'[n] = reqCopy[n] /\ cols'[n] = cols[n]
<1>1. /\ pc' \in [Managers -> Steps \cup Deciding]
      /\ target' \in [Managers -> Volunteers \cup Candidates \cup {NoOne}]
      /\ oppCopy' \in [Managers -> Opportunity]
      /\ reqCopy' \in [Managers -> Request]
      /\ cols' \in [Managers -> SUBSET (DOMAIN NoOpp \cup DOMAIN NoRequest)]
      /\ pc'[m] = "idle"
  BY Types, NoRows DEF Ends, Steps
<1>2. \A n \in Managers : n # m =>
        /\ pc'[n] = pc[n] /\ target'[n] = target[n] /\ oppCopy'[n] = oppCopy[n]
        /\ reqCopy'[n] = reqCopy[n] /\ cols'[n] = cols[n]
  BY Types DEF Ends
<1> QED
  BY <1>1, <1>2 DEF InMemory, AboutMember, AboutVisitor, HoldsSeat, TakesSeat, Deciding

\* A step that ends a request, without a seat, and writes at most a decision.
LEMMA EndKeeps ==
  ASSUME IInv, NEW m \in Managers, Ends(m), RequestsStand, NoNewRequest,
         application' \in [Volunteers -> {"none", "pending", "accepted", "rejected"}],
         request' \in [Candidates -> Request],
         invited' \subseteq Candidates,
         UNCHANGED <<opp, applying>>,
         lock' \in {lock, Unlocked(m)}
  PROVE  IInv'
<1>1. lock' \in Managers \cup {NoOne} /\ \A n \in Managers : n # m /\ lock = n => lock' = n
  BY Types DEF Unlocked
<1>2. TypeOK'
  BY <1>1, EndsClean DEF IInv, TypeOK
<1>3. OthersStand(m)
  BY <1>1, EndsClean DEF OthersStand
<1>4. AbsentIsBlank' /\ (opp.status # "absent" => opp'.status # "absent")
  BY DEF IInv, AbsentIsBlank
<1>5. AppliesOnce'
  BY DEF IInv, AppliesOnce, NoNewRequest
<1> QED
  BY <1>2, <1>3, <1>4, <1>5, EndsClean, StepOfOne

\* A step that changes what a request has in memory and nothing that others see,
\* but the lock that it takes when it is free.
MemoryOnly(m) ==
  /\ UNCHANGED <<opp, application, request, invited, applying>>
  /\ lock' = lock \/ (lock = NoOne /\ lock' = m)
  /\ \E to \in (Steps \cup Deciding) \ {"idle"} : pc' = [pc EXCEPT ![m] = to]
  /\ \E p \in Volunteers \cup Candidates \cup {NoOne} : target' = [target EXCEPT ![m] = p]
                                                       \/ target' = target
  /\ \E o \in Opportunity : oppCopy' = [oppCopy EXCEPT ![m] = o] \/ oppCopy' = oppCopy
  /\ \E q \in Request : reqCopy' = [reqCopy EXCEPT ![m] = q] \/ reqCopy' = reqCopy
  /\ \E c \in SUBSET (DOMAIN NoOpp \cup DOMAIN NoRequest) :
       cols' = [cols EXCEPT ![m] = c] \/ cols' = cols

\* It keeps the invariant if it keeps what is said of that request.
LEMMA MemoryKeeps ==
  ASSUME IInv, NEW m \in Managers, MemoryOnly(m), InMemory(m)', HoldsSeat(m)'
  PROVE  IInv'
<1>1. /\ pc' \in [Managers -> Steps \cup Deciding]
      /\ target' \in [Managers -> Volunteers \cup Candidates \cup {NoOne}]
      /\ oppCopy' \in [Managers -> Opportunity]
      /\ reqCopy' \in [Managers -> Request]
      /\ cols' \in [Managers -> SUBSET (DOMAIN NoOpp \cup DOMAIN NoRequest)]
  BY Types DEF MemoryOnly
<1>2. TypeOK'
  BY <1>1, Types DEF IInv, TypeOK, MemoryOnly
<1>3. OthersStand(m)
  BY Types DEF OthersStand, MemoryOnly
<1>4. RequestsStand /\ AbsentIsBlank' /\ AppliesOnce'
  BY DEF RequestsStand, IInv, AbsentIsBlank, AppliesOnce, MemoryOnly
<1>5. opp.status # "absent" => opp'.status # "absent"
  BY DEF MemoryOnly
<1> QED
  BY <1>2, <1>3, <1>4, <1>5, StepOfOne

-----------------------------------------------------------------------------
\* The first step of a decision or an edit.
LEMMA BeginKeeps ==
  ASSUME IInv, NEW m \in Managers, Begin(m)
  PROVE  IInv'
<1>1. ASSUME NEW u \in Volunteers, BeginAccept(m, u) \/ BeginReject(m, u) PROVE IInv'
  <2>1. PICK to \in {"acceptLock", "rejectSave"} :
          /\ pc' = [pc EXCEPT ![m] = to] /\ target' = [target EXCEPT ![m] = u]
          /\ UNCHANGED <<opp, application, request, invited, applying, lock, oppCopy, reqCopy, cols>>
    BY <1>1 DEF BeginAccept, BeginReject, Goto
  <2>2. pc'[m] = to /\ target'[m] = u
    BY <2>1, Types
  <2>3. MemoryOnly(m)
    BY <2>1, NoRows DEF MemoryOnly, Steps
  <2>4. InMemory(m)' /\ HoldsSeat(m)'
    BY <2>2 DEF InMemory, AboutMember, AboutVisitor, HoldsSeat, TakesSeat, Deciding
  <2> QED
    BY <2>3, <2>4, MemoryKeeps
<1>2. ASSUME NEW q \in Candidates, BeginApprove(m, q) PROVE IInv'
  <2>1. PICK to \in {"approveLock", "invite"} :
          /\ pc' = [pc EXCEPT ![m] = to] /\ target' = [target EXCEPT ![m] = q]
          /\ to = IF request[q].seat THEN "approveLock" ELSE "invite"
          /\ request[q].status = "pending"
          /\ reqCopy' = [reqCopy EXCEPT ![m] = request[q]]
          /\ UNCHANGED <<opp, application, request, invited, applying, lock, oppCopy, cols>>
    BY <1>2 DEF BeginApprove, Goto
  <2>2. pc'[m] = to /\ target'[m] = q /\ reqCopy'[m] = request[q]
    BY <2>1, Types
  <2>3. MemoryOnly(m)
    BY <2>1, Types, NoRows DEF MemoryOnly, Steps, Deciding
  <2>4. InMemory(m)'
    BY <2>1, <2>2 DEF InMemory, AboutMember, AboutVisitor
  <2>5. HoldsSeat(m)'
    BY <2>1, <2>2 DEF HoldsSeat, TakesSeat, Deciding
  <2> QED
    BY <2>3, <2>4, <2>5, MemoryKeeps
<1>3. ASSUME NEW q \in Candidates, BeginDecline(m, q) PROVE IInv'
  <2> DEFINE row == [request[q] EXCEPT !.status = "rejected", !.reason = TRUE]
  <2>1. row \in Request /\ row.status = "rejected" /\ row.seat = request[q].seat
    <3>1. request[q] \in Request
      BY Types
    <3> QED
      BY <3>1, DecidedRequest
  <2>2. /\ pc' = [pc EXCEPT ![m] = "declineSave"] /\ target' = [target EXCEPT ![m] = q]
        /\ request[q].status = "pending"
        /\ reqCopy' = [reqCopy EXCEPT ![m] = row]
        /\ UNCHANGED <<opp, application, request, invited, applying, lock, oppCopy, cols>>
    BY <1>3 DEF BeginDecline, Goto
  <2> HIDE DEF row
  <2>3. pc'[m] = "declineSave" /\ target'[m] = q /\ reqCopy'[m] = row
    BY <2>2, Types
  <2>4. MemoryOnly(m)
    BY <2>1, <2>2, NoRows DEF MemoryOnly, Steps
  <2>5. InMemory(m)' /\ HoldsSeat(m)'
    BY <2>1, <2>2, <2>3 DEF InMemory, AboutMember, AboutVisitor, HoldsSeat, TakesSeat, Deciding
  <2> QED
    BY <2>4, <2>5, MemoryKeeps
<1>4. ASSUME NEW edited \in Opportunity, BeginEdit(m, edited),
             opp.status # "absent", edited.status # "absent"
      PROVE  IInv'
  <2>1. /\ pc' = [pc EXCEPT ![m] = "updateSave"]
        /\ oppCopy' = [oppCopy EXCEPT ![m] = edited]
        /\ UNCHANGED <<opp, application, request, invited, applying, lock, target, reqCopy, cols>>
    BY <1>4 DEF BeginEdit, Goto
  <2>2. pc'[m] = "updateSave" /\ oppCopy'[m] = edited
    BY <2>1, Types
  <2>3. MemoryOnly(m)
    BY <2>1, NoRows DEF MemoryOnly, Steps
  <2>4. InMemory(m)' /\ HoldsSeat(m)'
    BY <1>4, <2>1, <2>2 DEF InMemory, AboutMember, AboutVisitor, HoldsSeat, TakesSeat, Deciding
  <2> QED
    BY <2>3, <2>4, MemoryKeeps
<1>5. CASE BeginUpdate(m)
  <2>1. PICK c \in 1 .. MaxCapacity : BeginEdit(m, [opp EXCEPT !.capacity = c])
    BY <1>5 DEF BeginUpdate
  <2>2. opp.status = "open" /\ opp \in Opportunity
    BY <1>5, Types DEF BeginUpdate
  <2>3. /\ [opp EXCEPT !.capacity = c] \in Opportunity
        /\ [opp EXCEPT !.capacity = c].status = "open"
    BY <2>2, OpportunityFields DEF Opportunity
  <2> QED
    BY <1>4, <2>1, <2>2, <2>3
<1>6. CASE BeginSetStatus(m)
  <2>1. PICK op \in {"close", "cancel"} :
          BeginEdit(m, [opp EXCEPT !.status = NewStatus[op]])
    BY <1>6 DEF BeginSetStatus
  <2>2. opp.status # "absent" /\ opp \in Opportunity /\ NewStatus[op] \in {"closed", "cancelled"}
    BY <1>6, Types DEF BeginSetStatus, NewStatus
  <2>3. /\ [opp EXCEPT !.status = NewStatus[op]] \in Opportunity
        /\ [opp EXCEPT !.status = NewStatus[op]].status # "absent"
    BY <2>2, OpportunityFields DEF Opportunity
  <2> QED
    BY <1>4, <2>1, <2>2, <2>3
<1> QED
  BY <1>1, <1>2, <1>3, <1>5, <1>6 DEF Begin

\* The lock is granted, with a seat or without.
LEMMA GetLockKeeps ==
  ASSUME IInv, NEW m \in Managers, GetLock(m)
  PROVE  IInv'
<1>1. CASE LockRefused(m)
  <2>1. /\ Ends(m)
        /\ UNCHANGED <<opp, application, request, invited, applying, lock>>
    BY <1>1 DEF LockRefused, End, Ends, Goto
  <2> QED
    BY <2>1, Types, EndKeeps DEF RequestsStand, NoNewRequest, IInv, TypeOK
<1>2. CASE LockOpportunity(m)
  <2> DEFINE row == [opp EXCEPT !.acceptedCount = @ + 1]
  <2>1. PICK to \in {"acceptSave", "invite"} :
          /\ pc' = [pc EXCEPT ![m] = to] /\ pc[m] \in {"acceptLock", "approveLock"}
          /\ to = "invite" => pc[m] = "approveLock"
          /\ to = "acceptSave" => pc[m] = "acceptLock"
          /\ lock = NoOne /\ lock' = m /\ SeatAvailable(opp)
          /\ oppCopy' = [oppCopy EXCEPT ![m] = row]
          /\ UNCHANGED <<opp, application, request, invited, applying, target, reqCopy, cols>>
    BY <1>2 DEF LockOpportunity, Goto
  <2>2. row \in Opportunity
    <3>1. opp.acceptedCount + 1 \in 0 .. MaxCapacity
      BY <2>1, Types, OpportunityFields DEF SeatAvailable
    <3> QED
      BY <3>1, Types, OpportunityFields DEF Opportunity
  <2> HIDE DEF row
  <2>3. pc'[m] = to /\ oppCopy'[m] = row
    BY <2>1, Types
  <2>4. MemoryOnly(m)
    BY <2>1, <2>2, NoRows DEF MemoryOnly, Deciding
  <2>5. InMemory(m)'
    <3>1. InMemory(m)
      BY DEF IInv
    <3> QED
      BY <2>1, <2>3, <3>1 DEF InMemory, AboutMember, AboutVisitor
  <2>6. HoldsSeat(m)'
    BY <2>1, <2>3 DEF HoldsSeat, row, SeatAvailable
  <2> QED
    BY <2>4, <2>5, <2>6, MemoryKeeps
<1> QED
  BY <1>1, <1>2 DEF GetLock

\* The comparing reads and the invitation, which stay in memory.
LEMMA PrepareKeeps ==
  ASSUME IInv, NEW m \in Managers,
         \/ Invite(m) \/ AcceptSave(m) \/ ApproveSave(m)
         \/ RejectSave(m) \/ DeclineSave(m) \/ EditSave(m)
  PROVE  IInv'
<1>0. InMemory(m) /\ HoldsSeat(m)
  BY DEF IInv
<1>1. CASE Invite(m)
  <2> DEFINE row == [reqCopy[m] EXCEPT !.status = "approved", !.invitation = TRUE]
  <2>1. /\ pc[m] = "invite" /\ pc' = [pc EXCEPT ![m] = "approveSave"]
        /\ reqCopy' = [reqCopy EXCEPT ![m] = row]
        /\ UNCHANGED <<opp, application, request, invited, applying, lock, target, oppCopy, cols>>
    BY <1>1 DEF Invite, Goto
  <2>2. row \in Request /\ row.status = "approved" /\ row.seat = reqCopy[m].seat
    BY Types, DecidedRequest
  <2> HIDE DEF row
  <2>3. pc'[m] = "approveSave" /\ reqCopy'[m] = row
    BY <2>1, Types
  <2>4. MemoryOnly(m)
    BY <2>1, <2>2, NoRows DEF MemoryOnly, Deciding
  <2>5. InMemory(m)'
    BY <1>0, <2>1, <2>2, <2>3 DEF InMemory, AboutMember, AboutVisitor
  <2>6. HoldsSeat(m)'
    BY <1>0, <2>1, <2>2, <2>3 DEF HoldsSeat, TakesSeat, Deciding
  <2> QED
    BY <2>4, <2>5, <2>6, MemoryKeeps
<1>2. ASSUME NEW from, NEW to \in (Steps \cup Deciding) \ {"idle"},
             NEW c \in SUBSET (DOMAIN NoOpp \cup DOMAIN NoRequest),
             <<from, to>> \in {<<"acceptSave", "acceptCommit">>, <<"approveSave", "approveCommit">>,
                               <<"rejectSave", "rejectWrite">>, <<"declineSave", "declineWrite">>,
                               <<"updateSave", "updateWrite">>},
             Goto(m, from, to), cols' = [cols EXCEPT ![m] = c],
             UNCHANGED <<opp, application, request, invited, applying, lock, target,
                         oppCopy, reqCopy>>
      PROVE  IInv'
  <2>1. pc[m] = from /\ pc'[m] = to
    BY <1>2, Types DEF Goto
  <2>2. MemoryOnly(m)
    BY <1>2, NoRows DEF MemoryOnly, Goto
  <2>3. InMemory(m)'
    BY <1>0, <1>2, <2>1 DEF InMemory, AboutMember, AboutVisitor
  <2>4. HoldsSeat(m)'
    BY <1>0, <1>2, <2>1 DEF HoldsSeat, TakesSeat, Deciding
  <2> QED
    BY <2>2, <2>3, <2>4, MemoryKeeps
<1>3. CASE AcceptSave(m)
  <2>1. PICK c \in SUBSET DOMAIN NoOpp : cols' = [cols EXCEPT ![m] = c]
    BY <1>3, NoRows DEF AcceptSave
  <2> QED
    BY <1>2, <1>3, <2>1 DEF AcceptSave, Deciding
<1>4. CASE ApproveSave(m)
  <2>1. Dirty(reqCopy[m], request[target[m]]) \subseteq DOMAIN NoRequest
    BY <1>0, <1>4, Types, DirtyColumns DEF ApproveSave, Goto, InMemory, AboutVisitor
  <2> QED
    BY <1>2, <1>4, <2>1 DEF ApproveSave, Deciding
<1>5. CASE RejectSave(m)
  <2>1. PICK c \in SUBSET DOMAIN NoOpp : cols' = [cols EXCEPT ![m] = c]
    BY <1>5, NoRows DEF RejectSave
  <2> QED
    BY <1>2, <1>5, <2>1 DEF RejectSave, Steps
<1>6. CASE DeclineSave(m)
  <2>1. Dirty(reqCopy[m], request[target[m]]) \subseteq DOMAIN NoRequest
    BY <1>0, <1>6, Types, DirtyColumns DEF DeclineSave, Goto, InMemory, AboutVisitor
  <2> QED
    BY <1>2, <1>6, <2>1 DEF DeclineSave, Steps
<1>7. CASE EditSave(m)
  <2>1. Dirty(oppCopy[m], opp) \subseteq DOMAIN NoOpp
    BY Types, DirtyColumns
  <2> QED
    BY <1>2, <1>7, <2>1 DEF EditSave, Steps
<1> QED
  BY <1>1, <1>3, <1>4, <1>5, <1>6, <1>7

-----------------------------------------------------------------------------
\* A seat that was taken in memory is written: it was free, and still is.
LEMMA SeatWritten ==
  ASSUME IInv, NEW m \in Managers, TakesSeat(m)
  PROVE  /\ lock = m /\ oppCopy[m] \in Opportunity
         /\ opp.status \notin {"absent", "cancelled"} /\ oppCopy[m].status = opp.status
         /\ oppCopy[m].acceptedCount = opp.acceptedCount + 1
         /\ oppCopy[m].acceptedCount <= oppCopy[m].capacity
<1>1. /\ lock = m /\ oppCopy[m] = [opp EXCEPT !.acceptedCount = @ + 1]
      /\ SeatAvailable(opp)
  BY DEF IInv, HoldsSeat
<1>2. opp \in Opportunity /\ oppCopy[m] \in Opportunity
  BY Types
<1>3. /\ oppCopy[m].status = opp.status /\ oppCopy[m].capacity = opp.capacity
      /\ oppCopy[m].acceptedCount = opp.acceptedCount + 1
  BY <1>1, <1>2, OpportunityFields
<1>4. opp.status # "absent"
  BY <1>1, NoRows DEF IInv, AbsentIsBlank, SeatAvailable
<1> QED
  BY <1>1, <1>2, <1>3, <1>4, OpportunityFields DEF SeatAvailable

\* What the commit of an acceptance does.
LEMMA AcceptCommitDoes ==
  ASSUME IInv, NEW m \in Managers, AcceptCommit(m)
  PROVE  /\ TakesSeat(m) /\ Ends(m) /\ opp' = oppCopy[m] /\ lock' = NoOne
         /\ application' \in [Volunteers -> {"none", "pending", "accepted", "rejected"}]
         /\ Accepted' \subseteq Accepted \cup {target[m]}
         /\ UNCHANGED <<request, invited, applying>>
<1>1. pc[m] = "acceptCommit" /\ target[m] \in Volunteers
  BY DEF AcceptCommit, End, Goto, IInv, InMemory, AboutMember
<1>2. TakesSeat(m)
  BY <1>1 DEF TakesSeat, Deciding
<1>3. /\ Ends(m) /\ opp' = oppCopy[m] /\ lock' = NoOne
      /\ application' = application \/ application' = [application EXCEPT ![target[m]] = "accepted"]
      /\ UNCHANGED <<request, invited, applying>>
  BY DEF AcceptCommit, End, Goto, Ends
<1>4. application' \in [Volunteers -> {"none", "pending", "accepted", "rejected"}]
  BY <1>1, <1>3, Types
<1>5. Accepted' \subseteq Accepted \cup {target[m]}
  BY <1>1, <1>3, Types DEF Accepted
<1> QED
  BY <1>2, <1>3, <1>4, <1>5

\* So it keeps the invariant.
LEMMA AcceptCommitKeeps ==
  ASSUME IInv, NEW m \in Managers, AcceptCommit(m)
  PROVE  IInv'
<1>1. /\ TakesSeat(m) /\ Ends(m) /\ opp' = oppCopy[m] /\ lock' = NoOne
      /\ application' \in [Volunteers -> {"none", "pending", "accepted", "rejected"}]
      /\ UNCHANGED <<request, invited, applying>>
  BY AcceptCommitDoes
<1>2. lock = m /\ opp' \in Opportunity /\ opp'.status # "absent"
  BY <1>1, SeatWritten
<1>3. TypeOK'
  BY <1>1, <1>2, EndsClean DEF IInv, TypeOK
<1>4. OthersStand(m)
  BY <1>1, <1>2, EndsClean DEF OthersStand
<1>5. RequestsStand /\ AbsentIsBlank' /\ AppliesOnce'
  BY <1>1, <1>2 DEF RequestsStand, AbsentIsBlank, IInv, AppliesOnce
<1> QED
  BY <1>1, <1>2, <1>3, <1>4, <1>5, EndsClean, StepOfOne

\* What a decision writes to a request: the row keeps what it asked for.
LEMMA DecisionWritten ==
  ASSUME IInv, NEW m \in Managers,
         pc[m] \in {"approveCommit", "declineWrite"},
         \/ request' = request
         \/ request' = [request EXCEPT ![target[m]] =
                          Written(request[target[m]], reqCopy[m], cols[m])],
         reqCopy[m].status # "none"
  PROVE  /\ target[m] \in Candidates
         /\ request' \in [Candidates -> Request]
         /\ RequestsStand /\ NoNewRequest
         /\ Approved' \subseteq Approved \cup (IF reqCopy[m].seat THEN {target[m]} ELSE {})
         /\ pc[m] = "declineWrite" => Approved' \subseteq Approved
<1> DEFINE q == target[m]
           row == Written(request[q], reqCopy[m], cols[m])
<1>1. /\ q \in Candidates /\ request[q] \in Request /\ reqCopy[m] \in Request
      /\ request[q].status # "none" /\ reqCopy[m].seat = request[q].seat
      /\ pc[m] = "declineWrite" => reqCopy[m].status = "rejected"
  BY Types DEF IInv, InMemory, AboutVisitor
<1>2. /\ row \in Request /\ row.status # "none" /\ row.seat = request[q].seat
      /\ pc[m] = "declineWrite" => row.status \in {request[q].status, "rejected"}
  BY <1>1, WrittenRequest
<1>3. request' = request \/ request' = [request EXCEPT ![q] = row]
  OBVIOUS
<1> HIDE DEF q, row
<1>4. /\ request' \in [Candidates -> Request]
      /\ \A c \in Candidates : c # q => request'[c] = request[c]
      /\ request'[q] = request[q] \/ request'[q] = row
  BY <1>1, <1>2, <1>3, Types
<1>5. RequestsStand /\ NoNewRequest
  BY <1>1, <1>2, <1>4 DEF RequestsStand, NoNewRequest
<1>6. /\ Approved' \subseteq Approved \cup (IF reqCopy[m].seat THEN {q} ELSE {})
      /\ pc[m] = "declineWrite" => Approved' \subseteq Approved
  BY <1>1, <1>2, <1>4 DEF Approved
<1> QED
  BY <1>1, <1>4, <1>5, <1>6 DEF q

\* What the commit of an approval does, if anything.
LEMMA ApproveCommitDoes ==
  ASSUME IInv, NEW m \in Managers, ApproveCommit(m)
  PROVE  /\ Ends(m) /\ lock' = Unlocked(m)
         /\ TakesSeat(m) <=> reqCopy[m].seat
         /\ target[m] \in Candidates
         /\ request' \in [Candidates -> Request] /\ RequestsStand /\ NoNewRequest
         /\ invited' \subseteq Candidates
         /\ \/ opp' = opp /\ Approved' \subseteq Approved
            \/ TakesSeat(m) /\ opp' = oppCopy[m] /\ Approved' \subseteq Approved \cup {target[m]}
         /\ UNCHANGED <<application, applying>>
<1> DEFINE row == Written(request[target[m]], reqCopy[m], cols[m])
<1>1. /\ pc[m] = "approveCommit" /\ Ends(m) /\ lock' = Unlocked(m)
      /\ \/ /\ request' = [request EXCEPT ![target[m]] = row]
            /\ opp' = IF reqCopy[m].seat THEN oppCopy[m] ELSE opp
            /\ invited' = invited \cup {target[m]}
         \/ request' = request /\ opp' = opp /\ invited' = invited
      /\ UNCHANGED <<application, applying>>
  BY DEF ApproveCommit, End, Goto, Ends
<1>2. reqCopy[m].status = "approved"
  BY <1>1 DEF IInv, InMemory
<1>3. /\ target[m] \in Candidates
      /\ request' \in [Candidates -> Request] /\ RequestsStand /\ NoNewRequest
      /\ Approved' \subseteq Approved \cup (IF reqCopy[m].seat THEN {target[m]} ELSE {})
  BY <1>1, <1>2, DecisionWritten
<1>4. TakesSeat(m) <=> reqCopy[m].seat
  BY <1>1, <1>3 DEF TakesSeat, Deciding
<1>5. \/ opp' = opp /\ Approved' \subseteq Approved
      \/ reqCopy[m].seat /\ opp' = oppCopy[m] /\ Approved' \subseteq Approved \cup {target[m]}
  <2>1. CASE request' = request /\ opp' = opp
    BY <2>1 DEF Approved
  <2>2. CASE opp' = IF reqCopy[m].seat THEN oppCopy[m] ELSE opp
    BY <1>3, <2>2
  <2> QED
    BY <1>1, <2>1, <2>2
<1>6. invited' \subseteq Candidates
  BY <1>1, <1>3 DEF IInv, TypeOK
<1> QED
  BY <1>1, <1>3, <1>4, <1>5, <1>6

\* So it keeps the invariant.
LEMMA ApproveCommitKeeps ==
  ASSUME IInv, NEW m \in Managers, ApproveCommit(m)
  PROVE  IInv'
<1>1. /\ Ends(m) /\ lock' = Unlocked(m)
      /\ request' \in [Candidates -> Request] /\ RequestsStand /\ NoNewRequest
      /\ invited' \subseteq Candidates
      /\ opp' = opp \/ (TakesSeat(m) /\ opp' = oppCopy[m])
      /\ UNCHANGED <<application, applying>>
  BY ApproveCommitDoes
<1>2. CASE opp' = opp
  BY <1>1, <1>2, Types, EndKeeps
<1>3. CASE TakesSeat(m) /\ opp' = oppCopy[m]
  <2>1. lock = m /\ opp' \in Opportunity /\ opp'.status # "absent" /\ lock' = NoOne
    BY <1>1, <1>3, SeatWritten DEF Unlocked
  <2>2. TypeOK'
    BY <1>1, <2>1, EndsClean DEF IInv, TypeOK
  <2>3. OthersStand(m)
    BY <2>1, <1>1, EndsClean DEF OthersStand
  <2>4. AbsentIsBlank' /\ AppliesOnce'
    BY <1>1, <2>1 DEF AbsentIsBlank, IInv, AppliesOnce, NoNewRequest
  <2> QED
    BY <1>1, <2>1, <2>2, <2>3, <2>4, EndsClean, StepOfOne
<1> QED
  BY <1>1, <1>2, <1>3

\* What the write of an edit does, once nobody has the row.
LEMMA EditWriteDoes ==
  ASSUME IInv, NEW m \in Managers, EditWrite(m)
  PROVE  /\ Ends(m) /\ lock = NoOne /\ opp' \in Opportunity /\ opp'.status # "absent"
         /\ \/ opp' = opp
            \/ /\ opp'.acceptedCount <= opp'.capacity
               /\ "acceptedCount" \notin cols[m] => opp'.acceptedCount = opp.acceptedCount
         /\ UNCHANGED <<application, request, invited, applying, lock>>
<1>1. /\ pc[m] = "updateWrite" /\ Ends(m) /\ lock = NoOne
      /\ UNCHANGED <<application, request, invited, applying, lock>>
      /\ LET row == Written(opp, oppCopy[m], cols[m]) IN
           opp' = IF row.acceptedCount <= row.capacity THEN row ELSE opp
  BY DEF EditWrite, End, Goto, Ends
<1>2. opp \in Opportunity /\ oppCopy[m] \in Opportunity
  BY Types
<1>3. opp.status # "absent" /\ oppCopy[m].status # "absent"
  BY <1>1 DEF IInv, InMemory
<1> QED
  BY <1>1, <1>2, <1>3, WrittenOpportunity

\* So it keeps the invariant.
LEMMA EditWriteKeeps ==
  ASSUME IInv, NEW m \in Managers, EditWrite(m)
  PROVE  IInv'
<1>1. /\ Ends(m) /\ lock = NoOne /\ opp' \in Opportunity /\ opp'.status # "absent"
      /\ UNCHANGED <<application, request, invited, applying, lock>>
  BY EditWriteDoes
<1>2. TypeOK'
  BY <1>1, EndsClean DEF IInv, TypeOK
<1>3. OthersStand(m)
  BY <1>1, EndsClean DEF OthersStand
<1>4. RequestsStand /\ AbsentIsBlank' /\ AppliesOnce'
  BY <1>1 DEF RequestsStand, AbsentIsBlank, IInv, AppliesOnce
<1> QED
  BY <1>1, <1>2, <1>3, <1>4, EndsClean, StepOfOne

\* What a rejection writes, and a decision that ends without writing.
LEMMA DismissDoes ==
  ASSUME IInv, NEW m \in Managers,
         InviteRefused(m) \/ RejectWrite(m) \/ DeclineWrite(m) \/ Fail(m) \/ LockRefused(m)
  PROVE  /\ Ends(m) /\ lock' \in {lock, Unlocked(m)}
         /\ application' \in [Volunteers -> {"none", "pending", "accepted", "rejected"}]
         /\ request' \in [Candidates -> Request] /\ RequestsStand /\ NoNewRequest
         /\ Accepted' \subseteq Accepted /\ Approved' \subseteq Approved
         /\ UNCHANGED <<opp, invited, applying>>
<1>1. CASE InviteRefused(m) \/ Fail(m) \/ LockRefused(m)
  <2>1. /\ Ends(m) /\ lock' \in {lock, Unlocked(m)}
        /\ UNCHANGED <<opp, application, request, invited, applying>>
    BY <1>1 DEF InviteRefused, Fail, LockRefused, End, Goto, Ends
  <2> QED
    BY <2>1, Types DEF RequestsStand, NoNewRequest, Accepted, Approved
<1>2. CASE RejectWrite(m)
  <2>1. /\ Ends(m) /\ pc[m] = "rejectWrite"
        /\ application' = application \/ application' = [application EXCEPT ![target[m]] = "rejected"]
        /\ UNCHANGED <<opp, request, invited, applying, lock>>
    BY <1>2 DEF RejectWrite, End, Goto, Ends
  <2>2. target[m] \in Volunteers
    BY <2>1 DEF IInv, InMemory, AboutMember
  <2>3. /\ application' \in [Volunteers -> {"none", "pending", "accepted", "rejected"}]
        /\ Accepted' \subseteq Accepted
    BY <2>1, <2>2, Types DEF Accepted
  <2> QED
    BY <2>1, <2>3, Types DEF RequestsStand, NoNewRequest, Approved
<1>3. CASE DeclineWrite(m)
  <2> DEFINE row == Written(request[target[m]], reqCopy[m], cols[m])
  <2>1. /\ Ends(m) /\ pc[m] = "declineWrite"
        /\ request' = request \/ request' = [request EXCEPT ![target[m]] = row]
        /\ UNCHANGED <<opp, application, invited, applying, lock>>
    BY <1>3 DEF DeclineWrite, End, Goto, Ends
  <2>2. reqCopy[m].status = "rejected"
    BY <2>1 DEF IInv, InMemory
  <2>3. /\ request' \in [Candidates -> Request] /\ RequestsStand /\ NoNewRequest
        /\ Approved' \subseteq Approved
    BY <2>1, <2>2, DecisionWritten
  <2> QED
    BY <2>1, <2>3, Types DEF Accepted
<1> QED
  BY <1>1, <1>2, <1>3

\* The steps that no manager takes: an activity is created, somebody asks for a
\* seat, an invitation is cancelled.
Outside ==
  \/ Create
  \/ \E p \in Volunteers \cup Candidates, seat \in BOOLEAN : Check(p, seat) \/ Insert(p, seat)
  \/ \E q \in Candidates : CancelInvitation(q)
  \/ UNCHANGED vars

\* None gives anybody a seat.
LEMMA OutsideDoes ==
  ASSUME IInv, Outside
  PROVE  /\ UNCHANGED <<lock, pc, target, oppCopy, reqCopy, cols>>
         /\ \/ opp' = opp
            \/ /\ opp = NoOpp /\ opp' \in Opportunity /\ opp'.status # "absent"
               /\ opp'.acceptedCount = 0
         /\ application' \in [Volunteers -> {"none", "pending", "accepted", "rejected"}]
         /\ request' \in [Candidates -> Request] /\ RequestsStand
         /\ invited' \subseteq Candidates
         /\ applying' \subseteq (Volunteers \cup Candidates) \X BOOLEAN
         /\ AppliesOnce'
         /\ Accepted' \subseteq Accepted /\ Approved' \subseteq Approved
<1>0. TypeOK /\ AbsentIsBlank /\ AppliesOnce
  BY DEF IInv
<1>1. CASE Create
  <2>1. PICK c \in 1 .. MaxCapacity :
          opp' = [status |-> "open", capacity |-> c, acceptedCount |-> 0]
    BY <1>1 DEF Create
  <2>2. /\ opp = NoOpp /\ UNCHANGED <<application, request, invited, applying, lock, pc, process>>
    BY <1>0, <1>1 DEF Create, AbsentIsBlank
  <2>3. opp' \in Opportunity /\ opp'.status = "open" /\ opp'.acceptedCount = 0
    BY <2>1 DEF Opportunity
  <2> QED
    BY <1>0, <2>2, <2>3 DEF process, TypeOK, RequestsStand, AppliesOnce, Accepted, Approved
<1>2. ASSUME NEW p \in Volunteers \cup Candidates, NEW seat \in BOOLEAN, Check(p, seat)
      PROVE  /\ UNCHANGED <<opp, application, request, invited, lock, pc, process>>
             /\ applying' \subseteq (Volunteers \cup Candidates) \X BOOLEAN
             /\ AppliesOnce'
  <2>1. /\ UNCHANGED <<opp, application, request, invited, lock, pc, process>>
        /\ applying' = applying \cup {<<p, seat>>}
        /\ \A b \in BOOLEAN : <<p, b>> \notin applying
        /\ p \in Candidates => request[p].status = "none"
    BY <1>2 DEF Check
  <2>2. applying' \subseteq (Volunteers \cup Candidates) \X BOOLEAN
    BY <1>0, <2>1 DEF TypeOK
  <2>3. ASSUME NEW q \in Candidates, NEW b \in BOOLEAN, <<q, b>> \in applying'
        PROVE  request[q].status = "none" /\ <<q, ~b>> \notin applying'
    <3>1. CASE q = p
      BY <2>1, <2>3, <3>1
    <3>2. CASE q # p
      BY <1>0, <2>1, <2>3, <3>2 DEF AppliesOnce
    <3> QED
      BY <3>1, <3>2
  <2> QED
    BY <2>1, <2>2, <2>3 DEF AppliesOnce
<1>3. ASSUME NEW p \in Volunteers \cup Candidates, NEW seat \in BOOLEAN, Insert(p, seat)
      PROVE  /\ UNCHANGED <<opp, invited, lock, pc, process>>
             /\ application' \in [Volunteers -> {"none", "pending", "accepted", "rejected"}]
             /\ request' \in [Candidates -> Request] /\ RequestsStand
             /\ applying' \subseteq (Volunteers \cup Candidates) \X BOOLEAN
             /\ AppliesOnce'
             /\ Accepted' \subseteq Accepted /\ Approved' \subseteq Approved
  <2>1. /\ UNCHANGED <<opp, invited, lock, pc, process>>
        /\ <<p, seat>> \in applying /\ applying' = applying \ {<<p, seat>>}
    BY <1>3 DEF Insert
  <2>2. applying' \subseteq (Volunteers \cup Candidates) \X BOOLEAN
    BY <1>0, <2>1 DEF TypeOK
  <2>3. CASE p \in Volunteers /\ application' = [application EXCEPT ![p] = "pending"] /\ request' = request
    <3>1. /\ application' \in [Volunteers -> {"none", "pending", "accepted", "rejected"}]
          /\ Accepted' \subseteq Accepted /\ Approved' \subseteq Approved
          /\ RequestsStand /\ request' \in [Candidates -> Request]
      BY <2>3, Types DEF Accepted, Approved, RequestsStand
    <3>2. AppliesOnce'
      BY <1>0, <2>1, <2>3 DEF AppliesOnce
    <3> QED
      BY <2>1, <2>2, <3>1, <3>2
  <2>4. CASE /\ p \in Candidates /\ application' = application
             /\ request' = [request EXCEPT ![p] = [NoRequest EXCEPT !.status = "pending",
                                                                   !.seat = seat]]
    <3> DEFINE row == [NoRequest EXCEPT !.status = "pending", !.seat = seat]
    <3>1. row \in Request /\ row.status = "pending"
      BY DEF NoRequest, Request
    <3>2. request' = [request EXCEPT ![p] = row]
      BY <2>4
    <3> HIDE DEF row
    <3>3. /\ request' \in [Candidates -> Request] /\ request'[p] = row
          /\ \A q \in Candidates : q # p => request'[q] = request[q]
      BY <2>4, <3>1, <3>2, Types
    <3>4. request[p].status = "none" /\ <<p, ~seat>> \notin applying
      BY <1>0, <2>1, <2>4 DEF AppliesOnce
    <3>5. RequestsStand
      BY <3>3, <3>4 DEF RequestsStand
    <3>6. Accepted' \subseteq Accepted /\ Approved' \subseteq Approved
      BY <2>4, <3>1, <3>3 DEF Accepted, Approved
    <3>7. ASSUME NEW q \in Candidates, NEW b \in BOOLEAN, <<q, b>> \in applying'
          PROVE  request'[q].status = "none" /\ <<q, ~b>> \notin applying'
      <4>1. CASE q = p
        <5>1. b = ~seat
          BY <2>1, <3>7, <4>1
        <5> QED
          BY <2>1, <3>4, <3>7, <4>1, <5>1
      <4>2. CASE q # p
        BY <1>0, <2>1, <3>3, <3>7, <4>2 DEF AppliesOnce
      <4> QED
        BY <4>1, <4>2
    <3>8. AppliesOnce'
      BY <3>7 DEF AppliesOnce
    <3> QED
      BY <2>1, <2>2, <2>4, <3>3, <3>5, <3>6, <3>8, Types
  <2> QED
    BY <1>3, <2>3, <2>4 DEF Insert
<1>4. ASSUME NEW q \in Candidates, CancelInvitation(q)
      PROVE  /\ UNCHANGED <<opp, application, applying, lock, pc, process>>
             /\ invited' \subseteq Candidates
             /\ request' \in [Candidates -> Request] /\ RequestsStand
             /\ AppliesOnce' /\ Approved' \subseteq Approved
  <2> DEFINE row == [request[q] EXCEPT !.invitation = FALSE]
  <2>1. /\ UNCHANGED <<opp, application, applying, lock, pc, process>>
        /\ invited' = invited \ {q}
        /\ request' = [request EXCEPT ![q] = row]
    BY <1>4 DEF CancelInvitation
  <2>2. request[q] \in Request
    BY Types
  <2>3. row \in Request /\ row.status = request[q].status /\ row.seat = request[q].seat
    BY <2>2 DEF Request
  <2> HIDE DEF row
  <2>4. /\ request' \in [Candidates -> Request]
        /\ \A c \in Candidates :
             request'[c].status = request[c].status /\ request'[c].seat = request[c].seat
    BY <2>1, <2>3, Types
  <2> QED
    BY <1>0, <2>1, <2>4 DEF TypeOK, RequestsStand, AppliesOnce, Approved
<1>5. CASE UNCHANGED vars
  BY <1>0, <1>5 DEF vars, process, TypeOK, RequestsStand, AppliesOnce, Accepted, Approved
<1>6. CASE \E p \in Volunteers \cup Candidates, seat \in BOOLEAN : Check(p, seat)
  BY <1>0, <1>2, <1>6 DEF TypeOK, process, RequestsStand, Accepted, Approved
<1>7. CASE \E p \in Volunteers \cup Candidates, seat \in BOOLEAN : Insert(p, seat)
  BY <1>0, <1>3, <1>7 DEF TypeOK, process
<1>8. CASE \E q \in Candidates : CancelInvitation(q)
  BY <1>0, <1>4, <1>8 DEF TypeOK, process, Accepted
<1> QED
  BY <1>1, <1>5, <1>6, <1>7, <1>8 DEF Outside

\* So they keep the invariant.
LEMMA OutsideKeeps ==
  ASSUME IInv, Outside
  PROVE  IInv'
<1>1. /\ UNCHANGED <<lock, pc, target, oppCopy, reqCopy, cols>>
      /\ \/ opp' = opp
         \/ opp = NoOpp /\ opp' \in Opportunity /\ opp'.status # "absent"
      /\ RequestsStand /\ AppliesOnce'
  BY OutsideDoes
<1>2. TypeOK'
  BY <1>1, OutsideDoes DEF IInv, TypeOK
<1>3. AbsentIsBlank'
  BY <1>1 DEF IInv, AbsentIsBlank
<1>4. ASSUME NEW m \in Managers PROVE InMemory(m)' /\ HoldsSeat(m)'
  <2>1. InMemory(m) /\ HoldsSeat(m)
    BY DEF IInv
  <2>2. InMemory(m)'
    BY <1>1, <2>1 DEF InMemory, AboutMember, AboutVisitor, RequestsStand
  <2>3. CASE opp' = opp
    BY <1>1, <2>1, <2>2, <2>3 DEF HoldsSeat, TakesSeat
  <2>4. CASE opp = NoOpp
    <3>1. ~TakesSeat(m)
      BY <2>1, <2>4, NoRows DEF HoldsSeat, SeatAvailable
    <3> QED
      BY <1>1, <2>2, <3>1 DEF HoldsSeat, TakesSeat
  <2> QED
    BY <1>1, <2>3, <2>4
<1> QED
  BY <1>1, <1>2, <1>3, <1>4 DEF IInv

-----------------------------------------------------------------------------
\* The invariant holds at the start.
LEMMA InitIInv == Init => IInv
<1> SUFFICES ASSUME Init PROVE IInv
  OBVIOUS
<1>1. TypeOK
  BY NoRows DEF Init, TypeOK, Steps
<1>2. AbsentIsBlank /\ AppliesOnce
  BY DEF Init, AbsentIsBlank, AppliesOnce
<1>3. ASSUME NEW m \in Managers PROVE InMemory(m) /\ HoldsSeat(m)
  BY DEF Init, InMemory, AboutMember, AboutVisitor, HoldsSeat, TakesSeat, Deciding
<1> QED
  BY <1>1, <1>2, <1>3 DEF IInv

\* The steps of a manager's request, by what they do.
LEMMA StepKinds ==
  ASSUME NEW m \in Managers, Begin(m) \/ GetLock(m) \/ Advance(m) \/ EditWrite(m) \/ Fail(m)
  PROVE  \/ Begin(m) \/ LockOpportunity(m)
         \/ Invite(m) \/ AcceptSave(m) \/ ApproveSave(m)
         \/ RejectSave(m) \/ DeclineSave(m) \/ EditSave(m)
         \/ InviteRefused(m) \/ RejectWrite(m) \/ DeclineWrite(m) \/ Fail(m) \/ LockRefused(m)
         \/ AcceptCommit(m) \/ ApproveCommit(m) \/ EditWrite(m)
BY DEF GetLock, Advance

\* Every step keeps it.
LEMMA NextIInv == IInv /\ [Next]_vars => IInv'
<1> SUFFICES ASSUME IInv, [Next]_vars PROVE IInv'
  OBVIOUS
<1>1. CASE Outside
  BY <1>1, OutsideKeeps
<1>2. ASSUME NEW m \in Managers,
             Begin(m) \/ GetLock(m) \/ Advance(m) \/ EditWrite(m) \/ Fail(m)
      PROVE  IInv'
  <2>1. CASE Begin(m)
    BY <2>1, BeginKeeps
  <2>2. CASE LockOpportunity(m)
    BY <2>2, GetLockKeeps DEF GetLock
  <2>3. CASE \/ Invite(m) \/ AcceptSave(m) \/ ApproveSave(m)
             \/ RejectSave(m) \/ DeclineSave(m) \/ EditSave(m)
    BY <2>3, PrepareKeeps
  <2>4. CASE InviteRefused(m) \/ RejectWrite(m) \/ DeclineWrite(m) \/ Fail(m) \/ LockRefused(m)
    <3>1. /\ Ends(m) /\ lock' \in {lock, Unlocked(m)}
          /\ application' \in [Volunteers -> {"none", "pending", "accepted", "rejected"}]
          /\ request' \in [Candidates -> Request] /\ RequestsStand /\ NoNewRequest
          /\ UNCHANGED <<opp, invited, applying>>
      BY <2>4, DismissDoes
    <3>2. invited' \subseteq Candidates
      BY <3>1 DEF IInv, TypeOK
    <3> QED
      BY <3>1, <3>2, EndKeeps
  <2>5. CASE AcceptCommit(m)
    BY <2>5, AcceptCommitKeeps
  <2>6. CASE ApproveCommit(m)
    BY <2>6, ApproveCommitKeeps
  <2>7. CASE EditWrite(m)
    BY <2>7, EditWriteKeeps
  <2> QED
    BY <1>2, <2>1, <2>2, <2>3, <2>4, <2>5, <2>6, <2>7, StepKinds
<1> QED
  BY <1>1, <1>2 DEF Next, Outside

\* Hence every reachable state has it.
LEMMA InvariantHolds == Spec => []IInv
BY InitIInv, NextIInv, PTL DEF Spec

\* Rows, lock and requests in flight are of their types.
THEOREM TypeCorrect == Spec => []TypeOK
BY InvariantHolds, PTL DEF IInv

\* For any number of managers, members and visitors, a transaction that took a
\* seat is the only one that may write the activity.
THEOREM SeatTakerAlone == Spec => []OneSeatTakerAtATime
<1>1. IInv => OneSeatTakerAtATime
  BY DEF IInv, HoldsSeat, OneSeatTakerAtATime
<1> QED
  BY <1>1, InvariantHolds, PTL

-----------------------------------------------------------------------------
\* Who gets a seat: nobody, or one person by a commit that took it before.
LEMMA SeatsGiven ==
  ASSUME IInv, [Next]_vars
  PROVE  \/ /\ Accepted' \subseteq Accepted /\ Approved' \subseteq Approved
            /\ \/ opp' = opp
               \/ opp = NoOpp /\ opp' \in Opportunity /\ opp'.acceptedCount = 0
               \/ \E m \in Managers : EditWrite(m)
         \/ \E m \in Managers :
              /\ TakesSeat(m) /\ opp' = oppCopy[m]
              /\ \/ AcceptCommit(m) /\ Accepted' \subseteq Accepted \cup {target[m]}
                    /\ Approved' \subseteq Approved
                 \/ ApproveCommit(m) /\ Accepted' \subseteq Accepted
                    /\ Approved' \subseteq Approved \cup {target[m]}
<1>1. CASE Outside
  BY <1>1, OutsideDoes
<1>2. ASSUME NEW m \in Managers,
             Begin(m) \/ GetLock(m) \/ Advance(m) \/ EditWrite(m) \/ Fail(m),
             ~AcceptCommit(m), ~ApproveCommit(m), ~EditWrite(m)
      PROVE  /\ Accepted' \subseteq Accepted /\ Approved' \subseteq Approved
             /\ opp' = opp
  <2>1. CASE InviteRefused(m) \/ RejectWrite(m) \/ DeclineWrite(m) \/ Fail(m) \/ LockRefused(m)
    BY <2>1, DismissDoes
  <2>2. CASE \/ Begin(m) \/ LockOpportunity(m)
             \/ Invite(m) \/ AcceptSave(m) \/ ApproveSave(m)
             \/ RejectSave(m) \/ DeclineSave(m) \/ EditSave(m)
    <3>1. UNCHANGED <<opp, application, request>>
      BY <2>2 DEF Begin, BeginAccept, BeginReject, BeginApprove, BeginDecline, BeginUpdate,
         BeginSetStatus, BeginEdit, LockOpportunity, Invite, AcceptSave, ApproveSave,
         RejectSave, DeclineSave, EditSave
    <3> QED
      BY <3>1 DEF Accepted, Approved
  <2> QED
    BY <1>2, <2>1, <2>2, StepKinds
<1>3. ASSUME NEW m \in Managers, AcceptCommit(m)
      PROVE  /\ TakesSeat(m) /\ opp' = oppCopy[m]
             /\ Accepted' \subseteq Accepted \cup {target[m]} /\ Approved' \subseteq Approved
  BY <1>3, AcceptCommitDoes DEF Approved
<1>4. ASSUME NEW m \in Managers, ApproveCommit(m)
      PROVE  /\ Accepted' \subseteq Accepted
             /\ \/ opp' = opp /\ Approved' \subseteq Approved
                \/ /\ TakesSeat(m) /\ opp' = oppCopy[m]
                   /\ Approved' \subseteq Approved \cup {target[m]}
  BY <1>4, ApproveCommitDoes DEF Accepted
<1>5. ASSUME NEW m \in Managers, EditWrite(m)
      PROVE  Accepted' \subseteq Accepted /\ Approved' \subseteq Approved
  BY <1>5, EditWriteDoes DEF Accepted, Approved
<1> QED
  BY <1>1, <1>2, <1>3, <1>4, <1>5 DEF Next, Outside

\* For any number of them, nobody gets a seat in a cancelled activity.
THEOREM CancelledGivesNoSeat == Spec => NoSeatOnceCancelled
<1>1. IInv /\ [Next]_vars =>
        [opp.status = "cancelled" => Accepted' \subseteq Accepted /\ Approved' \subseteq Approved]_vars
  <2> SUFFICES ASSUME IInv, [Next]_vars, opp.status = "cancelled"
               PROVE  Accepted' \subseteq Accepted /\ Approved' \subseteq Approved
    OBVIOUS
  <2>1. ASSUME NEW m \in Managers, TakesSeat(m) PROVE FALSE
    BY <2>1, SeatWritten
  <2> QED
    BY <2>1, SeatsGiven
<1> QED
  BY <1>1, InvariantHolds, PTL DEF Spec, NoSeatOnceCancelled

\* A set that gains one element at most has one more at most.
LEMMA OneMore ==
  ASSUME NEW S, IsFiniteSet(S), NEW x, NEW T, T \subseteq S \cup {x}
  PROVE  Cardinality(T) \in Nat /\ Cardinality(S) \in Nat
         /\ Cardinality(T) <= Cardinality(S) + 1
<1>1. /\ IsFiniteSet(S \cup {x}) /\ Cardinality(S) \in Nat
      /\ Cardinality(S \cup {x}) \in {Cardinality(S), Cardinality(S) + 1}
  BY FS_AddElement, FS_CardinalityType
<1>2. IsFiniteSet(T) /\ Cardinality(T) <= Cardinality(S \cup {x})
  BY <1>1, FS_Subset
<1> QED
  BY <1>1, <1>2, FS_CardinalityType

\* A set that gains none has no more.
LEMMA NoneMore ==
  ASSUME NEW S, IsFiniteSet(S), NEW T, T \subseteq S
  PROVE  Cardinality(T) \in Nat /\ Cardinality(S) \in Nat
         /\ Cardinality(T) <= Cardinality(S)
BY FS_Subset, FS_CardinalityType

\* For any number of them, the seats that are taken, the count and the capacity
\* stay in order through every step but an edit that writes a count back.
THEOREM SeatsStandAlways == Spec => SeatsStand
<1> DEFINE StaleCount == \E m \in Managers : /\ pc[m] = "updateWrite" /\ pc'[m] = "idle"
                                             /\ "acceptedCount" \in cols[m]
<1>1. IInv /\ [Next]_vars => [SeatsWithinCapacity => SeatsWithinCapacity' \/ StaleCount]_vars
  <2> SUFFICES ASSUME IInv, [Next]_vars, SeatsWithinCapacity, ~StaleCount
               PROVE  SeatsWithinCapacity'
    OBVIOUS
  <2>1. /\ IsFiniteSet(Accepted) /\ IsFiniteSet(Approved)
        /\ SeatsTaken <= opp.acceptedCount /\ opp.acceptedCount <= opp.capacity
        /\ opp \in Opportunity /\ opp.acceptedCount \in Nat /\ opp.capacity \in Nat
    BY FS_Subset, Types, OpportunityFields DEF Accepted, Approved, SeatsWithinCapacity
  <2>2. CASE /\ Accepted' \subseteq Accepted /\ Approved' \subseteq Approved
             /\ \/ opp' = opp
                \/ opp = NoOpp /\ opp' \in Opportunity /\ opp'.acceptedCount = 0
                \/ \E m \in Managers : EditWrite(m)
    <3>1. /\ Cardinality(Accepted') \in Nat /\ Cardinality(Approved') \in Nat
          /\ Cardinality(Accepted) \in Nat /\ Cardinality(Approved) \in Nat
          /\ Cardinality(Accepted') <= Cardinality(Accepted)
          /\ Cardinality(Approved') <= Cardinality(Approved)
      BY <2>1, <2>2, NoneMore
    <3>2. /\ opp'.acceptedCount = opp.acceptedCount
          /\ opp'.acceptedCount <= opp'.capacity
      <4>1. CASE opp' = opp
        BY <2>1, <4>1
      <4>2. CASE opp = NoOpp /\ opp' \in Opportunity /\ opp'.acceptedCount = 0
        BY <4>2, NoRows, OpportunityFields
      <4>3. ASSUME NEW m \in Managers, EditWrite(m)
            PROVE  opp' = opp \/ /\ opp'.acceptedCount = opp.acceptedCount
                                 /\ opp'.acceptedCount <= opp'.capacity
        <5>1. pc[m] = "updateWrite" /\ pc'[m] = "idle"
          BY <4>3, Types DEF EditWrite, End, Goto
        <5> QED
          BY <4>3, <5>1, EditWriteDoes
      <4> QED
        BY <2>1, <2>2, <4>1, <4>2, <4>3
    <3> QED
      BY <2>1, <3>1, <3>2 DEF SeatsWithinCapacity, SeatsTaken
  <2>3. ASSUME NEW m \in Managers, TakesSeat(m), opp' = oppCopy[m],
               \/ Accepted' \subseteq Accepted \cup {target[m]} /\ Approved' \subseteq Approved
               \/ Accepted' \subseteq Accepted /\ Approved' \subseteq Approved \cup {target[m]}
        PROVE  SeatsWithinCapacity'
    <3>1. /\ opp'.acceptedCount = opp.acceptedCount + 1
          /\ opp'.acceptedCount <= opp'.capacity
      BY <2>3, SeatWritten
    <3>2. /\ Cardinality(Accepted') \in Nat /\ Cardinality(Approved') \in Nat
          /\ Cardinality(Accepted) \in Nat /\ Cardinality(Approved) \in Nat
          /\ Cardinality(Accepted') + Cardinality(Approved')
               <= Cardinality(Accepted) + Cardinality(Approved) + 1
      <4>1. CASE Accepted' \subseteq Accepted \cup {target[m]} /\ Approved' \subseteq Approved
        <5>1. /\ Cardinality(Accepted') \in Nat /\ Cardinality(Accepted) \in Nat
              /\ Cardinality(Accepted') <= Cardinality(Accepted) + 1
          BY <2>1, <4>1, OneMore
        <5>2. /\ Cardinality(Approved') \in Nat /\ Cardinality(Approved) \in Nat
              /\ Cardinality(Approved') <= Cardinality(Approved)
          BY <2>1, <4>1, NoneMore
        <5> QED
          BY <5>1, <5>2
      <4>2. CASE Accepted' \subseteq Accepted /\ Approved' \subseteq Approved \cup {target[m]}
        <5>1. /\ Cardinality(Approved') \in Nat /\ Cardinality(Approved) \in Nat
              /\ Cardinality(Approved') <= Cardinality(Approved) + 1
          BY <2>1, <4>2, OneMore
        <5>2. /\ Cardinality(Accepted') \in Nat /\ Cardinality(Accepted) \in Nat
              /\ Cardinality(Accepted') <= Cardinality(Accepted)
          BY <2>1, <4>2, NoneMore
        <5> QED
          BY <5>1, <5>2
      <4> QED
        BY <2>3, <4>1, <4>2
    <3> QED
      BY <2>1, <3>1, <3>2 DEF SeatsWithinCapacity, SeatsTaken
  <2> QED
    BY <2>2, <2>3, SeatsGiven
<1>2. IInv /\ [Next]_vars =>
        [SeatsWithinCapacity =>
           \/ SeatsWithinCapacity'
           \/ \E m \in Managers : /\ pc[m] = "updateWrite" /\ pc'[m] = "idle"
                                 /\ "acceptedCount" \in cols[m]]_vars
  BY <1>1
<1> HIDE DEF StaleCount
<1> QED
  BY <1>2, InvariantHolds, PTL DEF Spec, SeatsStand
=============================================================================
