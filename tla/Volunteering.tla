---------------------------- MODULE Volunteering ----------------------------
(***************************************************************************)
(* The seats of one volunteering activity: the applications of members     *)
(* (volunteering.service.ts) and the requests of visitors                  *)
(* (volunteer-request.service.ts) compete for them, while the people who   *)
(* manage the organization decide, edit, close and cancel at the same      *)
(* time.  Activities share nothing, so one is enough.                      *)
(*                                                                         *)
(* Each action is one round trip to the database.  A transaction's writes  *)
(* are made by its commit: until then nobody else can see them, and those  *)
(* who want the locked row wait for it.                                    *)
(***************************************************************************)
EXTENDS Naturals, FiniteSets, TypeOrmSave

CONSTANTS
  Managers,     \* requests to the panel in flight; a slot is used again
  Volunteers,   \* members who may apply; an application is known by its member
  Candidates,   \* visitors who may ask to join; each sends one request
  MaxCapacity,  \* bound on the seats of the activity (1000 in the DTO)
  EditOps,      \* the operations on the activity itself that are in play
  NoOne         \* nobody holds the lock on the activity's row

ASSUME VolunteeringAssumption ==
  /\ MaxCapacity \in Nat \ {0}
  /\ EditOps \subseteq {"update", "close", "cancel"}
  /\ NoOne \notin Managers
  /\ Volunteers \cap Candidates = {}
  /\ IsFiniteSet(Volunteers) /\ IsFiniteSet(Candidates)

VARIABLES
  opp,          \* row of volunteer_opportunities, `absent` before it is created
  application,  \* status of each member's application, `none` without a row
  request,      \* row of each visitor's request
  invited,      \* visitors with an invitation to the organization
  applying,     \* those whose application or request passed its checks, and
                \* whether it asks for a seat
  lock,         \* who holds the activity's row FOR UPDATE
  pc,           \* where each manager's request is
  target,       \* the application or request it decides
  oppCopy,      \* its copy of the activity
  reqCopy,      \* its copy of the visitor's request
  cols          \* the columns its save is about to write

vars == <<opp, application, request, invited, applying, lock, pc, target,
          oppCopy, reqCopy, cols>>

process == <<target, oppCopy, reqCopy, cols>>

Opportunity ==
  [status : {"absent", "open", "closed", "cancelled"},
   capacity : 0 .. MaxCapacity,
   acceptedCount : 0 .. MaxCapacity]

Request ==
  [status : {"none", "pending", "approved", "rejected"},
   seat : BOOLEAN,          \* opportunityId is set: it asks for a seat here,
                            \* and not to help the organization in general
   reason : BOOLEAN,        \* rejectReason is set
   invitation : BOOLEAN]    \* invitationId is set

\* The steps of a manager's request; in the last group a transaction that takes
\* a seat holds the lock.
Steps == {"idle", "updateSave", "updateWrite", "rejectSave", "rejectWrite",
          "declineSave", "declineWrite", "acceptLock", "approveLock"}
Deciding == {"acceptSave", "acceptCommit", "invite", "approveSave", "approveCommit"}

NoOpp == [status |-> "absent", capacity |-> 0, acceptedCount |-> 0]
NoRequest == [status |-> "none", seat |-> FALSE, reason |-> FALSE, invitation |-> FALSE]

TypeOK ==
  /\ opp \in Opportunity
  /\ application \in [Volunteers -> {"none", "pending", "accepted", "rejected"}]
  /\ request \in [Candidates -> Request]
  /\ invited \subseteq Candidates
  /\ applying \subseteq (Volunteers \cup Candidates) \X BOOLEAN
  /\ lock \in Managers \cup {NoOne}
  /\ pc \in [Managers -> Steps \cup Deciding]
  /\ target \in [Managers -> Volunteers \cup Candidates \cup {NoOne}]
  /\ oppCopy \in [Managers -> Opportunity]
  /\ reqCopy \in [Managers -> Request]
  /\ cols \in [Managers -> SUBSET (DOMAIN NoOpp \cup DOMAIN NoRequest)]

Init ==
  /\ opp = NoOpp
  /\ application = [u \in Volunteers |-> "none"]
  /\ request = [q \in Candidates |-> NoRequest]
  /\ invited = {}
  /\ applying = {}
  /\ lock = NoOne
  /\ pc = [m \in Managers |-> "idle"]
  /\ target = [m \in Managers |-> NoOne]
  /\ oppCopy = [m \in Managers |-> NoOpp]
  /\ reqCopy = [m \in Managers |-> NoRequest]
  /\ cols = [m \in Managers |-> {}]

Goto(m, from, to) ==
  /\ pc[m] = from
  /\ pc' = [pc EXCEPT ![m] = to]

\* The request ends, and what it had in memory with it.
End(m, from) ==
  /\ Goto(m, from, "idle")
  /\ target' = [target EXCEPT ![m] = NoOne]
  /\ oppCopy' = [oppCopy EXCEPT ![m] = NoOpp]
  /\ reqCopy' = [reqCopy EXCEPT ![m] = NoRequest]
  /\ cols' = [cols EXCEPT ![m] = {}]

-----------------------------------------------------------------------------
(* The activity, and those who ask for a seat.                             *)

IsOpen(o) == o.status = "open" /\ o.acceptedCount < o.capacity

Create ==
  /\ opp.status = "absent"
  /\ \E c \in 1 .. MaxCapacity :
       opp' = [status |-> "open", capacity |-> c, acceptedCount |-> 0]
  /\ UNCHANGED <<application, request, invited, applying, lock, pc, process>>

\* A member applies, or a visitor sends a request: the activity is read first.
\* A request to the organization in general reads no activity...
Check(p, seat) ==
  /\ seat => IsOpen(opp)
  /\ \/ p \in Volunteers /\ seat /\ application[p] = "none"
     \/ p \in Candidates /\ request[p].status = "none"
  /\ \A s \in BOOLEAN : <<p, s>> \notin applying
  /\ applying' = applying \cup {<<p, seat>>}
  /\ UNCHANGED <<opp, application, request, invited, lock, pc, process>>

\* ...and the row is inserted later.  Its foreign key takes a share lock on the
\* activity, so it waits for a transaction that holds the row FOR UPDATE.  The
\* mails of a request come after it and may fail (trySend).
Insert(p, seat) ==
  /\ <<p, seat>> \in applying
  /\ seat => lock = NoOne
  /\ \/ /\ p \in Volunteers
        /\ application' = [application EXCEPT ![p] = "pending"]
        /\ UNCHANGED request
     \/ /\ p \in Candidates
        /\ request' = [request EXCEPT ![p] = [NoRequest EXCEPT !.status = "pending",
                                                              !.seat = seat]]
        /\ UNCHANGED application
  /\ applying' = applying \ {<<p, seat>>}
  /\ UNCHANGED <<opp, invited, lock, pc, process>>

\* MemberService.cancelInvitation deletes the invitation; the request's foreign
\* key to it becomes null.
CancelInvitation(q) ==
  /\ q \in invited
  /\ invited' = invited \ {q}
  /\ request' = [request EXCEPT ![q].invitation = FALSE]
  /\ UNCHANGED <<opp, application, applying, lock, pc, process>>

-----------------------------------------------------------------------------
(* Taking a seat: accept an application, approve a request.  Both are one  *)
(* transaction that locks the activity after having read what it decides.  *)
(* A request to the organization in general takes none and locks nothing.  *)

\* findApplicationOrFail, findPendingOrFail: read, and still to be resolved.
BeginAccept(m, u) ==
  /\ application[u] = "pending"
  /\ Goto(m, "idle", "acceptLock")
  /\ target' = [target EXCEPT ![m] = u]
  /\ UNCHANGED <<opp, application, request, invited, applying, lock, oppCopy, reqCopy, cols>>

BeginApprove(m, q) ==
  /\ request[q].status = "pending"
  /\ Goto(m, "idle", IF request[q].seat THEN "approveLock" ELSE "invite")
  /\ target' = [target EXCEPT ![m] = q]
  /\ reqCopy' = [reqCopy EXCEPT ![m] = request[q]]
  /\ UNCHANGED <<opp, application, request, invited, applying, lock, oppCopy, cols>>

\* Mutant of SeatAvailable: the capacity is not looked at.
StillHeld(o) == o.status # "cancelled"

\* Mutant of SeatAvailable: the status is not looked at.
NotFull(o) == o.acceptedCount < o.capacity

SeatAvailable(o) == o.acceptedCount < o.capacity /\ o.status # "cancelled"

\* Mutant of LockOpportunity: a plain read instead of `pessimistic_write`.
ReadOpportunity(m) ==
  /\ SeatAvailable(opp)
  /\ \/ Goto(m, "acceptLock", "acceptSave")
     \/ Goto(m, "approveLock", "invite")
  /\ lock' = m
  /\ oppCopy' = [oppCopy EXCEPT ![m] = [opp EXCEPT !.acceptedCount = @ + 1]]
  /\ UNCHANGED <<opp, application, request, invited, applying, target, reqCopy, cols>>

\* SELECT ... FOR UPDATE, the checks, and the count in memory.  Without a seat
\* the transaction ends here (LockRefused).
LockOpportunity(m) ==
  /\ lock = NoOne
  /\ SeatAvailable(opp)
  /\ \/ Goto(m, "acceptLock", "acceptSave")
     \/ Goto(m, "approveLock", "invite")
  /\ lock' = m
  /\ oppCopy' = [oppCopy EXCEPT ![m] = [opp EXCEPT !.acceptedCount = @ + 1]]
  /\ UNCHANGED <<opp, application, request, invited, applying, target, reqCopy, cols>>

LockRefused(m) ==
  /\ lock = NoOne
  /\ ~SeatAvailable(opp)
  /\ End(m, "acceptLock") \/ End(m, "approveLock")
  /\ UNCHANGED <<opp, application, request, invited, applying, lock>>

Unlocked(m) == IF lock = m THEN NoOne ELSE lock

\* MemberService.invite inside the transaction: refused when the visitor has an
\* invitation already, which rolls everything back.
Invite(m) ==
  /\ target[m] \notin invited
  /\ Goto(m, "invite", "approveSave")
  /\ reqCopy' = [reqCopy EXCEPT ![m] = [@ EXCEPT !.status = "approved",
                                                 !.invitation = TRUE]]
  /\ UNCHANGED <<opp, application, request, invited, applying, lock, target, oppCopy, cols>>

\* Mutant of InviteRefused: the refusal does not roll the transaction back.
InviteRefusedKeepsLock(m) ==
  /\ target[m] \in invited
  /\ End(m, "invite")
  /\ UNCHANGED <<opp, application, request, invited, applying, lock>>

InviteRefused(m) ==
  /\ target[m] \in invited
  /\ End(m, "invite")
  /\ lock' = Unlocked(m)
  /\ UNCHANGED <<opp, application, request, invited, applying>>

\* The comparing read of the last save of each transaction.
AcceptSave(m) ==
  /\ Goto(m, "acceptSave", "acceptCommit")
  /\ cols' = [cols EXCEPT ![m] =
                IF application[target[m]] = "accepted" THEN {} ELSE {"status"}]
  /\ UNCHANGED <<opp, application, request, invited, applying, lock, target, oppCopy, reqCopy>>

ApproveSave(m) ==
  /\ Goto(m, "approveSave", "approveCommit")
  /\ cols' = [cols EXCEPT ![m] = Dirty(reqCopy[m], request[target[m]])]
  /\ UNCHANGED <<opp, application, request, invited, applying, lock, target, oppCopy, reqCopy>>

\* The row is ours since the lock, so its save wrote our copy.
AcceptCommit(m) ==
  /\ End(m, "acceptCommit")
  /\ opp' = oppCopy[m]
  /\ application' = IF cols[m] = {} THEN application
                    ELSE [application EXCEPT ![target[m]] = "accepted"]
  /\ lock' = NoOne
  /\ UNCHANGED <<request, invited, applying>>

\* CHK_volunteer_requests_reject_reason: a write that breaks it fails, and its
\* transaction with it.
RowAllowed(r) == r.status = "rejected" => r.reason

\* So does one whose invitation finds another pending for the same address
\* (the partial unique index), once that one is committed.
ApproveCommit(m) ==
  /\ End(m, "approveCommit")
  /\ LET row == Written(request[target[m]], reqCopy[m], cols[m])
         stands == RowAllowed(row) /\ target[m] \notin invited IN
       \/ /\ stands
          /\ request' = [request EXCEPT ![target[m]] = row]
          /\ opp' = IF reqCopy[m].seat THEN oppCopy[m] ELSE opp
          /\ invited' = invited \cup {target[m]}
       \/ ~stands /\ UNCHANGED <<request, opp, invited>>
  /\ lock' = Unlocked(m)
  /\ UNCHANGED <<application, applying>>

-----------------------------------------------------------------------------
(* Deciding without a seat: reject an application, reject a request.  No   *)
(* lock and no transaction around the read and the save.                   *)

BeginReject(m, u) ==
  /\ application[u] = "pending"
  /\ Goto(m, "idle", "rejectSave")
  /\ target' = [target EXCEPT ![m] = u]
  /\ UNCHANGED <<opp, application, request, invited, applying, lock, oppCopy, reqCopy, cols>>

RejectSave(m) ==
  /\ Goto(m, "rejectSave", "rejectWrite")
  /\ cols' = [cols EXCEPT ![m] =
                IF application[target[m]] = "rejected" THEN {} ELSE {"status"}]
  /\ UNCHANGED <<opp, application, request, invited, applying, lock, target, oppCopy, reqCopy>>

RejectWrite(m) ==
  /\ End(m, "rejectWrite")
  /\ application' = IF cols[m] = {} THEN application
                    ELSE [application EXCEPT ![target[m]] = "rejected"]
  /\ UNCHANGED <<opp, request, invited, applying, lock>>

BeginDecline(m, q) ==
  /\ request[q].status = "pending"
  /\ Goto(m, "idle", "declineSave")
  /\ target' = [target EXCEPT ![m] = q]
  /\ reqCopy' = [reqCopy EXCEPT ![m] = [request[q] EXCEPT !.status = "rejected",
                                                         !.reason = TRUE]]
  /\ UNCHANGED <<opp, application, request, invited, applying, lock, oppCopy, cols>>

DeclineSave(m) ==
  /\ Goto(m, "declineSave", "declineWrite")
  /\ cols' = [cols EXCEPT ![m] = Dirty(reqCopy[m], request[target[m]])]
  /\ UNCHANGED <<opp, application, request, invited, applying, lock, target, oppCopy, reqCopy>>

DeclineWrite(m) ==
  /\ End(m, "declineWrite")
  /\ LET row == Written(request[target[m]], reqCopy[m], cols[m]) IN
       request' = IF RowAllowed(row) THEN [request EXCEPT ![target[m]] = row]
                  ELSE request
  /\ UNCHANGED <<opp, application, invited, applying, lock>>

-----------------------------------------------------------------------------
(* Editing the activity: update, close and cancel read it, change a column *)
(* in memory and save it, without a lock either.                           *)

BeginEdit(m, edited) ==
  /\ Goto(m, "idle", "updateSave")
  /\ oppCopy' = [oppCopy EXCEPT ![m] = edited]
  /\ UNCHANGED <<opp, application, request, invited, applying, lock, target, reqCopy, cols>>

BeginUpdate(m) ==
  /\ "update" \in EditOps
  /\ opp.status = "open"
  /\ \E c \in 1 .. MaxCapacity :
       c >= opp.acceptedCount /\ BeginEdit(m, [opp EXCEPT !.capacity = c])

\* close and cancel go through setStatus, which looks at no status.
NewStatus == [close |-> "closed", cancel |-> "cancelled"]

BeginSetStatus(m) ==
  /\ opp.status # "absent"
  /\ \E op \in EditOps \ {"update"} :
       BeginEdit(m, [opp EXCEPT !.status = NewStatus[op]])

EditSave(m) ==
  /\ Goto(m, "updateSave", "updateWrite")
  /\ cols' = [cols EXCEPT ![m] = Dirty(oppCopy[m], opp)]
  /\ UNCHANGED <<opp, application, request, invited, applying, lock, target, oppCopy, reqCopy>>

\* The update waits for a transaction that has the row locked, and
\* CHK_volunteer_opportunities_accepted refuses more accepted than seats.
EditWrite(m) ==
  /\ lock = NoOne
  /\ End(m, "updateWrite")
  /\ LET row == Written(opp, oppCopy[m], cols[m]) IN
       opp' = IF row.acceptedCount <= row.capacity THEN row ELSE opp
  /\ UNCHANGED <<application, request, invited, applying, lock>>

-----------------------------------------------------------------------------
\* A query or the invitation's mail fails, or the connection breaks: what was
\* not committed is rolled back and the lock released.
Fail(m) ==
  /\ pc[m] # "idle"
  /\ End(m, pc[m])
  /\ lock' = Unlocked(m)
  /\ UNCHANGED <<opp, application, request, invited, applying>>

Begin(m) ==
  \/ \E u \in Volunteers : BeginAccept(m, u) \/ BeginReject(m, u)
  \/ \E q \in Candidates : BeginApprove(m, q) \/ BeginDecline(m, q)
  \/ BeginUpdate(m) \/ BeginSetStatus(m)

\* PostgreSQL grants a row lock; who waits is served in turn.
GetLock(m) == LockOpportunity(m) \/ LockRefused(m)

Advance(m) ==
  \/ Invite(m) \/ InviteRefused(m)
  \/ AcceptSave(m) \/ AcceptCommit(m) \/ ApproveSave(m) \/ ApproveCommit(m)
  \/ RejectSave(m) \/ RejectWrite(m) \/ DeclineSave(m) \/ DeclineWrite(m)
  \/ EditSave(m)

Next ==
  \/ Create
  \/ \E p \in Volunteers \cup Candidates, seat \in BOOLEAN :
       Check(p, seat) \/ Insert(p, seat)
  \/ \E q \in Candidates : CancelInvitation(q)
  \/ \E m \in Managers :
       Begin(m) \/ GetLock(m) \/ Advance(m) \/ EditWrite(m) \/ Fail(m)

Spec == Init /\ [][Next]_vars

\* The statements of a decision complete, and the row's lock, whose waiters
\* queue, is granted in the end to each of them.  Failures are never owed.
Fairness ==
  \A m \in Managers : WF_vars(Advance(m)) /\ SF_vars(GetLock(m))

FairSpec == Spec /\ Fairness

-----------------------------------------------------------------------------
(* Properties.                                                             *)

Accepted == {u \in Volunteers : application[u] = "accepted"}
Approved == {q \in Candidates : request[q].status = "approved" /\ request[q].seat}
SeatsTaken == Cardinality(Accepted) + Cardinality(Approved)

\* Those with a seat never outnumber what acceptedCount says, nor that the
\* seats there are.
SeatsWithinCapacity ==
  /\ SeatsTaken <= opp.acceptedCount
  /\ opp.acceptedCount <= opp.capacity

\* "Dos gestores aceptando a la vez no pasan capacity": no acceptance, approval,
\* rejection, edit or failure breaks that count, however they interleave, except
\* an edit that writes back an acceptedCount which it read before.
SeatsStand ==
  [][SeatsWithinCapacity =>
       \/ SeatsWithinCapacity'
       \/ \E m \in Managers : /\ pc[m] = "updateWrite" /\ pc'[m] = "idle"
                             /\ "acceptedCount" \in cols[m]]_vars

\* Inside the transaction of a decision that takes a seat.
TakesSeat(m) ==
  /\ pc[m] \in Deciding
  /\ target[m] \in Candidates => reqCopy[m].seat

\* A transaction that took a seat runs alone, edits included: the lock says who,
\* and what it is about to write is still the row plus one.
OneSeatTakerAtATime ==
  \A m \in Managers : TakesSeat(m) =>
    /\ lock = m
    /\ oppCopy[m] = [opp EXCEPT !.acceptedCount = @ + 1]

\* Nobody gets a seat in an activity that is cancelled by then, however the
\* cancellation and the decision interleave.
NoSeatOnceCancelled ==
  [][opp.status = "cancelled" =>
       Accepted' \subseteq Accepted /\ Approved' \subseteq Approved]_vars

\* Every acceptance and approval ends: no transaction keeps the row locked
\* or waits for it forever.
DecisionsEnd ==
  \A m \in Managers :
    pc[m] \in Deciding \cup {"acceptLock", "approveLock"} ~> pc[m] = "idle"

-----------------------------------------------------------------------------
(* What the code's comments and tests say and its interleavings refute.    *)

\* The comment of `accept`: `capacity` is never exceeded.  With edits in play a
\* stale save gives back seats that are taken.
NeverOverbooked == SeatsTaken <= opp.capacity
=============================================================================
