------------------------------ MODULE Members ------------------------------
(***************************************************************************)
(* The members of one organization and the invitations that bring them in. *)
(* Managers change roles, disable and enable members, invite and cancel    *)
(* (member.service.ts); whoever has the link of an invitation accepts it   *)
(* (invitation.service.ts), with one query after another and no            *)
(* transaction around them.                                                *)
(***************************************************************************)
EXTENDS FiniteSets, TypeOrmSave

CONSTANTS
  Persons,          \* known by their e-mail address
  Owner,            \* who created the organization
  Invitations,      \* rows of organization_invitations
  Requests,         \* requests in flight; a slot is used again
  ASSIGNABLE_ROLES, \* admin, coordinador and voluntario, or some of them
  NoOne             \* no person, no invitation

ASSUME MembersAssumption ==
  /\ Owner \in Persons
  /\ ASSIGNABLE_ROLES \subseteq {"admin", "coordinador", "voluntario"}
  /\ NoOne \notin Persons /\ NoOne \notin Invitations

VARIABLES
  account,     \* who has a user account
  member,      \* membership of each person, `none` without a row
  invitation,  \* the rows; `state` says which of them are there
  pc,          \* where each request is
  actor,       \* the manager who sent it, until the handler checked it
  target,      \* the person whose membership it changes, or whom it invites
  link,        \* the invitation it is about
  copy,        \* its copy of a membership
  cols         \* the columns its save is about to write

requestVars == <<pc, actor, target, link, copy, cols>>
vars == <<account, member, invitation, requestVars>>

MEMBER_MANAGER_ROLES == {"owner", "admin"}

Membership == [role : ASSIGNABLE_ROLES \cup {"owner", "none"}, active : BOOLEAN]
NoMembership == [role |-> "none", active |-> FALSE]

\* acceptedAt is null while `pending`; a cancelled row is deleted.
Invitation ==
  [state : {"unused", "pending", "accepted", "deleted"},
   email : Persons \cup {NoOne}, role : ASSIGNABLE_ROLES \cup {"none"}, expired : BOOLEAN]
Unused == [state |-> "unused", email |-> NoOne, role |-> "none", expired |-> FALSE]

\* A request is in the handler once the guards let it in.
Steps == {"out", "handler", "save", "write", "findPending", "insert", "delete",
          "findUser", "createUser", "findMembership", "saveExisting", "writeExisting",
          "createMembership", "saveInvitation", "updateInvitation", "insertAgain"}

TypeOK ==
  /\ account \subseteq Persons
  /\ member \in [Persons -> Membership]
  /\ invitation \in [Invitations -> Invitation]
  /\ pc \in [Requests -> Steps]
  /\ actor \in [Requests -> Persons \cup {NoOne}]
  /\ target \in [Requests -> Persons \cup {NoOne}]
  /\ link \in [Requests -> Invitations \cup {NoOne}]
  /\ copy \in [Requests -> Membership]
  /\ cols \in [Requests -> SUBSET {"role", "active"}]

IsMember(p) == member[p].role # "none"
IsPending(i) == invitation[i].state = "pending"

Init ==
  /\ account = {Owner}
  /\ member = [p \in Persons |-> IF p = Owner THEN [role |-> "owner", active |-> TRUE]
                                 ELSE NoMembership]
  /\ invitation = [i \in Invitations |-> Unused]
  /\ pc = [r \in Requests |-> "out"]
  /\ actor = [r \in Requests |-> NoOne]
  /\ target = [r \in Requests |-> NoOne]
  /\ link = [r \in Requests |-> NoOne]
  /\ copy = [r \in Requests |-> NoMembership]
  /\ cols = [r \in Requests |-> {}]

Goto(r, from, to) ==
  /\ pc[r] = from
  /\ pc' = [pc EXCEPT ![r] = to]

ForgetCopy(r) ==
  /\ copy' = [copy EXCEPT ![r] = NoMembership]
  /\ cols' = [cols EXCEPT ![r] = {}]

\* The request is answered, and forgets what it had in memory.
End(r) ==
  /\ pc' = [pc EXCEPT ![r] = "out"]
  /\ actor' = [actor EXCEPT ![r] = NoOne]
  /\ target' = [target EXCEPT ![r] = NoOne]
  /\ link' = [link EXCEPT ![r] = NoOne]
  /\ ForgetCopy(r)

-----------------------------------------------------------------------------
(* What managers do.                                                       *)

\* TenantGuard and RolesGuard: the role is read on each request, once.
Enter(r, a) ==
  /\ member[a].active /\ member[a].role \in MEMBER_MANAGER_ROLES
  /\ Goto(r, "out", "handler")
  /\ actor' = [actor EXCEPT ![r] = a]
  /\ UNCHANGED <<account, member, invitation, target, link, copy, cols>>

\* Mutant of IsEditable: whoever is a member can be edited.
IsOther(r, p) == actor[r] # p /\ IsMember(p)

IsEditable(r, p) == actor[r] # p /\ IsMember(p) /\ member[p].role # "owner"

\* requireEditableMembership and the change in memory.
BeginEdit(r, p, edited) ==
  /\ IsEditable(r, p)
  /\ Goto(r, "handler", "save")
  /\ target' = [target EXCEPT ![r] = p]
  /\ copy' = [copy EXCEPT ![r] = edited]
  /\ actor' = [actor EXCEPT ![r] = NoOne]
  /\ UNCHANGED <<account, member, invitation, link, cols>>

ChangeRole(r, p) ==
  \E role \in ASSIGNABLE_ROLES : BeginEdit(r, p, [member[p] EXCEPT !.role = role])

ToggleActive(r, p) == BeginEdit(r, p, [member[p] EXCEPT !.active = ~@])

\* The comparing read of a save.
SaveMembership(r, from, to) ==
  /\ Goto(r, from, to)
  /\ cols' = [cols EXCEPT ![r] = Dirty(copy[r], member[target[r]])]
  /\ UNCHANGED <<account, member, invitation, actor, target, link, copy>>

WriteRow(r) ==
  member' = [member EXCEPT ![target[r]] = Written(@, copy[r], cols[r])]

Save(r) == SaveMembership(r, "save", "write")

Write(r) ==
  /\ pc[r] = "write"
  /\ WriteRow(r)
  /\ End(r)
  /\ UNCHANGED <<account, invitation>>

\* Whoever has no account is no member: the two queries say one thing.
Invite(r, p) ==
  /\ ~IsMember(p)
  /\ Goto(r, "handler", "findPending")
  /\ target' = [target EXCEPT ![r] = p]
  /\ actor' = [actor EXCEPT ![r] = NoOne]
  /\ UNCHANGED <<account, member, invitation, link, copy, cols>>

NonePending(p) == \A i \in Invitations : IsPending(i) => invitation[i].email # p

\* An invitation that expired is pending all the same.
FindPending(r) ==
  /\ NonePending(target[r])
  /\ Goto(r, "findPending", "insert")
  /\ UNCHANGED <<account, member, invitation, actor, target, link, copy, cols>>

\* The unique index on pending invitations refuses a second one.  The mail comes
\* after it: when it fails the invitation stays.
InsertInvitation(r) ==
  /\ pc[r] = "insert"
  /\ NonePending(target[r])
  /\ \E i \in Invitations, role \in ASSIGNABLE_ROLES :
       /\ invitation[i].state = "unused"
       /\ invitation' = [invitation EXCEPT ![i] =
            [state |-> "pending", email |-> target[r], role |-> role, expired |-> FALSE]]
  /\ End(r)
  /\ UNCHANGED <<account, member>>

\* It is looked up by its id, whether it was accepted or not.
CancelInvitation(r, i) ==
  /\ invitation[i].state \in {"pending", "accepted"}
  /\ Goto(r, "handler", "delete")
  /\ link' = [link EXCEPT ![r] = i]
  /\ actor' = [actor EXCEPT ![r] = NoOne]
  /\ UNCHANGED <<account, member, invitation, target, copy, cols>>

DeleteInvitation(r) ==
  /\ pc[r] = "delete"
  /\ invitation' = [invitation EXCEPT ![link[r]].state = "deleted"]
  /\ End(r)
  /\ UNCHANGED <<account, member>>

-----------------------------------------------------------------------------
(* Accepting an invitation.                                                *)

\* requireValidInvitation: an invitation works until it is accepted or expires.
Accept(r, i) ==
  /\ IsPending(i) /\ ~invitation[i].expired
  /\ Goto(r, "out", "findUser")
  /\ link' = [link EXCEPT ![r] = i]
  /\ target' = [target EXCEPT ![r] = invitation[i].email]
  /\ UNCHANGED <<account, member, invitation, actor, copy, cols>>

FindUser(r) ==
  /\ Goto(r, "findUser", IF target[r] \in account THEN "findMembership" ELSE "createUser")
  /\ UNCHANGED <<account, member, invitation, actor, target, link, copy, cols>>

\* Mutant of CreateUser: a new account is taken for a member.
CreateUserOnly(r) ==
  /\ Goto(r, "createUser", "saveInvitation")
  /\ target[r] \notin account
  /\ account' = account \cup {target[r]}
  /\ UNCHANGED <<member, invitation, actor, target, link, copy, cols>>

\* users.email is unique.
CreateUser(r) ==
  /\ Goto(r, "createUser", "findMembership")
  /\ target[r] \notin account
  /\ account' = account \cup {target[r]}
  /\ UNCHANGED <<member, invitation, actor, target, link, copy, cols>>

\* A member gets the role of the invitation and is active again.
FindMembership(r) ==
  /\ Goto(r, "findMembership", IF IsMember(target[r]) THEN "saveExisting" ELSE "createMembership")
  /\ copy' = [copy EXCEPT ![r] = [role |-> invitation[link[r]].role, active |-> TRUE]]
  /\ UNCHANGED <<account, member, invitation, actor, target, link, cols>>

SaveExisting(r) == SaveMembership(r, "saveExisting", "writeExisting")

WriteExisting(r) ==
  /\ Goto(r, "writeExisting", "saveInvitation")
  /\ WriteRow(r)
  /\ ForgetCopy(r)
  /\ UNCHANGED <<account, invitation, actor, target, link>>

\* The unique index on (userId, organizationId) refuses a second membership.
CreateMembership(r) ==
  /\ Goto(r, "createMembership", "saveInvitation")
  /\ ~IsMember(target[r])
  /\ member' = [member EXCEPT ![target[r]] = copy[r]]
  /\ ForgetCopy(r)
  /\ UNCHANGED <<account, invitation, actor, target, link>>

\* The comparing read of the last save: a row that was cancelled meanwhile is
\* not there, and will be inserted.
SaveInvitation(r) ==
  /\ Goto(r, "saveInvitation",
          IF invitation[link[r]].state = "deleted" THEN "insertAgain" ELSE "updateInvitation")
  /\ UNCHANGED <<account, member, invitation, actor, target, link, copy, cols>>

UpdateInvitation(r) ==
  /\ pc[r] = "updateInvitation"
  /\ invitation' = IF invitation[link[r]].state = "deleted" THEN invitation
                   ELSE [invitation EXCEPT ![link[r]].state = "accepted"]
  /\ End(r)
  /\ UNCHANGED <<account, member>>

InsertAgain(r) ==
  /\ pc[r] = "insertAgain"
  /\ invitation[link[r]].state = "deleted"
  /\ invitation' = [invitation EXCEPT ![link[r]].state = "accepted"]
  /\ End(r)
  /\ UNCHANGED <<account, member>>

-----------------------------------------------------------------------------
\* AuthService.register makes an account without any invitation.
Register(p) ==
  /\ p \notin account
  /\ account' = account \cup {p}
  /\ UNCHANGED <<member, invitation, requestVars>>

Expire(i) ==
  /\ IsPending(i) /\ ~invitation[i].expired
  /\ invitation' = [invitation EXCEPT ![i].expired = TRUE]
  /\ UNCHANGED <<account, member, requestVars>>

\* A check refuses, a query fails or the process stops: what was written stays.
Fail(r) ==
  /\ pc[r] # "out"
  /\ End(r)
  /\ UNCHANGED <<account, member, invitation>>

Manage(r) ==
  \/ \E p \in Persons : Enter(r, p) \/ ChangeRole(r, p) \/ ToggleActive(r, p) \/ Invite(r, p)
  \/ Save(r) \/ Write(r) \/ FindPending(r) \/ InsertInvitation(r)
  \/ \E i \in Invitations : CancelInvitation(r, i)
  \/ DeleteInvitation(r)

Join(r) ==
  \/ \E i \in Invitations : Accept(r, i)
  \/ FindUser(r) \/ CreateUser(r) \/ FindMembership(r)
  \/ SaveExisting(r) \/ WriteExisting(r) \/ CreateMembership(r)
  \/ SaveInvitation(r) \/ UpdateInvitation(r) \/ InsertAgain(r)

Next ==
  \/ \E p \in Persons : Register(p)
  \/ \E i \in Invitations : Expire(i)
  \/ \E r \in Requests : Manage(r) \/ Join(r) \/ Fail(r)

Spec == Init /\ [][Next]_vars

-----------------------------------------------------------------------------
(* Properties.                                                             *)

\* DOMAIN.md, invariant 4: `owner` is neither assigned nor transferred, and the
\* one who has it keeps access, whatever stale copies the saves write and
\* whatever the invitations offer.
OwnerStands ==
  \A p \in Persons :
    IF p = Owner THEN member[p] = [role |-> "owner", active |-> TRUE]
    ELSE member[p].role # "owner"

\* An invitation is marked as accepted only after its person joined: what fails
\* between the two leaves a link that still works, never one that is lost.
AcceptedHasJoined ==
  \A i \in Invitations :
    invitation[i].state = "accepted" => IsMember(invitation[i].email)
=============================================================================
