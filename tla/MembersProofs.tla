--------------------------- MODULE MembersProofs ---------------------------
(***************************************************************************)
(* The owner's membership is never touched and every accepted invitation   *)
(* has its member, for any number of persons, invitations and requests.    *)
(***************************************************************************)
EXTENDS Members, TLAPS

Others == Persons \ {Owner}

\* A request that edits or invites is about somebody who is not the owner.
EditsOthers ==
  /\ \A r \in Requests : pc[r] \in {"save", "write", "findPending", "insert"} =>
       target[r] \in Others
  /\ \A r \in Requests : pc[r] \in {"save", "write"} => copy[r].role \in ASSIGNABLE_ROLES

\* Invitations are for others too, and offer roles that can be assigned.
InvitesOthers ==
  \A i \in Invitations : invitation[i].state # "unused" =>
    invitation[i].email \in Others /\ invitation[i].role \in ASSIGNABLE_ROLES

Marking == {"saveInvitation", "updateInvitation", "insertAgain"}
Granting == {"saveExisting", "writeExisting", "createMembership"}
Joining == {"findUser", "createUser", "findMembership"} \cup Granting \cup Marking

\* A request that accepts is about the person of its invitation, writes a role
\* that can be assigned and marks the invitation once that person is a member.
JoinsInvited ==
  /\ \A r \in Requests : pc[r] \in Joining \cup {"delete"} =>
       link[r] \in Invitations /\ invitation[link[r]].state # "unused"
  /\ \A r \in Requests : pc[r] \in Joining => target[r] = invitation[link[r]].email
  /\ \A r \in Requests : pc[r] \in Granting => copy[r].role \in ASSIGNABLE_ROLES
  /\ \A r \in Requests : pc[r] \in Marking \cup {"saveExisting", "writeExisting"} =>
       IsMember(target[r])

IInv ==
  /\ TypeOK
  /\ OwnerStands
  /\ EditsOthers
  /\ InvitesOthers
  /\ JoinsInvited
  /\ AcceptedHasJoined

USE MembersAssumption

\* Nothing has happened at the start.
LEMMA InitIInv == Init => IInv
BY DEF Init, IInv, TypeOK, OwnerStands, EditsOthers, InvitesOthers, JoinsInvited,
       AcceptedHasJoined, Steps, Membership, NoMembership, Invitation, Unused, Joining,
       Granting, Marking

\* A save keeps a person a member with a role that can be assigned.
LEMMA WrittenRole ==
  ASSUME IInv, NEW r \in Requests, pc[r] \in {"write", "writeExisting"}, WriteRow(r)
  PROVE  /\ member' \in [Persons -> Membership]
         /\ OwnerStands'
         /\ \A p \in Persons : IsMember(p) => IsMember(p)'
<1> DEFINE t == target[r]
<1>1. /\ t \in Others
      /\ copy[r] \in Membership /\ copy[r].role \in ASSIGNABLE_ROLES
      /\ cols[r] \in SUBSET {"role", "active"}
  BY DEF IInv, TypeOK, EditsOthers, JoinsInvited, InvitesOthers, Joining, Granting
<1>2. member \in [Persons -> Membership]
  BY DEF IInv, TypeOK
<1> DEFINE row == Written(member[t], copy[r], cols[r])
<1>3. /\ row \in Membership
      /\ row.role \in ASSIGNABLE_ROLES \cup {member[t].role}
  <2>1. member[t] \in Membership /\ DOMAIN member[t] = {"role", "active"}
    BY <1>1, <1>2 DEF Others, Membership
  <2>2. row = [role   |-> IF "role" \in cols[r] THEN copy[r].role ELSE member[t].role,
               active |-> IF "active" \in cols[r] THEN copy[r].active ELSE member[t].active]
    BY <2>1 DEF Written
  <2> QED
    BY <1>1, <2>1, <2>2 DEF Membership
<1>4. member' = [member EXCEPT ![t] = row]
  BY DEF WriteRow
<1> HIDE DEF row, t
<1>5. row.role # "owner"
  BY <1>1, <1>3 DEF IInv, OwnerStands, Others
<1>6. member'[t] = row /\ (member[t].role # "none" => row.role # "none")
  BY <1>1, <1>2, <1>3, <1>4 DEF Others
<1>7. \A p \in Persons \ {t} : member'[p] = member[p]
  BY <1>2, <1>4
<1>8. OwnerStands'
  BY <1>1, <1>5, <1>6, <1>7 DEF IInv, OwnerStands, Others
<1>9. member' \in [Persons -> Membership]
  BY <1>1, <1>2, <1>3, <1>4 DEF Others
<1>10. \A p \in Persons : IsMember(p) => IsMember(p)'
  BY <1>1, <1>6, <1>7 DEF IsMember, Others
<1> QED
  BY <1>8, <1>9, <1>10

\* Marking or deleting an invitation leaves its person and its role alone.
LEMMA StateSet ==
  ASSUME TypeOK, NEW i \in Invitations, NEW s \in {"accepted", "deleted"},
         invitation' = [invitation EXCEPT ![i].state = s]
  PROVE  /\ invitation' \in [Invitations -> Invitation]
         /\ \A j \in Invitations :
              /\ invitation'[j].email = invitation[j].email
              /\ invitation'[j].role = invitation[j].role
              /\ invitation'[j].state = IF j = i THEN s ELSE invitation[j].state
BY DEF TypeOK, Invitation

\* A write that takes nobody's membership away, after which the request ends or
\* goes on to mark its invitation.
LEMMA MemberWritten ==
  ASSUME IInv, NEW r \in Requests, NEW s \in {"out", "saveInvitation"},
         member' \in [Persons -> Membership],
         OwnerStands',
         \A p \in Persons : IsMember(p) => IsMember(p)',
         s = "saveInvitation" => pc[r] \in Granting /\ IsMember(target[r])',
         pc' = [pc EXCEPT ![r] = s],
         ForgetCopy(r),
         s = "out" => End(r),
         s = "saveInvitation" => UNCHANGED <<actor, target, link>>,
         UNCHANGED <<account, invitation>>
  PROVE  IInv'
<1>1. CASE s = "out"
  <2>1. End(r)
    BY <1>1
  <2>2. TypeOK'
    BY <2>1 DEF IInv, TypeOK, End, ForgetCopy, Steps, NoMembership, Membership
  <2>3. EditsOthers' /\ InvitesOthers'
    BY <2>1 DEF IInv, TypeOK, End, ForgetCopy, EditsOthers, InvitesOthers
  <2>4. JoinsInvited'
    <3>1. \A q \in Requests : pc'[q] \in Joining \cup {"delete"} =>
            /\ pc'[q] = pc[q] /\ target'[q] = target[q] /\ link'[q] = link[q]
            /\ copy'[q] = copy[q]
      BY <2>1 DEF IInv, TypeOK, End, ForgetCopy, Joining, Granting, Marking
    <3>2. \A q \in Requests : pc[q] \in Joining => target[q] \in Persons
      BY DEF IInv, JoinsInvited, InvitesOthers, Others
    <3> QED
      BY <3>1, <3>2 DEF IInv, JoinsInvited, Joining, Granting, Marking
  <2>5. AcceptedHasJoined'
    BY DEF IInv, AcceptedHasJoined, InvitesOthers, Others
  <2> QED
    BY <2>2, <2>3, <2>4, <2>5 DEF IInv
<1>2. CASE s = "saveInvitation"
  <2>1. /\ pc[r] \in Granting /\ IsMember(target[r])'
        /\ UNCHANGED <<actor, target, link>>
    BY <1>2
  <2>2. TypeOK'
    BY <2>1 DEF IInv, TypeOK, ForgetCopy, Steps, NoMembership, Membership
  <2>3. EditsOthers' /\ InvitesOthers'
    BY <1>2, <2>1 DEF IInv, TypeOK, ForgetCopy, EditsOthers, InvitesOthers
  <2>4. JoinsInvited'
    <3>1. \A q \in Requests \ {r} : pc'[q] = pc[q] /\ copy'[q] = copy[q]
      BY DEF IInv, TypeOK, ForgetCopy
    <3>2. \A q \in Requests : pc[q] \in Joining => target[q] \in Persons
      BY DEF IInv, JoinsInvited, InvitesOthers, Others
    <3>3. pc'[r] = "saveInvitation"
      BY <1>2 DEF IInv, TypeOK
    <3> QED
      BY <2>1, <3>1, <3>2, <3>3 DEF IInv, JoinsInvited, Joining, Granting, Marking
  <2>5. AcceptedHasJoined'
    BY DEF IInv, AcceptedHasJoined, InvitesOthers, Others
  <2> QED
    BY <2>2, <2>3, <2>4, <2>5 DEF IInv
<1> QED
  BY <1>1, <1>2

\* A write that ends the request and only sets the state of its invitation.
LEMMA InvitationWritten ==
  ASSUME IInv, NEW r \in Requests, NEW i \in Invitations, NEW s \in {"accepted", "deleted"},
         invitation[i].state # "unused",
         invitation' = [invitation EXCEPT ![i].state = s],
         s = "accepted" => IsMember(invitation[i].email),
         End(r),
         UNCHANGED <<account, member>>
  PROVE  IInv'
<1>1. /\ invitation' \in [Invitations -> Invitation]
      /\ \A j \in Invitations :
           /\ invitation'[j].email = invitation[j].email
           /\ invitation'[j].role = invitation[j].role
           /\ invitation'[j].state = IF j = i THEN s ELSE invitation[j].state
  BY StateSet DEF IInv
<1>2. TypeOK'
  BY <1>1 DEF IInv, TypeOK, End, ForgetCopy, Steps, NoMembership, Membership
<1>3. EditsOthers'
  BY DEF IInv, TypeOK, End, ForgetCopy, EditsOthers
<1>4. InvitesOthers'
  BY <1>1 DEF IInv, InvitesOthers
<1>5. JoinsInvited'
  <2>1. \A q \in Requests : pc'[q] \in Joining \cup {"delete"} =>
          /\ pc'[q] = pc[q] /\ target'[q] = target[q] /\ link'[q] = link[q]
          /\ copy'[q] = copy[q]
    BY DEF IInv, TypeOK, End, ForgetCopy, Joining, Granting, Marking
  <2> QED
    BY <1>1, <2>1 DEF IInv, JoinsInvited, Joining, Granting, Marking, IsMember
<1>6. OwnerStands' /\ AcceptedHasJoined'
  BY <1>1 DEF IInv, OwnerStands, AcceptedHasJoined, IsMember
<1> QED
  BY <1>2, <1>3, <1>4, <1>5, <1>6 DEF IInv

\* Every step of a manager's request keeps the invariant.
LEMMA ManageIInv ==
  ASSUME IInv, NEW r \in Requests, Manage(r)
  PROVE  IInv'
<1>1. CASE Write(r)
  <2>1. /\ member' \in [Persons -> Membership]
        /\ OwnerStands'
        /\ \A p \in Persons : IsMember(p) => IsMember(p)'
    BY <1>1, WrittenRole DEF Write
  <2>2. End(r) /\ UNCHANGED <<account, invitation>>
    BY <1>1 DEF Write
  <2>3. pc' = [pc EXCEPT ![r] = "out"] /\ ForgetCopy(r)
    BY <2>2 DEF End
  <2> QED
    BY <2>1, <2>2, <2>3, MemberWritten
<1>2. CASE DeleteInvitation(r)
  <2>1. /\ link[r] \in Invitations /\ invitation[link[r]].state # "unused"
        /\ invitation' = [invitation EXCEPT ![link[r]].state = "deleted"]
        /\ End(r) /\ UNCHANGED <<account, member>>
    BY <1>2 DEF DeleteInvitation, IInv, JoinsInvited
  <2> QED
    BY <2>1, InvitationWritten
<1>3. ASSUME NEW p \in Persons, NEW edited \in Membership,
             edited.role \in ASSIGNABLE_ROLES, BeginEdit(r, p, edited)
      PROVE  IInv'
  <2>1. p \in Others
    BY <1>3 DEF BeginEdit, IsEditable, IInv, OwnerStands, Others
  <2>2. TypeOK'
    BY <1>3 DEF BeginEdit, Goto, IInv, TypeOK, Steps
  <2> QED
    BY <1>3, <2>1, <2>2
    DEF BeginEdit, Goto, IInv, TypeOK, OwnerStands, EditsOthers, InvitesOthers, JoinsInvited,
        AcceptedHasJoined, Joining, Granting, Marking, IsMember
<1>4. ASSUME NEW p \in Persons, ToggleActive(r, p) PROVE IInv'
  <2>1. member[p] \in Membership /\ member[p].role \in ASSIGNABLE_ROLES
    BY <1>4 DEF ToggleActive, BeginEdit, IsEditable, IsMember, IInv, TypeOK, Membership
  <2>2. PICK role \in ASSIGNABLE_ROLES, active \in BOOLEAN :
          member[p] = [role |-> role, active |-> active]
    BY <2>1 DEF Membership
  <2>3. [member[p] EXCEPT !.active = ~@] = [role |-> role, active |-> ~active]
    BY <2>2
  <2>4. [role |-> role, active |-> ~active] \in Membership
    BY DEF Membership
  <2> QED
    BY <1>3, <1>4, <2>3, <2>4 DEF ToggleActive
<1>5. ASSUME NEW p \in Persons, ChangeRole(r, p) PROVE IInv'
  <2>1. member[p] \in Membership
    BY DEF IInv, TypeOK
  <2>2. PICK role \in ASSIGNABLE_ROLES : BeginEdit(r, p, [member[p] EXCEPT !.role = role])
    BY <1>5 DEF ChangeRole
  <2>3. /\ [member[p] EXCEPT !.role = role] \in Membership
        /\ [member[p] EXCEPT !.role = role].role = role
    BY <2>1 DEF Membership
  <2> QED
    BY <1>3, <2>2, <2>3
<1> USE DEF IInv, TypeOK, OwnerStands, EditsOthers, InvitesOthers, JoinsInvited,
            AcceptedHasJoined, Steps, Membership, NoMembership, Invitation, Joining,
            Granting, Marking, Others, IsMember, IsPending, Goto, End, ForgetCopy
<1>6. ASSUME NEW p \in Persons, Enter(r, p) PROVE IInv'
  BY <1>6 DEF Enter
<1>7. ASSUME NEW p \in Persons, Invite(r, p) PROVE IInv'
  BY <1>7 DEF Invite
<1>8. CASE Save(r)
  BY <1>8 DEF Save, SaveMembership, Dirty
<1>9. CASE FindPending(r)
  BY <1>9 DEF FindPending
<1>10. CASE InsertInvitation(r)
  BY <1>10 DEF InsertInvitation
<1>11. ASSUME NEW i \in Invitations, CancelInvitation(r, i) PROVE IInv'
  BY <1>11 DEF CancelInvitation
<1> QED
  BY <1>1, <1>2, <1>3, <1>4, <1>5, <1>6, <1>7, <1>8, <1>9, <1>10, <1>11
  DEF Manage

\* So does every step of an acceptance.
LEMMA JoinIInv ==
  ASSUME IInv, NEW r \in Requests, Join(r)
  PROVE  IInv'
<1>1. CASE WriteExisting(r)
  <2>1. /\ member' \in [Persons -> Membership]
        /\ OwnerStands'
        /\ \A p \in Persons : IsMember(p) => IsMember(p)'
    BY <1>1, WrittenRole DEF WriteExisting, Goto
  <2>2. /\ pc[r] = "writeExisting" /\ pc' = [pc EXCEPT ![r] = "saveInvitation"]
        /\ ForgetCopy(r) /\ UNCHANGED <<account, invitation, actor, target, link>>
    BY <1>1 DEF WriteExisting, Goto
  <2>3. target[r] \in Persons /\ IsMember(target[r])
    BY <2>2 DEF IInv, JoinsInvited, InvitesOthers, Others, Joining, Granting
  <2>4. IsMember(target[r])'
    BY <2>1, <2>2, <2>3 DEF IsMember
  <2>5. pc[r] \in Granting
    BY <2>2 DEF Granting
  <2> QED
    BY <2>1, <2>2, <2>4, <2>5, MemberWritten
<1>2. CASE CreateMembership(r)
  <2>1. /\ pc[r] = "createMembership" /\ pc' = [pc EXCEPT ![r] = "saveInvitation"]
        /\ ~IsMember(target[r])
        /\ member' = [member EXCEPT ![target[r]] = copy[r]]
        /\ ForgetCopy(r) /\ UNCHANGED <<account, invitation, actor, target, link>>
    BY <1>2 DEF CreateMembership, Goto
  <2>2. /\ target[r] \in Others /\ copy[r] \in Membership
        /\ copy[r].role \in ASSIGNABLE_ROLES /\ pc[r] \in Granting
    BY <2>1 DEF IInv, TypeOK, JoinsInvited, InvitesOthers, Joining, Granting
  <2>3. member' \in [Persons -> Membership]
    BY <2>1, <2>2 DEF IInv, TypeOK
  <2>4. copy[r].role \notin {"none", "owner"}
    BY <2>2
  <2>5. OwnerStands'
    BY <2>1, <2>2, <2>4 DEF IInv, TypeOK, OwnerStands, Others
  <2>6. \A p \in Persons : (IsMember(p) \/ p = target[r]) => IsMember(p)'
    BY <2>1, <2>2, <2>4 DEF IInv, TypeOK, IsMember, Others
  <2>7. IsMember(target[r])'
    BY <2>1, <2>2, <2>6 DEF IsMember, Others
  <2> QED
    BY <2>1, <2>2, <2>3, <2>5, <2>6, <2>7, MemberWritten
<1>3. CASE UpdateInvitation(r) \/ InsertAgain(r)
  <2>1. /\ pc[r] \in Marking /\ End(r) /\ UNCHANGED <<account, member>>
        /\ invitation' \in {invitation, [invitation EXCEPT ![link[r]].state = "accepted"]}
    BY <1>3 DEF UpdateInvitation, InsertAgain, Marking
  <2>2. /\ link[r] \in Invitations /\ invitation[link[r]].state # "unused"
        /\ IsMember(invitation[link[r]].email)
    BY <2>1 DEF IInv, JoinsInvited, Joining, IsMember
  <2>3. CASE invitation' = [invitation EXCEPT ![link[r]].state = "accepted"]
    BY <2>1, <2>2, <2>3, InvitationWritten
  <2>4. CASE invitation' = invitation
    <3>1. TypeOK'
      BY <2>1, <2>4 DEF IInv, TypeOK, End, ForgetCopy, Steps, NoMembership, Membership
    <3> QED
      BY <2>1, <2>4, <3>1
      DEF IInv, TypeOK, OwnerStands, EditsOthers, InvitesOthers, JoinsInvited,
          AcceptedHasJoined, Joining, Granting, Marking, IsMember, End, ForgetCopy
  <2> QED
    BY <2>1, <2>3, <2>4
<1> USE DEF IInv, TypeOK, OwnerStands, EditsOthers, InvitesOthers, JoinsInvited,
            AcceptedHasJoined, Steps, Membership, NoMembership, Invitation, Joining,
            Granting, Marking, Others, IsMember, IsPending, Goto, End, ForgetCopy
<1>4. ASSUME NEW i \in Invitations, Accept(r, i) PROVE IInv'
  BY <1>4 DEF Accept
<1>5. CASE FindUser(r)
  BY <1>5 DEF FindUser
<1>6. CASE CreateUser(r)
  BY <1>6 DEF CreateUser
<1>7. CASE FindMembership(r)
  BY <1>7 DEF FindMembership
<1>8. CASE SaveExisting(r)
  BY <1>8 DEF SaveExisting, SaveMembership, Dirty
<1>9. CASE SaveInvitation(r)
  BY <1>9 DEF SaveInvitation
<1> QED
  BY <1>1, <1>2, <1>3, <1>4, <1>5, <1>6, <1>7, <1>8, <1>9 DEF Join

\* Every step keeps the invariant.
LEMMA NextIInv == IInv /\ [Next]_vars => IInv'
<1> SUFFICES ASSUME IInv, [Next]_vars PROVE IInv'
  OBVIOUS
<1>1. ASSUME NEW r \in Requests, Manage(r) PROVE IInv'
  BY <1>1, ManageIInv
<1>2. ASSUME NEW r \in Requests, Join(r) PROVE IInv'
  BY <1>2, JoinIInv
<1>3. ASSUME NEW i \in Invitations, Expire(i) PROVE IInv'
  <2>1. invitation' = [invitation EXCEPT ![i].expired = TRUE]
    BY <1>3 DEF Expire
  <2>2. /\ invitation' \in [Invitations -> Invitation]
        /\ \A j \in Invitations :
             /\ invitation'[j].email = invitation[j].email
             /\ invitation'[j].role = invitation[j].role
             /\ invitation'[j].state = invitation[j].state
    <3>1. invitation \in [Invitations -> Invitation] /\ invitation[i] \in Invitation
      BY DEF IInv, TypeOK
    <3>2. PICK row : row = [invitation[i] EXCEPT !.expired = TRUE]
      OBVIOUS
    <3>3. /\ row \in Invitation
          /\ row.email = invitation[i].email
          /\ row.role = invitation[i].role
          /\ row.state = invitation[i].state
      BY <3>1, <3>2 DEF Invitation
    <3>4. invitation' = [invitation EXCEPT ![i] = row]
      BY <2>1, <3>2
    <3> QED
      BY <3>1, <3>3, <3>4
  <2>3. UNCHANGED <<account, member, pc, actor, target, link, copy, cols>>
    BY <1>3 DEF Expire, requestVars
  <2>4. TypeOK'
    BY <2>2, <2>3 DEF IInv, TypeOK
  <2>5. OwnerStands' /\ EditsOthers' /\ InvitesOthers'
    BY <2>2, <2>3 DEF IInv, OwnerStands, EditsOthers, InvitesOthers
  <2>6. JoinsInvited'
    BY <2>2, <2>3 DEF IInv, JoinsInvited, Joining, Granting, Marking, IsMember
  <2>7. AcceptedHasJoined'
    BY <2>2, <2>3 DEF IInv, AcceptedHasJoined, IsMember
  <2> QED
    BY <2>4, <2>5, <2>6, <2>7 DEF IInv
<1> USE DEF IInv, TypeOK, OwnerStands, EditsOthers, InvitesOthers, JoinsInvited,
            AcceptedHasJoined, Steps, Membership, NoMembership, Joining,
            Granting, Marking, Others, IsMember
<1>4. ASSUME NEW p \in Persons, Register(p) PROVE IInv'
  BY <1>4 DEF Register, requestVars
<1>5. ASSUME NEW r \in Requests, Fail(r) PROVE IInv'
  BY <1>5 DEF Fail, End, ForgetCopy
<1>6. CASE UNCHANGED vars
  BY <1>6 DEF vars, requestVars
<1> QED
  BY <1>1, <1>2, <1>3, <1>4, <1>5, <1>6 DEF Next

LEMMA InvariantHolds == Spec => []IInv
BY InitIInv, NextIInv, PTL DEF Spec

\* DOMAIN.md, invariant 4, however requests overlap: the owner keeps role and
\* access, and nobody else becomes one.
THEOREM OwnerKept == Spec => []OwnerStands
BY InvariantHolds, PTL DEF IInv

\* However acceptances, cancellations and failures overlap, an invitation marked
\* as accepted has brought its person in.
THEOREM AcceptanceJoins == Spec => []AcceptedHasJoined
BY InvariantHolds, PTL DEF IInv

\* Accounts, memberships, invitations and the steps of the requests are of their
\* types, however they interleave.
THEOREM TypeCorrect == Spec => []TypeOK
BY InvariantHolds, PTL DEF IInv
=============================================================================
