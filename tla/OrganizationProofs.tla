------------------------- MODULE OrganizationProofs -------------------------
(***************************************************************************)
(* The review of organizations and the public directory that rests on it,  *)
(* for every number of organizations, owner's edits and platform admins:   *)
(* one decision and one mail for each submission; the code implements the  *)
(* review that DOMAIN.md states, but for edits that write over it because  *)
(* they read the row before; what a visitor has on screen is validated     *)
(* still, but for the same edits.  At the end, the posts and the logo of   *)
(* an organization: their rows and their files.                            *)
(***************************************************************************)
EXTENDS PublicDirectory, Media, FiniteSetTheorems, SequenceTheorems, TLAPS

\* Who has decided an organization is who may still mail its owner.
DecidingHasOrg == \A a \in Admins : apc[a] # "idle" => decided[a] # NoOrg
IdleHasNone == \A a \in Admins : apc[a] = "idle" => decided[a] = NoOrg

\* Where a request has found an organization, it is one.
EditsTarget == \A e \in Edits : epc[e] \in {"load", "save", "write"} => target[e] # NoOrg

\* The mails sent, the mails on their way and the decision still to be taken.
Pending(o) == IF org[o].status = "pending" THEN 1 ELSE 0
Spent(o) == mails[o] + Cardinality(Deciding(o)) + Pending(o)

IInv ==
  /\ TypeOK
  /\ DecidingHasOrg
  /\ IdleHasNone
  /\ EditsTarget
  /\ \A o \in Orgs : Spent(o) <= submissions[o]

USE LifecycleAssumption DEF historyVars

\* The admins that decided an organization are finitely many.
LEMMA DecidingFinite ==
  ASSUME NEW o \in Orgs
  PROVE  IsFiniteSet(Deciding(o)) /\ Cardinality(Deciding(o)) \in Nat
BY FS_Subset, FS_CardinalityType DEF Deciding

\* Nobody has decided anything at the start.
LEMMA InitIInv == Init => IInv
<1> SUFFICES ASSUME Init PROVE IInv
  OBVIOUS
<1> USE DEF Init, NoRow
<1>1. TypeOK
  <2>1. NoRow \in Organization
    BY DEF Organization
  <2> QED
    BY <2>1 DEF TypeOK
<1>2. \A o \in Orgs : Deciding(o) = {}
  BY DEF Deciding
<1>3. ASSUME NEW o \in Orgs PROVE Spent(o) <= submissions[o]
  <2>1. Cardinality(Deciding(o)) = 0
    BY <1>2, FS_EmptySet
  <2>2. Pending(o) = 0
    BY DEF Pending
  <2> QED
    BY <2>1, <2>2 DEF Spent
<1> QED
  BY <1>1, <1>3 DEF IInv, DecidingHasOrg, IdleHasNone, EditsTarget

\* A row that becomes pending is one submission more; any other change of a row
\* spends nothing.
LEMMA SetRowSpends ==
  ASSUME IInv, NEW p \in Orgs, NEW r \in Organization, SetRow(p, r),
         UNCHANGED <<decided, mails>>
  PROVE  /\ org' \in [Orgs -> Organization]
         /\ submissions' \in [Orgs -> Nat]
         /\ \A o \in Orgs : (Spent(o) <= submissions[o])'
<1>1. org' \in [Orgs -> Organization] /\ submissions' \in [Orgs -> Nat]
  BY DEF IInv, TypeOK, SetRow
<1>2. ASSUME NEW o \in Orgs PROVE (Spent(o) <= submissions[o])'
  <2>1. Deciding(o)' = Deciding(o)
    BY DEF Deciding
  <2>2. Spent(o)' = mails[o] + Cardinality(Deciding(o)) + Pending(o)'
    BY <2>1 DEF Spent
  <2>3. /\ Spent(o) <= submissions[o]
        /\ mails[o] \in Nat /\ Cardinality(Deciding(o)) \in Nat
        /\ submissions[o] \in Nat
    BY DecidingFinite DEF IInv, TypeOK
  <2>4. Pending(o)' - Pending(o) <= submissions'[o] - submissions[o]
    BY <2>3 DEF SetRow, Pending, IInv, TypeOK
  <2>5. submissions'[o] \in Nat /\ Pending(o) \in Nat /\ Pending(o)' \in Nat
    BY <1>1 DEF Pending
  <2> QED
    BY <2>2, <2>3, <2>4, <2>5 DEF Spent
<1> QED
  BY <1>1, <1>2

\* The owner's requests keep the invariant.
LEMMA EditIInv ==
  ASSUME IInv, NEW e \in Edits, Edit(e)
  PROVE  IInv'
<1> USE DEF IInv, TypeOK, DecidingHasOrg, IdleHasNone, EditsTarget
<1>1. CASE UNCHANGED <<org, submissions>>
  <2>1. /\ TypeOK'
        /\ EditsTarget'
        /\ UNCHANGED <<apc, decided, mails>>
    <3>1. CASE FindOwned(e) \/ Check(e)
      BY <1>1, <3>1 DEF FindOwned, Check, Owned
    <3>2. CASE Load(e)
      <4>1. target[e] \in Orgs /\ Edited(org[target[e]]) \in Organization
        BY <3>2 DEF Load, Edited, Organization, Statuses
      <4> QED
        BY <1>1, <3>2, <4>1 DEF Load
    <3>3. CASE Save(e)
      <4>1. Dirty(copy[e], org[target[e]]) \subseteq {"status", "rejectReason"}
        BY <3>3 DEF Save, Dirty, Organization
      <4> QED
        BY <1>1, <3>3, <4>1 DEF Save
    <3>4. CASE EndEdit(e) /\ (Write(e) \/ CreateMine(e) \/ FailEdit(e))
      <4>1. stale' \subseteq Edits /\ overwritten' \subseteq Orgs
        BY <1>1, <3>4 DEF Write, CreateMine, FailEdit, Holding
      <4> QED
        BY <1>1, <3>4, <4>1 DEF EndEdit, NoRow, Organization
    <3> QED
      BY <3>1, <3>2, <3>3, <3>4 DEF Edit, Write, CreateMine, FailEdit
  <2> QED
    BY <1>1, <2>1 DEF Spent, Pending, Deciding
<1>2. CASE Write(e)
  <2>1. target[e] \in Orgs /\ Written(org[target[e]], copy[e], cols[e]) \in Organization
    BY <1>2 DEF Write, Written, Organization
  <2>2. /\ SetRow(target[e], Written(org[target[e]], copy[e], cols[e]))
        /\ EndEdit(e)
    BY <1>2 DEF Write
  <2>3. /\ org' \in [Orgs -> Organization]
        /\ submissions' \in [Orgs -> Nat]
        /\ \A o \in Orgs : (Spent(o) <= submissions[o])'
    BY <2>1, <2>2, SetRowSpends DEF EndEdit
  <2>4. stale' \subseteq Edits /\ overwritten' \subseteq Orgs
    BY <1>2, <2>1 DEF Write, Holding
  <2> QED
    BY <2>2, <2>3, <2>4 DEF EndEdit, NoRow, Organization
<1>3. CASE CreateMine(e)
  <2>1. PICK o \in Orgs : SetRow(o, [status |-> "pending", rejectReason |-> FALSE])
    BY <1>3 DEF CreateMine
  <2>2. EndEdit(e)
    BY <1>3 DEF CreateMine
  <2>3. /\ org' \in [Orgs -> Organization]
        /\ submissions' \in [Orgs -> Nat]
        /\ \A q \in Orgs : (Spent(q) <= submissions[q])'
    BY <2>1, <2>2, SetRowSpends DEF EndEdit, Organization, Statuses
  <2>4. UNCHANGED <<stale, overwritten>>
    BY <1>3 DEF CreateMine
  <2> QED
    BY <2>2, <2>3, <2>4 DEF EndEdit, NoRow, Organization
<1> QED
  BY <1>1, <1>2, <1>3 DEF Edit, FindOwned, Load, Save, Check, FailEdit

\* The admin that wins is one more that decided its organization.
LEMMA DecidingOfWinner ==
  ASSUME IInv, NEW a \in Admins, NEW p \in Orgs, NEW s \in {"validated", "rejected"},
         TransitionFromPending(a, p, s), NEW o \in Orgs
  PROVE  Cardinality(Deciding(o)') =
           IF o = p THEN Cardinality(Deciding(o)) + 1 ELSE Cardinality(Deciding(o))
<1>1. decided' = [decided EXCEPT ![a] = p] /\ decided[a] = NoOrg /\ p # NoOrg
  BY DEF TransitionFromPending, IInv, IdleHasNone
<1>2. decided \in [Admins -> Orgs \cup {NoOrg}]
  BY DEF IInv, TypeOK
<1>3. CASE o = p
  <2>1. a \notin Deciding(p)
    BY <1>1 DEF Deciding
  <2>2. ASSUME NEW b PROVE b \in Deciding(p)' <=> b \in Deciding(p) \cup {a}
    BY <1>1, <1>2 DEF Deciding
  <2>3. Deciding(p)' = Deciding(p) \cup {a}
    BY <2>2
  <2>4. IsFiniteSet(Deciding(p)) /\ Cardinality(Deciding(p)) \in Nat
    BY DecidingFinite
  <2>5. Cardinality(Deciding(p) \cup {a}) = Cardinality(Deciding(p)) + 1
    BY <2>1, <2>4, FS_AddElement
  <2> QED
    BY <1>3, <2>3, <2>5
<1>4. CASE o # p
  <2>1. Deciding(o)' = Deciding(o)
    BY <1>1, <1>2, <1>4 DEF Deciding
  <2> QED
    BY <1>4, <2>1
<1> QED
  BY <1>3, <1>4

\* An admin whose decision ends is one less.
LEMMA DecidingOfEnded ==
  ASSUME IInv, NEW a \in Admins, apc[a] # "idle", EndDecision(a), NEW o \in Orgs
  PROVE  Cardinality(Deciding(o)') =
           IF o = decided[a] THEN Cardinality(Deciding(o)) - 1 ELSE Cardinality(Deciding(o))
<1>1. PICK p \in Orgs : p = decided[a]
  BY DEF IInv, TypeOK, DecidingHasOrg
<1>2. CASE o = p
  <2>1. Deciding(p)' = Deciding(p) \ {a} /\ a \in Deciding(p)
    BY <1>1 DEF Deciding, EndDecision, IInv, TypeOK
  <2>2. Cardinality(Deciding(p)') = Cardinality(Deciding(p)) - 1
    BY <2>1, DecidingFinite, FS_RemoveElement
  <2> QED
    BY <1>1, <1>2, <2>2
<1>3. CASE o # p
  <2>1. Deciding(o)' = Deciding(o)
    BY <1>1, <1>3 DEF Deciding, EndDecision, IInv, TypeOK
  <2> QED
    BY <1>1, <1>3, <2>1
<1> QED
  BY <1>2, <1>3

\* An admin whose decision ends gives up its mail, or sends it.
LEMMA EndDecisionSpends ==
  ASSUME IInv, NEW a \in Admins, apc[a] # "idle", EndDecision(a),
         mails' \in {mails, [mails EXCEPT ![decided[a]] = @ + 1]}
  PROVE  IInv'
<1>1. PICK p \in Orgs : p = decided[a]
  BY DEF IInv, TypeOK, DecidingHasOrg
<1>2. /\ TypeOK' /\ DecidingHasOrg' /\ IdleHasNone' /\ EditsTarget'
  <2>1. /\ apc' = [apc EXCEPT ![a] = "idle"]
        /\ decided' = [decided EXCEPT ![a] = NoOrg]
        /\ UNCHANGED <<org, epc, target, copy, cols, submissions, stale, overwritten>>
    BY DEF EndDecision, editVars
  <2>2. mails' \in [Orgs -> Nat]
    BY <1>1 DEF IInv, TypeOK
  <2>3. TypeOK'
    BY <2>1, <2>2 DEF IInv, TypeOK
  <2> QED
    BY <2>1, <2>3 DEF IInv, TypeOK, DecidingHasOrg, IdleHasNone, EditsTarget
<1>5. ASSUME NEW o \in Orgs PROVE (Spent(o) <= submissions[o])'
  <2>1. /\ Spent(o) <= submissions[o]
        /\ mails[o] \in Nat /\ Cardinality(Deciding(o)) \in Nat
        /\ submissions[o] \in Nat
        /\ Pending(o) \in Nat
        /\ Pending(o)' = Pending(o)
        /\ submissions' = submissions
    BY DecidingFinite DEF IInv, TypeOK, Pending, EndDecision, editVars
  <2>2. CASE o = p
    <3>1. mails'[o] <= mails[o] + 1 /\ mails'[o] \in Nat
      BY <1>2, <2>1, <2>2 DEF IInv, TypeOK
    <3>2. Spent(o)' = mails'[o] + (Cardinality(Deciding(o)) - 1) + Pending(o)
      BY <1>1, <2>1, <2>2, DecidingOfEnded DEF Spent
    <3> QED
      BY <2>1, <3>1, <3>2 DEF Spent
  <2>3. CASE o # p
    <3>1. Cardinality(Deciding(o)') = Cardinality(Deciding(o))
      BY <1>1, <2>3, DecidingOfEnded
    <3>2. mails'[o] = mails[o]
      BY <1>1, <2>3 DEF IInv, TypeOK
    <3> QED
      BY <2>1, <3>1, <3>2 DEF Spent
  <2> QED
    BY <2>2, <2>3
<1> QED
  BY <1>2, <1>5 DEF IInv

\* The admin that wins takes the pending organization, and nobody else can.
LEMMA TransitionSpends ==
  ASSUME IInv, NEW a \in Admins, NEW p \in Orgs, NEW s \in {"validated", "rejected"},
         TransitionFromPending(a, p, s)
  PROVE  IInv'
<1>1. /\ TypeOK' /\ DecidingHasOrg' /\ IdleHasNone' /\ EditsTarget'
  <2>1. Decision(s) \in Organization
    BY DEF Decision, Organization, Statuses
  <2>2. /\ org' = [org EXCEPT ![p] = Decision(s)]
        /\ apc' = [apc EXCEPT ![a] = "reload"]
        /\ decided' = [decided EXCEPT ![a] = p]
        /\ stale' = stale \cup Holding(p)
        /\ UNCHANGED <<epc, target, copy, cols, mails, submissions, overwritten>>
    BY DEF TransitionFromPending, editVars
  <2>3. TypeOK'
    BY <2>1, <2>2 DEF IInv, TypeOK, Holding
  <2> QED
    BY <2>2, <2>3 DEF IInv, TypeOK, DecidingHasOrg, IdleHasNone, EditsTarget
<1>2. ASSUME NEW o \in Orgs PROVE (Spent(o) <= submissions[o])'
  <2>1. /\ Spent(o) <= submissions[o]
        /\ mails[o] \in Nat /\ Cardinality(Deciding(o)) \in Nat
        /\ submissions[o] \in Nat
    BY DecidingFinite DEF IInv, TypeOK
  <2>2. mails'[o] = mails[o] /\ submissions'[o] = submissions[o]
    BY DEF TransitionFromPending
  <2>3. CASE o = p
    <3>1. Pending(o) = 1 /\ Pending(o)' = 0
      BY <2>3 DEF TransitionFromPending, Pending, Decision, IInv, TypeOK
    <3>2. Cardinality(Deciding(o)') = Cardinality(Deciding(o)) + 1
      BY <2>3, DecidingOfWinner
    <3> QED
      BY <2>1, <2>2, <3>1, <3>2 DEF Spent
  <2>4. CASE o # p
    <3>1. Pending(o)' = Pending(o)
      BY <2>4 DEF TransitionFromPending, Pending, IInv, TypeOK
    <3>2. Cardinality(Deciding(o)') = Cardinality(Deciding(o))
      BY <2>4, DecidingOfWinner
    <3> QED
      BY <2>1, <2>2, <3>1, <3>2 DEF Spent
  <2> QED
    BY <2>3, <2>4
<1> QED
  BY <1>1, <1>2 DEF IInv

\* Every step keeps the invariant.
LEMMA NextIInv == IInv /\ [Next]_vars => IInv'
<1> SUFFICES ASSUME IInv, [Next]_vars PROVE IInv'
  OBVIOUS
<1>1. ASSUME NEW e \in Edits, Edit(e) PROVE IInv'
  BY <1>1, EditIInv
<1>2. ASSUME NEW a \in Admins, Administer(a) PROVE IInv'
  <2>1. ASSUME NEW o \in Orgs, NEW s \in {"validated", "rejected"},
               TransitionFromPending(a, o, s)
        PROVE  IInv'
    BY <2>1, TransitionSpends
  <2>2. CASE Reload(a)
    BY <2>2 DEF Reload, IInv, TypeOK, DecidingHasOrg, IdleHasNone, EditsTarget,
                Spent, Pending, Deciding, editVars
  <2>3. CASE NotifyOwner(a)
    BY <2>3, EndDecisionSpends DEF NotifyOwner
  <2>4. CASE FailDecision(a)
    BY <2>4, EndDecisionSpends DEF FailDecision
  <2> QED
    BY <1>2, <2>1, <2>2, <2>3, <2>4 DEF Administer
<1>3. CASE UNCHANGED vars
  BY <1>3 DEF vars, editVars, IInv, TypeOK, DecidingHasOrg, IdleHasNone, EditsTarget,
              Spent, Pending, Deciding
<1> QED
  BY <1>1, <1>2, <1>3 DEF Next

\* Hence every reachable state has it.
LEMMA InvariantHolds == Spec => []IInv
BY InitIInv, NextIInv, PTL DEF Spec

\* However many platform admins decide at once, and however the owner's saves
\* overlap with them: an organization is decided, and its owner told, at most
\* once for each time it became pending.
THEOREM OneMail == Spec => []OneMailPerSubmission
<1>1. IInv => OneMailPerSubmission
  BY DEF IInv, OneMailPerSubmission, Spent, Pending
<1> QED
  BY <1>1, InvariantHolds, PTL

\* Rows, mails and the steps of owner and admins are of their types, however
\* their requests interleave.
THEOREM TypeCorrect == Spec => []TypeOK
BY InvariantHolds, PTL DEF IInv

-----------------------------------------------------------------------------
(* The review of DOMAIN.md, but for the edits that write over it.          *)

\* What an edit has read is the row still, unless it is in `stale`; it never holds a
\* rejected row.
EditStands(e) ==
  /\ epc[e] \in {"load", "save", "write"} => org[target[e]].status # "absent"
  /\ epc[e] \in {"save", "write"} => copy[e].status \in {"pending", "validated"}
  /\ epc[e] \in {"save", "write"} /\ e \notin stale => copy[e] = Edited(org[target[e]])
  /\ epc[e] = "write" /\ e \notin stale => cols[e] = Dirty(copy[e], org[target[e]])

RInv == IInv /\ \A e \in Edits : EditStands(e)

\* The strengthened invariant holds at the start.
LEMMA InitRInv == Init => RInv
BY InitIInv DEF RInv, EditStands, Init

\* A save of what differs makes the row the copy.
LEMMA WrittenIsCopy ==
  ASSUME NEW row \in Organization, NEW c \in Organization
  PROVE  Written(row, c, Dirty(c, row)) = c
<1>1. DOMAIN row = {"status", "rejectReason"}
  BY DEF Organization
<1>2. Written(row, c, Dirty(c, row)) = [k \in {"status", "rejectReason"} |-> c[k]]
  BY <1>1 DEF Written, Dirty
<1>3. c = [k \in {"status", "rejectReason"} |-> c[k]]
  BY DEF Organization
<1> QED
  BY <1>2, <1>3

\* A save of any columns makes a row of both.
LEMMA WrittenStatus ==
  ASSUME NEW row \in Organization, NEW c \in Organization, NEW cs
  PROVE  /\ Written(row, c, cs) \in Organization
         /\ Written(row, c, cs).status \in {row.status, c.status}
BY DEF Written, Organization

\* The changes to a row are one: a rejected organization is pending, without reason.
LEMMA EditedChanges ==
  ASSUME NEW row \in Organization
  PROVE  /\ Edited(row) \in Organization
         /\ row.status # "absent" => Edited(row).status \in {"pending", "validated"}
         /\ Edited(row) # row => row.status = "rejected" /\ Edited(row).status = "pending"
         /\ (row.rejectReason <=> row.status = "rejected") =>
              (Edited(row).rejectReason <=> Edited(row).status = "rejected")
BY DEF Edited, Organization, Statuses

\* An edit stands when its row is as it was, or when it becomes stale.
LEMMA StandsStill ==
  ASSUME TypeOK, EditsTarget, NEW f \in Edits, EditStands(f),
         epc'[f] = epc[f], target'[f] = target[f], copy'[f] = copy[f], cols'[f] = cols[f],
         \A o \in Orgs : org[o].status # "absent" => org'[o].status # "absent",
         f \notin stale' /\ epc[f] \in {"save", "write"} =>
           f \notin stale /\ org'[target[f]] = org[target[f]]
  PROVE  EditStands(f)'
<1>1. epc[f] \in {"load", "save", "write"} => target[f] \in Orgs
  BY DEF TypeOK, EditsTarget
<1>2. epc[f] \in {"save", "write"} /\ f \notin stale' =>
        Edited(org[target[f]])' = Edited(org[target[f]])
  BY DEF Edited
<1>3. epc[f] = "write" /\ f \notin stale' =>
        Dirty(copy[f], org[target[f]])' = Dirty(copy[f], org[target[f]])
  BY DEF Dirty
<1> QED
  BY <1>1, <1>2, <1>3 DEF EditStands

\* Every step keeps it.
LEMMA NextRInv == RInv /\ [Next]_vars => RInv'
<1> SUFFICES ASSUME RInv, [Next]_vars PROVE \A f \in Edits : EditStands(f)'
  BY NextIInv DEF RInv
<1>0. TypeOK /\ EditsTarget /\ \A f \in Edits : EditStands(f)
  BY DEF RInv, IInv
<1>1. ASSUME NEW e \in Edits, Edit(e) PROVE \A f \in Edits : EditStands(f)'
  <2>0. \A f \in Edits \ {e} : /\ epc'[f] = epc[f] /\ target'[f] = target[f]
                               /\ copy'[f] = copy[f] /\ cols'[f] = cols[f]
    BY <1>0, <1>1 DEF Edit, FindOwned, Load, Save, Write, Check, CreateMine, FailEdit, EndEdit,
                      TypeOK
  <2>1. CASE Load(e)
    <3>1. /\ epc[e] = "load" /\ target[e] \in Orgs /\ org[target[e]].status # "absent"
          /\ org[target[e]] \in Organization
      BY <1>0, <2>1 DEF Load, TypeOK, EditsTarget, EditStands
    <3>2. /\ org' = org /\ target' = target /\ stale' = stale
          /\ copy'[e] = Edited(org[target[e]]) /\ epc'[e] = "save"
      BY <1>0, <2>1 DEF Load, TypeOK, historyVars
    <3>3. EditStands(e)'
      BY <3>1, <3>2, EditedChanges DEF EditStands, Edited
    <3> QED
      BY <1>0, <2>0, <3>2, <3>3, StandsStill
  <2>2. CASE Save(e)
    <3>1. /\ org' = org /\ target' = target /\ stale' = stale /\ copy' = copy
          /\ epc[e] = "save" /\ epc'[e] = "write"
          /\ cols'[e] = Dirty(copy[e], org[target[e]])
      BY <1>0, <2>2 DEF Save, TypeOK, historyVars
    <3>2. EditStands(e)'
      BY <1>0, <3>1 DEF EditStands, Edited, Dirty
    <3> QED
      BY <1>0, <2>0, <3>1, <3>2, StandsStill
  <2>3. CASE FindOwned(e) \/ Check(e)
    <3>1. /\ org' = org /\ stale' = stale /\ epc'[e] \in {"idle", "load", "check", "create"}
          /\ epc'[e] = "load" => org[target'[e]].status # "absent"
      BY <1>0, <2>3 DEF FindOwned, Check, Owned, TypeOK, historyVars
    <3>2. EditStands(e)'
      BY <3>1 DEF EditStands
    <3> QED
      BY <1>0, <2>0, <3>1, <3>2, StandsStill
  <2>4. CASE Write(e)
    <3>1. /\ epc[e] = "write" /\ target[e] \in Orgs /\ epc'[e] = "idle"
          /\ org[target[e]] \in Organization /\ copy[e] \in Organization
          /\ org[target[e]].status # "absent" /\ copy[e].status # "absent"
      BY <1>0, <2>4 DEF Write, EndEdit, TypeOK, EditsTarget, EditStands
    <3>2. PICK row \in Organization :
            /\ org' = [org EXCEPT ![target[e]] = row] /\ row.status # "absent"
      <4>1. /\ Written(org[target[e]], copy[e], cols[e]) \in Organization
            /\ Written(org[target[e]], copy[e], cols[e]).status # "absent"
        BY <3>1, WrittenStatus
      <4>2. org' = [org EXCEPT ![target[e]] = Written(org[target[e]], copy[e], cols[e])]
        BY <2>4 DEF Write, SetRow
      <4> QED
        BY <4>1, <4>2
    <3>3. stale' = (IF org' = org THEN stale ELSE stale \cup Holding(target[e])) \ {e}
      BY <2>4 DEF Write
    <3>4. EditStands(e)'
      BY <3>1 DEF EditStands
    <3>5. ASSUME NEW f \in Edits \ {e} PROVE EditStands(f)'
      <4>1. \A o \in Orgs : org[o].status # "absent" => org'[o].status # "absent"
        BY <1>0, <3>2 DEF TypeOK
      <4>2. f \notin stale' /\ epc[f] \in {"save", "write"} =>
              f \notin stale /\ org'[target[f]] = org[target[f]]
        <5>1. target[f] # target[e] => org'[target[f]] = org[target[f]]
          BY <1>0, <3>1, <3>2 DEF TypeOK
        <5> QED
          BY <3>3, <5>1 DEF Holding
      <4> QED
        BY <1>0, <2>0, <4>1, <4>2, StandsStill
    <3> QED
      BY <3>4, <3>5
  <2>5. CASE CreateMine(e)
    <3>1. PICK o \in Orgs \ Owned :
            org' = [org EXCEPT ![o] = [status |-> "pending", rejectReason |-> FALSE]]
      BY <2>5 DEF CreateMine, SetRow
    <3>2. epc'[e] = "idle" /\ stale' = stale
      BY <1>0, <2>5 DEF CreateMine, EndEdit, TypeOK
    <3>3. EditStands(e)'
      BY <3>2 DEF EditStands
    <3>4. ASSUME NEW f \in Edits \ {e} PROVE EditStands(f)'
      <4>1. \A q \in Orgs : org[q].status # "absent" => q # o /\ org'[q] = org[q]
        BY <1>0, <3>1 DEF TypeOK, Owned
      <4>2. epc[f] \in {"save", "write"} => org'[target[f]] = org[target[f]]
        BY <1>0, <4>1 DEF TypeOK, EditsTarget, EditStands
      <4> QED
        BY <1>0, <2>0, <3>2, <4>1, <4>2, StandsStill
    <3> QED
      BY <3>3, <3>4
  <2>6. CASE FailEdit(e)
    <3>1. org' = org /\ stale' = stale \ {e} /\ epc'[e] = "idle"
      BY <1>0, <2>6 DEF FailEdit, EndEdit, TypeOK
    <3>2. EditStands(e)'
      BY <3>1 DEF EditStands
    <3> QED
      BY <1>0, <2>0, <3>1, <3>2, StandsStill
  <2> QED
    BY <1>1, <2>1, <2>2, <2>3, <2>4, <2>5, <2>6 DEF Edit
<1>2. ASSUME NEW a \in Admins, NEW o \in Orgs, NEW s \in {"validated", "rejected"},
             TransitionFromPending(a, o, s), NEW f \in Edits
      PROVE  EditStands(f)'
  <2>1. /\ org' = [org EXCEPT ![o] = Decision(s)] /\ stale' = stale \cup Holding(o)
        /\ UNCHANGED <<epc, target, copy, cols>>
    BY <1>2 DEF TransitionFromPending, editVars
  <2>2. Decision(s).status # "absent"
    BY DEF Decision
  <2>3. \A q \in Orgs : org[q].status # "absent" => org'[q].status # "absent"
    BY <1>0, <2>1, <2>2 DEF TypeOK
  <2>4. f \notin stale' /\ epc[f] \in {"save", "write"} =>
          f \notin stale /\ org'[target[f]] = org[target[f]]
    <3>1. target[f] # o => org'[target[f]] = org[target[f]]
      BY <1>0, <2>1 DEF TypeOK
    <3> QED
      BY <2>1, <3>1 DEF Holding
  <2> QED
    BY <1>0, <2>1, <2>3, <2>4, StandsStill
<1>3. ASSUME UNCHANGED <<org, editVars, stale>> PROVE \A f \in Edits : EditStands(f)'
  BY <1>0, <1>3, StandsStill DEF editVars
<1> QED
  BY <1>1, <1>2, <1>3 DEF Next, Administer, Reload, NotifyOwner, FailDecision, EndDecision, vars,
                          historyVars

-----------------------------------------------------------------------------
statusBar == [o \in Orgs |-> org[o].status]
untoldBar == [o \in Orgs |-> Cardinality(Deciding(o))]

\* A save of the owner, or a creation, submits the organization.
LEMMA SetRowSubmits ==
  ASSUME TypeOK, NEW o \in Orgs, NEW r \in Organization, SetRow(o, r),
         org[o].status \in {"absent", "rejected"}, r.status = "pending",
         UNCHANGED <<decided, mails, overwritten>>
  PROVE  Review!Next
<1>1. statusBar' = [statusBar EXCEPT ![o] = "pending"]
  BY DEF statusBar, SetRow, TypeOK
<1>2. untoldBar' = untoldBar
  BY DEF untoldBar, Deciding
<1>3. statusBar[o] \in {"absent", "rejected"}
  BY DEF statusBar
<1>4. Review!Submit(o)
  BY <1>1, <1>2, <1>3 DEF Review!Submit, statusBar, untoldBar
<1> QED
  BY <1>4 DEF Review!Next

\* A save by an edit that was overtaken brings back what it read.
LEMMA SetRowOverwrites ==
  ASSUME TypeOK, NEW o \in Orgs, NEW r \in Organization, SetRow(o, r),
         org[o].status # "absent", r.status \in {"pending", "validated", org[o].status},
         overwritten' = overwritten \cup {o}, UNCHANGED <<decided, mails>>
  PROVE  Review!Next
<1>1. statusBar' = [statusBar EXCEPT ![o] = r.status]
  BY DEF statusBar, SetRow, TypeOK
<1>2. untoldBar' = untoldBar
  BY DEF untoldBar, Deciding
<1>3. statusBar[o] = org[o].status
  BY DEF statusBar
<1>4. Review!Overwrite(o)
  BY <1>1, <1>2, <1>3 DEF Review!Overwrite, statusBar, untoldBar
<1> QED
  BY <1>4 DEF Review!Next

\* The admin that wins decides it.
LEMMA TransitionDecides ==
  ASSUME IInv, NEW a \in Admins, NEW p \in Orgs, NEW s \in {"validated", "rejected"},
         TransitionFromPending(a, p, s)
  PROVE  Review!Next
<1>1. statusBar' = [statusBar EXCEPT ![p] = s]
  BY DEF statusBar, TransitionFromPending, Decision, IInv, TypeOK
<1>2. untoldBar' = [untoldBar EXCEPT ![p] = @ + 1]
  <2>1. ASSUME NEW o \in Orgs
        PROVE  Cardinality(Deciding(o)') =
                 IF o = p THEN Cardinality(Deciding(o)) + 1 ELSE Cardinality(Deciding(o))
    BY DecidingOfWinner
  <2>2. \A o \in Orgs : untoldBar'[o] = [untoldBar EXCEPT ![p] = @ + 1][o]
    BY <2>1 DEF untoldBar
  <2> QED
    BY <2>2 DEF untoldBar
<1>3. statusBar[p] = "pending"
  BY DEF statusBar, TransitionFromPending
<1>4. Review!Decide(p)
  BY <1>1, <1>2, <1>3 DEF Review!Decide, statusBar, untoldBar, TransitionFromPending
<1> QED
  BY <1>4 DEF Review!Next

\* An admin whose decision ends tells the owner, or nobody.
LEMMA EndDecisionTells ==
  ASSUME IInv, NEW a \in Admins, apc[a] # "idle", EndDecision(a),
         mails' \in {mails, [mails EXCEPT ![decided[a]] = @ + 1]}
  PROVE  Review!Next
<1>1. PICK p \in Orgs : p = decided[a]
  BY DEF IInv, TypeOK, DecidingHasOrg
<1>2. statusBar' = statusBar
  BY DEF statusBar, EndDecision
<1>3. untoldBar' = [untoldBar EXCEPT ![p] = @ - 1]
  <2>1. ASSUME NEW o \in Orgs
        PROVE  Cardinality(Deciding(o)') =
                 IF o = p THEN Cardinality(Deciding(o)) - 1 ELSE Cardinality(Deciding(o))
    BY <1>1, DecidingOfEnded
  <2>2. \A o \in Orgs : untoldBar'[o] = [untoldBar EXCEPT ![p] = @ - 1][o]
    BY <2>1 DEF untoldBar
  <2> QED
    BY <2>2 DEF untoldBar
<1>4. untoldBar[p] > 0
  <2>1. a \in Deciding(p)
    BY <1>1 DEF Deciding
  <2>2. IsFiniteSet(Deciding(p)) /\ Cardinality(Deciding(p)) \in Nat
    BY DecidingFinite
  <2>3. Cardinality(Deciding(p)) # 0
    BY <2>1, <2>2, FS_EmptySet
  <2> QED
    BY <2>2, <2>3 DEF untoldBar
<1>5. mails' \in {mails, [mails EXCEPT ![p] = @ + 1]}
  BY <1>1
<1>6. Review!Tell(p)
  BY <1>2, <1>3, <1>4, <1>5 DEF Review!Tell, statusBar, untoldBar, EndDecision
<1> QED
  BY <1>6 DEF Review!Next

\* What the write of an edit makes of its row.
LEMMA WriteRow ==
  ASSUME RInv, NEW e \in Edits, Write(e)
  PROVE  /\ target[e] \in Orgs /\ org[target[e]] \in Organization
         /\ org[target[e]].status # "absent"
         /\ Written(org[target[e]], copy[e], cols[e]) \in Organization
         /\ Written(org[target[e]], copy[e], cols[e]).status
              \in {"pending", "validated", org[target[e]].status}
         /\ e \notin stale =>
              Written(org[target[e]], copy[e], cols[e]) = Edited(org[target[e]])
<1>1. /\ epc[e] = "write" /\ target[e] \in Orgs
      /\ org[target[e]] \in Organization /\ copy[e] \in Organization
  BY DEF Write, RInv, IInv, TypeOK, EditsTarget
<1>2. /\ org[target[e]].status # "absent" /\ copy[e].status \in {"pending", "validated"}
      /\ e \notin stale => /\ copy[e] = Edited(org[target[e]])
                          /\ cols[e] = Dirty(copy[e], org[target[e]])
  BY <1>1 DEF RInv, EditStands
<1>3. /\ Written(org[target[e]], copy[e], cols[e]) \in Organization
      /\ Written(org[target[e]], copy[e], cols[e]).status
           \in {org[target[e]].status, copy[e].status}
  BY <1>1, WrittenStatus
<1>4. e \notin stale => Written(org[target[e]], copy[e], cols[e]) = copy[e]
  BY <1>1, <1>2, WrittenIsCopy
<1> QED
  BY <1>1, <1>2, <1>3, <1>4

\* Every step of the code is a step of the review, or none.
LEMMA NextRefines ==
  ASSUME RInv, [Next]_vars
  PROVE  [Review!Next]_(Review!vars)
<1> SUFFICES ASSUME ~UNCHANGED <<statusBar, untoldBar, mails, overwritten>> PROVE Review!Next
  BY DEF Review!vars, statusBar, untoldBar
<1> USE DEF RInv, IInv
<1>1. ASSUME NEW e \in Edits, Edit(e) PROVE Review!Next
  <2>1. CASE Write(e)
    <3>1. PICK o \in Orgs : o = target[e]
      BY <2>1, WriteRow
    <3>2. PICK r \in Organization : r = Written(org[o], copy[e], cols[e])
      BY <2>1, <3>1, WriteRow
    <3>3. /\ SetRow(o, r) /\ UNCHANGED <<decided, mails>>
          /\ overwritten' = IF org' # org /\ e \in stale THEN overwritten \cup {o} ELSE overwritten
      BY <2>1, <3>1, <3>2 DEF Write, EndEdit
    <3>4. org' # org
      BY <3>3 DEF statusBar, untoldBar, Deciding
    <3>5. CASE e \in stale
      BY <2>1, <3>1, <3>2, <3>3, <3>4, <3>5, WriteRow, SetRowOverwrites
    <3>6. CASE e \notin stale
      <4>1. r = Edited(org[o]) /\ org[o] \in Organization /\ r # org[o]
        BY <2>1, <3>1, <3>2, <3>3, <3>4, <3>6, WriteRow DEF SetRow, TypeOK
      <4>2. org[o].status = "rejected" /\ r.status = "pending"
        BY <4>1, EditedChanges
      <4> QED
        BY <3>3, <3>6, <4>2, SetRowSubmits
    <3> QED
      BY <3>5, <3>6
  <2>2. CASE CreateMine(e)
    <3>1. PICK o \in Orgs \ Owned : SetRow(o, [status |-> "pending", rejectReason |-> FALSE])
      BY <2>2 DEF CreateMine
    <3>2. org[o].status = "absent"
      BY <3>1 DEF Owned
    <3> QED
      BY <2>2, <3>1, <3>2, SetRowSubmits DEF CreateMine, EndEdit, Organization, Statuses
  <2>3. CASE UNCHANGED <<org, decided, mails, overwritten>>
    BY <2>3 DEF statusBar, untoldBar, Deciding
  <2> QED
    BY <1>1, <2>1, <2>2, <2>3
       DEF Edit, FindOwned, Load, Save, Check, FailEdit, EndEdit, historyVars
<1>2. ASSUME NEW a \in Admins, Administer(a) PROVE Review!Next
  <2>1. ASSUME NEW o \in Orgs, NEW s \in {"validated", "rejected"},
               TransitionFromPending(a, o, s)
        PROVE  Review!Next
    BY <2>1, TransitionDecides
  <2>2. CASE Reload(a)
    BY <2>2 DEF Reload, statusBar, untoldBar, Deciding, historyVars
  <2>3. CASE NotifyOwner(a)
    BY <2>3, EndDecisionTells DEF NotifyOwner
  <2>4. CASE FailDecision(a)
    BY <2>4, EndDecisionTells DEF FailDecision
  <2> QED
    BY <1>2, <2>1, <2>2, <2>3, <2>4 DEF Administer
<1>3. CASE UNCHANGED vars
  BY <1>3 DEF vars, historyVars, statusBar, untoldBar, Deciding
<1> QED
  BY <1>1, <1>2, <1>3 DEF Next

\* Whatever the platform admins do at once, and however the owner's edits overlap
\* with them, organizations go through the review that DOMAIN.md states: nothing
\* leaves `validated`, only the rejected ones return to `pending`, and each decision
\* is told once at most; but for the writes of edits that read the row before it
\* changed, which are counted in `overwritten`.
THEOREM ReviewImplemented == Spec => ReviewSpec
<1>1. Init => Review!Init
  <2> SUFFICES ASSUME Init PROVE Review!Init
    OBVIOUS
  <2>1. \A o \in Orgs : Cardinality(Deciding(o)) = 0
    <3> SUFFICES ASSUME NEW o \in Orgs PROVE Cardinality(Deciding(o)) = 0
      OBVIOUS
    <3>1. Deciding(o) = {}
      BY LifecycleAssumption DEF Init, Deciding
    <3> QED
      BY <3>1, FS_EmptySet
  <2> QED
    BY <2>1 DEF Review!Init, Init, NoRow
<1>2. RInv /\ [Next]_vars => [Review!Next]_(Review!vars)
  BY NextRefines
<1> QED
  BY InitRInv, NextRInv, <1>1, <1>2, PTL DEF Spec, ReviewSpec, Review!Spec

-----------------------------------------------------------------------------
\* A write leaves the reason with the status, unless the edit is stale; a decision
\* sets both.
LEMMA NextReason == RInv /\ ReasonIffRejected /\ [Next]_vars => ReasonIffRejected'
<1> SUFFICES ASSUME RInv, ReasonIffRejected, [Next]_vars, NEW p \in Orgs, p \notin overwritten'
             PROVE  org'[p].rejectReason <=> org'[p].status = "rejected"
  BY DEF ReasonIffRejected
<1>0. org \in [Orgs -> Organization]
  BY DEF RInv, IInv, TypeOK
<1>1. p \notin overwritten
  BY DEF Next, Edit, FindOwned, Load, Save, Write, Check, CreateMine, FailEdit, Administer,
         TransitionFromPending, Reload, NotifyOwner, FailDecision, EndDecision, vars, historyVars
<1>2. org[p].rejectReason <=> org[p].status = "rejected"
  BY <1>1 DEF ReasonIffRejected
<1>3. ASSUME NEW e \in Edits, Write(e)
      PROVE  org'[p].rejectReason <=> org'[p].status = "rejected"
  <2>1. PICK o \in Orgs : o = target[e]
    BY <1>3, WriteRow
  <2>2. PICK r \in Organization : r = Written(org[o], copy[e], cols[e])
    BY <1>3, <2>1, WriteRow
  <2>3. org' = [org EXCEPT ![o] = r]
    BY <1>3, <2>1, <2>2 DEF Write, SetRow
  <2>4. CASE org' = org
    BY <1>2, <2>4
  <2>5. CASE o # p
    BY <1>0, <1>2, <2>3, <2>5
  <2>6. CASE org' # org /\ o = p
    <3>1. e \notin stale
      BY <1>3, <2>1, <2>6 DEF Write
    <3>2. r = Edited(org[p]) /\ org'[p] = r
      BY <1>0, <1>3, <2>1, <2>2, <2>3, <2>6, <3>1, WriteRow
    <3> QED
      BY <1>0, <1>2, <3>2, EditedChanges
  <2> QED
    BY <2>4, <2>5, <2>6
<1>4. ASSUME NEW o \in Orgs, NEW r,
             org' = [org EXCEPT ![o] = r], r.rejectReason <=> r.status = "rejected"
      PROVE  org'[p].rejectReason <=> org'[p].status = "rejected"
  <2>1. CASE o = p
    BY <1>0, <1>4, <2>1
  <2>2. CASE o # p
    BY <1>0, <1>2, <1>4, <2>2
  <2> QED
    BY <2>1, <2>2
<1>5. ASSUME NEW e \in Edits, CreateMine(e)
      PROVE  org'[p].rejectReason <=> org'[p].status = "rejected"
  BY <1>4, <1>5 DEF CreateMine, SetRow
<1>6. ASSUME NEW a \in Admins, NEW o \in Orgs, NEW s \in {"validated", "rejected"},
             TransitionFromPending(a, o, s)
      PROVE  org'[p].rejectReason <=> org'[p].status = "rejected"
  <2>1. Decision(s).rejectReason <=> Decision(s).status = "rejected"
    BY DEF Decision
  <2>2. org' = [org EXCEPT ![o] = Decision(s)]
    BY <1>6 DEF TransitionFromPending
  <2> QED
    BY <1>4, <2>1, <2>2
<1>7. CASE org' = org
  BY <1>2, <1>7
<1> QED
  BY <1>3, <1>5, <1>6, <1>7
  DEF Next, Edit, FindOwned, Load, Save, Check, FailEdit, Administer, Reload, NotifyOwner,
      FailDecision, EndDecision, vars

\* A rejected organization, and no other, has the reason of its rejection, whatever
\* admins and owner do at once, until an edit writes over it that read it before.
THEOREM ReasonKept == Spec => []ReasonIffRejected
<1>1. Init => RInv /\ ReasonIffRejected
  BY InitRInv DEF ReasonIffRejected, Init, NoRow
<1> QED
  BY <1>1, NextRInv, NextReason, PTL DEF Spec


-----------------------------------------------------------------------------
(* The public directory.                                                   *)

FeedSteps == {"count", "rows", "listed"}

\* Where a visit is and what it has seen so far.
VisitOK ==
  /\ vpc \in {"organizations"} \cup FeedSteps => topic = "needs"
  /\ vpc \notin FeedSteps => feed = <<>> /\ page = 0
  /\ vpc \in FeedSteps => page >= 1
  /\ vpc \in {"rows", "listed"} => total <= Cardinality(Rows)

DInv == PublicTypeOK /\ VisitOK

\* The steps that are not of the directory leave it alone.
LEMMA DirectoryIdle ==
  ASSUME DInv, UNCHANGED <<offerVars, visitVars>>, quiet' \in BOOLEAN
  PROVE  DInv'
BY DEF DInv, PublicTypeOK, VisitOK, offerVars, visitVars

\* What is listed is finitely many rows.
LEMMA ListedFinite ==
  /\ Listed \in SUBSET Rows /\ IsFiniteSet(Listed)
  /\ Cardinality(Listed) \in Nat /\ Cardinality(Listed) <= Cardinality(Rows)
<1>1. Listed \in SUBSET Rows
  BY DEF Listed
<1>2. IsFiniteSet(Rows)
  BY DirectoryAssumption
<1> QED
  BY <1>1, <1>2, FS_Subset, FS_CardinalityType

LEMMA TotalBound ==
  LET most == Cardinality(Rows \cup Orgs) IN
    /\ most \in Nat /\ Cardinality(Rows) \in Nat /\ Cardinality(Rows) <= most
    /\ Cardinality({o \in Orgs : IsPublic(o)}) \in 0 .. most
<1>1. IsFiniteSet(Rows) /\ IsFiniteSet(Orgs)
  BY DirectoryAssumption
<1>2. IsFiniteSet(Rows \cup Orgs) /\ Cardinality(Rows \cup Orgs) \in Nat
  BY <1>1, FS_Union, FS_CardinalityType
<1>3. Rows \in SUBSET (Rows \cup Orgs) /\ {o \in Orgs : IsPublic(o)} \in SUBSET (Rows \cup Orgs)
  OBVIOUS
<1>4. /\ IsFiniteSet({o \in Orgs : IsPublic(o)})
      /\ Cardinality({o \in Orgs : IsPublic(o)}) <= Cardinality(Rows \cup Orgs)
      /\ Cardinality(Rows) <= Cardinality(Rows \cup Orgs)
  BY <1>2, <1>3, FS_Subset
<1>5. Cardinality(Rows) \in Nat /\ Cardinality({o \in Orgs : IsPublic(o)}) \in Nat
  BY <1>1, <1>4, FS_CardinalityType
<1> QED
  BY <1>2, <1>4, <1>5

\* What a page of the feed is: a slice of the rows in some order.
LEMMA PageIsSlice ==
  ASSUME NEW L \in SUBSET Rows, IsFiniteSet(L), NEW s \in SetToSeqs(L), NEW p \in Nat, p >= 1
  PROVE  /\ s \in Seq(Rows) /\ Len(s) = Cardinality(L) /\ Len(s) \in Nat
         /\ s \in [1 .. Len(s) -> L]
         /\ (p - 1) * PageSize \in Nat
         /\ Slice(s, (p - 1) * PageSize) \in Seq(Rows)
<1>1. Cardinality(L) \in Nat
  BY FS_CardinalityType
<1>2. s \in [1 .. Cardinality(L) -> L]
  BY DEF SetToSeqs
<1>3. s \in Seq(L) /\ Len(s) = Cardinality(L)
  BY <1>1, <1>2
<1>4. s \in Seq(Rows)
  BY <1>3
<1>5. (p - 1) * PageSize \in Nat
  BY DirectoryAssumption
<1>6. Slice(s, (p - 1) * PageSize) \in Seq(Rows)
  <2> DEFINE m == (p - 1) * PageSize
             n == IF m + PageSize < Len(s) THEN m + PageSize ELSE Len(s)
  <2>1. m \in Nat /\ n \in Nat /\ n <= Len(s)
    BY <1>1, <1>3, <1>5, DirectoryAssumption
  <2>2. Slice(s, m) = SubSeq(s, m + 1, n)
    BY DEF Slice
  <2> HIDE DEF m, n
  <2>3. SubSeq(s, m + 1, n) \in Seq(Rows)
    BY <1>4, <2>1
  <2> QED
    BY <2>2, <2>3 DEF m
<1> QED
  BY <1>1, <1>2, <1>3, <1>4, <1>5, <1>6

LEMMA InitDInv == PublicInit => DInv
<1> SUFFICES ASSUME PublicInit
             PROVE  DInv
  OBVIOUS
<1>1. 0 \in 0 .. Cardinality(Rows \cup Orgs)
  BY TotalBound
<1>2. 1 \in 1 .. LastDay /\ <<>> \in Seq(Rows)
  BY DirectoryAssumption
<1>3. PublicTypeOK
  BY <1>1, <1>2 DEF PublicInit, PublicTypeOK
<1>4. VisitOK
  BY DEF PublicInit, VisitOK, FeedSteps
<1> QED
  BY <1>3, <1>4 DEF DInv

\* The visitor asks for the first page, or for one more while there is one.
LEMMA AskFeedKeeps == DInv /\ AskFeed => DInv'
<1> SUFFICES ASSUME DInv, AskFeed
             PROVE  DInv'
  OBVIOUS
<1>1. /\ topic = "needs" /\ vpc' = "count" /\ page' = page + 1
      /\ UNCHANGED <<topic, offer, seeks, today, seeing, shown, total, feed>>
      /\ quiet' \in BOOLEAN
      /\ vpc = "away" \/ (vpc = "listed" /\ page * PageSize < total)
  BY DEF AskFeed, DInv, PublicTypeOK, offerVars
<1>2. Cardinality(Rows) \in Nat
  BY TotalBound
<1>3. page' \in {0, 1} \cup 1 .. Cardinality(Rows) /\ page' >= 1
  <2>1. CASE vpc = "away"
    BY <1>1, <2>1 DEF DInv, VisitOK, FeedSteps
  <2>2. CASE vpc = "listed" /\ page * PageSize < total
    <3>1. page \in Nat /\ page >= 1 /\ total \in Nat /\ total <= Cardinality(Rows)
      BY <1>2, <2>2, TotalBound DEF DInv, VisitOK, FeedSteps, PublicTypeOK
    <3>2. \A p, q \in Nat : q >= 1 => p <= p * q
      OBVIOUS
    <3>3. page <= page * PageSize /\ page * PageSize \in Nat
      BY <3>1, <3>2, DirectoryAssumption
    <3>4. page + 1 <= Cardinality(Rows)
      BY <1>2, <2>2, <3>1, <3>3
    <3> QED
      BY <1>1, <1>2, <3>1, <3>4
  <2> QED
    BY <1>1, <2>1, <2>2
<1>4. PublicTypeOK'
  BY <1>1, <1>3 DEF DInv, PublicTypeOK
<1>5. VisitOK'
  BY <1>1, <1>3 DEF VisitOK, FeedSteps
<1> QED
  BY <1>4, <1>5 DEF DInv

LEMMA VisitKeeps == DInv /\ Visit => DInv'
<1> SUFFICES ASSUME DInv, Visit
             PROVE  DInv'
  OBVIOUS
<1>0. PublicTypeOK /\ VisitOK
  BY DEF DInv
<1>1. CASE GetOrganization
  <2>1. PublicTypeOK'
    BY <1>0, <1>1 DEF GetOrganization, PublicTypeOK, offerVars
  <2>2. VisitOK'
    BY <1>0, <1>1 DEF GetOrganization, VisitOK, offerVars, FeedSteps
  <2> QED
    BY <2>1, <2>2 DEF DInv
<1>2. CASE QueryOffers
  <2>1. PublicTypeOK'
    BY <1>0, <1>2 DEF QueryOffers, PublicTypeOK, offerVars
  <2>2. VisitOK'
    BY <1>0, <1>2 DEF QueryOffers, VisitOK, offerVars, FeedSteps
  <2> QED
    BY <2>1, <2>2 DEF DInv
<1>3. CASE CountOrganizations
  <2>1. PublicTypeOK'
    BY <1>0, <1>3, TotalBound DEF CountOrganizations, PublicTypeOK, offerVars
  <2>2. VisitOK'
    BY <1>0, <1>3 DEF CountOrganizations, VisitOK, offerVars, FeedSteps
  <2> QED
    BY <2>1, <2>2 DEF DInv
<1>4. CASE ReadOrganizations
  <2>1. PublicTypeOK'
    BY <1>0, <1>4, ListedFinite DEF ReadOrganizations, PublicTypeOK, offerVars
  <2>2. VisitOK'
    BY <1>0, <1>4 DEF ReadOrganizations, VisitOK, offerVars, FeedSteps
  <2> QED
    BY <2>1, <2>2 DEF DInv
<1>5. CASE AskFeed
  BY <1>5, AskFeedKeeps
<1>6. CASE CountFeed
  <2>1. total' \in 0 .. Cardinality(Rows \cup Orgs) /\ total' <= Cardinality(Rows)
    BY <1>6, ListedFinite, TotalBound DEF CountFeed
  <2>2. PublicTypeOK'
    BY <1>0, <1>6, <2>1 DEF CountFeed, PublicTypeOK, offerVars
  <2>3. VisitOK'
    BY <1>0, <1>6, <2>1 DEF CountFeed, VisitOK, offerVars, FeedSteps
  <2> QED
    BY <2>2, <2>3 DEF DInv
<1>7. CASE ReadFeed
  <2>1. PICK s \in SetToSeqs(Listed) : feed' = feed \o Page(s)
    BY <1>7 DEF ReadFeed
  <2>2. page \in Nat /\ page >= 1
    BY <1>0, <1>7, TotalBound DEF ReadFeed, PublicTypeOK, VisitOK, FeedSteps
  <2>3. Page(s) \in Seq(Rows)
    BY <2>2, ListedFinite, PageIsSlice DEF Page
  <2>4. feed' \in Seq(Rows)
    BY <1>0, <2>1, <2>3 DEF PublicTypeOK
  <2>5. PublicTypeOK'
    BY <1>0, <1>7, <2>4 DEF ReadFeed, PublicTypeOK, offerVars
  <2>6. VisitOK'
    BY <1>0, <1>7 DEF ReadFeed, VisitOK, offerVars, FeedSteps
  <2> QED
    BY <2>5, <2>6 DEF DInv
<1>8. CASE Leave
  <2>1. 0 \in 0 .. Cardinality(Rows \cup Orgs) /\ <<>> \in Seq(Rows)
    BY TotalBound
  <2>2. PublicTypeOK'
    BY <1>0, <1>8, <2>1 DEF Leave, PublicTypeOK, offerVars
  <2>3. VisitOK'
    BY <1>0, <1>8 DEF Leave, VisitOK, offerVars, FeedSteps
  <2> QED
    BY <2>2, <2>3 DEF DInv
<1> QED
  BY <1>1, <1>2, <1>3, <1>4, <1>5, <1>6, <1>7, <1>8 DEF Visit

LEMMA NextDInv == DInv /\ [PublicNext]_directoryVars => DInv'
<1> SUFFICES ASSUME DInv, [PublicNext]_directoryVars
             PROVE  DInv'
  OBVIOUS
<1>0. PublicTypeOK /\ VisitOK
  BY DEF DInv
<1>1. CASE Next /\ quiet' = (quiet /\ org' = org) /\ UNCHANGED <<offerVars, visitVars>>
  BY <1>1, DirectoryIdle
<1>2. ASSUME NEW r \in Rows, ChangeRow(r)
      PROVE  DInv'
  <2>1. PICK c \in Columns[topic] : offer' = [offer EXCEPT ![r] = c]
    BY <1>2 DEF ChangeRow
  <2>2. /\ UNCHANGED <<topic, seeks, today, vpc, seeing, shown, total, page, feed>>
        /\ quiet' \in BOOLEAN
    BY <1>2 DEF ChangeRow, visitVars
  <2>3. offer' \in [Rows -> Columns[topic]]
    BY <1>0, <2>1 DEF PublicTypeOK
  <2>4. PublicTypeOK'
    BY <1>0, <2>2, <2>3 DEF PublicTypeOK
  <2>5. VisitOK'
    BY <1>0, <2>2 DEF VisitOK
  <2> QED
    BY <2>4, <2>5 DEF DInv
<1>3. CASE ChangeProfile
  <2>1. PublicTypeOK'
    BY <1>0, <1>3 DEF ChangeProfile, PublicTypeOK, visitVars
  <2>2. VisitOK'
    BY <1>0, <1>3 DEF ChangeProfile, VisitOK, visitVars
  <2> QED
    BY <2>1, <2>2 DEF DInv
<1>4. CASE NextDay
  <2>1. today' \in 1 .. LastDay
    BY <1>0, <1>4, DirectoryAssumption DEF NextDay, PublicTypeOK
  <2>2. PublicTypeOK'
    BY <1>0, <1>4, <2>1 DEF NextDay, PublicTypeOK, visitVars
  <2>3. VisitOK'
    BY <1>0, <1>4 DEF NextDay, VisitOK, visitVars
  <2> QED
    BY <2>2, <2>3 DEF DInv
<1>5. CASE Visit
  BY <1>5, VisitKeeps
<1>6. CASE UNCHANGED directoryVars
  <2>1. UNCHANGED <<offerVars, visitVars>> /\ quiet' \in BOOLEAN
    BY <1>0, <1>6 DEF directoryVars, PublicTypeOK
  <2> QED
    BY <2>1, DirectoryIdle
<1> QED
  BY <1>1, <1>2, <1>3, <1>4, <1>5, <1>6 DEF PublicNext

\* Under the directory, the organizations go on by themselves.
LEMMA DirectoryOverReview == [PublicNext]_directoryVars => [Next]_vars
BY DEF PublicNext, Visit, ChangeRow, ChangeProfile, NextDay, GetOrganization, QueryOffers,
       CountOrganizations, ReadOrganizations, AskFeed, CountFeed, ReadFeed, Leave,
       directoryVars

\* What a visitor may go on looking at.
StillPublic == IsPublic(Ours) \/ Ours \in overwritten

\* What nothing undoes: in the review, no step leaves `validated` but an overwriting.
LEMMA ValidatedStays ==
  ASSUME RInv, [Next]_vars, StillPublic
  PROVE  StillPublic'
<1>1. Ours \in Orgs /\ (IsPublic(Ours) <=> statusBar[Ours] = "validated")
  BY DirectoryAssumption DEF statusBar, IsPublic
<1>2. IsPublic(Ours)' <=> statusBar'[Ours] = "validated"
  BY <1>1 DEF statusBar, IsPublic
<1>3. [Review!Next]_(Review!vars)
  BY NextRefines
<1>4. ASSUME NEW o \in Orgs, Review!Submit(o) PROVE StillPublic'
  <2>1. /\ statusBar[o] \in {"absent", "rejected"} /\ overwritten' = overwritten
        /\ statusBar' = [statusBar EXCEPT ![o] = "pending"]
    BY <1>4 DEF Review!Submit, statusBar
  <2>2. statusBar[Ours] = "validated" => statusBar'[Ours] = "validated"
    BY <1>1, <2>1 DEF statusBar
  <2> QED
    BY <1>1, <1>2, <2>1, <2>2 DEF StillPublic
<1>5. ASSUME NEW o \in Orgs, Review!Decide(o) PROVE StillPublic'
  <2>1. statusBar[o] = "pending" /\ overwritten' = overwritten
    BY <1>5 DEF Review!Decide, statusBar
  <2>2. PICK s \in {"validated", "rejected"} : statusBar' = [statusBar EXCEPT ![o] = s]
    BY <1>5 DEF Review!Decide, statusBar
  <2>3. statusBar[Ours] = "validated" => statusBar'[Ours] = "validated"
    BY <1>1, <2>1, <2>2 DEF statusBar
  <2> QED
    BY <1>1, <1>2, <2>1, <2>3 DEF StillPublic
<1>6. ASSUME NEW o \in Orgs, Review!Tell(o) PROVE StillPublic'
  <2>1. statusBar' = statusBar /\ overwritten' = overwritten
    BY <1>6 DEF Review!Tell, statusBar
  <2> QED
    BY <1>1, <1>2, <2>1 DEF StillPublic
<1>7. ASSUME NEW o \in Orgs, Review!Overwrite(o) PROVE StillPublic'
  <2>1. PICK s : /\ statusBar' = [statusBar EXCEPT ![o] = s]
                 /\ overwritten' = overwritten \cup {o}
    BY <1>7 DEF Review!Overwrite, statusBar
  <2>2. o # Ours => statusBar'[Ours] = statusBar[Ours]
    BY <1>1, <2>1 DEF statusBar
  <2> QED
    BY <1>1, <1>2, <2>1, <2>2 DEF StillPublic
<1>8. CASE UNCHANGED Review!vars
  <2>1. statusBar' = statusBar /\ overwritten' = overwritten
    BY <1>8 DEF Review!vars, statusBar
  <2> QED
    BY <1>1, <1>2, <2>1 DEF StillPublic
<1> QED
  BY <1>3, <1>4, <1>5, <1>6, <1>7, <1>8 DEF Review!Next

LEMMA AlwaysDInv == PublicSpec => []DInv
BY InitDInv, NextDInv, PTL DEF PublicSpec

\* What the visitor has is of an organization that is validated.
SeenIsPublic == vpc = "guarded" \/ shown # {} \/ feed # <<>> => StillPublic

LEMMA NextSeen ==
  RInv /\ DInv /\ SeenIsPublic /\ [PublicNext]_directoryVars
    => SeenIsPublic'
<1> SUFFICES ASSUME RInv, DInv, SeenIsPublic, [PublicNext]_directoryVars
             PROVE  SeenIsPublic'
  OBVIOUS
<1>1. StillPublic => StillPublic'
  BY ValidatedStays, DirectoryOverReview
<1>2. CASE UNCHANGED <<vpc, shown, feed>>
  BY <1>1, <1>2 DEF SeenIsPublic
<1>3. CASE GetOrganization
  <2>1. StillPublic
    BY <1>3 DEF GetOrganization, StillPublic
  <2> QED
    BY <1>1, <2>1 DEF SeenIsPublic
<1>4. CASE QueryOffers
  <2>1. StillPublic
    BY <1>4 DEF QueryOffers, SeenIsPublic
  <2> QED
    BY <1>1, <2>1 DEF SeenIsPublic
<1>5. CASE ReadOrganizations
  <2>1. shown' # {} => StillPublic
    BY <1>5 DEF ReadOrganizations, Listed, StillPublic
  <2>2. feed' = feed /\ vpc' # "guarded"
    BY <1>5 DEF ReadOrganizations
  <2> QED
    BY <1>1, <2>1, <2>2 DEF SeenIsPublic
<1>6. CASE ReadFeed
  <2>1. PICK s \in SetToSeqs(Listed) : feed' = feed \o Page(s)
    BY <1>6 DEF ReadFeed
  <2>2. CASE Listed = {}
    <3>1. page \in Nat /\ page >= 1 /\ feed \in Seq(Rows)
      BY <1>6, TotalBound DEF ReadFeed, DInv, PublicTypeOK, VisitOK, FeedSteps
    <3>2. Len(s) = 0 /\ (page - 1) * PageSize \in Nat
      BY <2>2, <3>1, ListedFinite, FS_EmptySet, PageIsSlice
    <3>3. Page(s) = <<>>
      <4>1. PICK m \in Nat : m = (page - 1) * PageSize
        BY <3>2
      <4>2. Page(s) = SubSeq(s, m + 1, 0)
        BY <3>2, <4>1, DirectoryAssumption DEF Page, Slice
      <4> QED
        BY <4>1, <4>2
    <3>4. feed' = feed
      BY <2>1, <3>1, <3>3
    <3>5. shown' = shown /\ vpc' # "guarded"
      BY <1>6 DEF ReadFeed
    <3> QED
      BY <1>1, <3>4, <3>5 DEF SeenIsPublic
  <2>3. CASE Listed # {}
    <3>1. StillPublic
      BY <2>3 DEF Listed, StillPublic
    <3> QED
      BY <1>1, <3>1 DEF SeenIsPublic
  <2> QED
    BY <2>2, <2>3
<1>7. CASE Leave
  BY <1>7 DEF Leave, SeenIsPublic
<1>8. CASE CountOrganizations \/ AskFeed \/ CountFeed
  <2>1. shown' = shown /\ feed' = feed /\ vpc' # "guarded"
    BY <1>8 DEF CountOrganizations, AskFeed, CountFeed
  <2> QED
    BY <1>1, <2>1 DEF SeenIsPublic
<1> QED
  BY <1>2, <1>3, <1>4, <1>5, <1>6, <1>7, <1>8
     DEF PublicNext, Visit, ChangeRow, ChangeProfile, NextDay, visitVars, directoryVars

\* What a visitor has on screen is of an organization that is validated still,
\* although nobody looks again after the guard, unless an edit of the owner that read
\* it before has written over the review.
THEOREM OnlyValidated == PublicSpec => []PublishedIsValidated
<1>1. PublicInit => RInv /\ SeenIsPublic
  BY InitRInv DEF PublicInit, SeenIsPublic
<1>2. RInv /\ [PublicNext]_directoryVars => RInv'
  BY NextRInv, DirectoryOverReview
<1>3. RInv /\ DInv /\ SeenIsPublic /\ [PublicNext]_directoryVars => SeenIsPublic'
  BY NextSeen
<1>4. DInv /\ SeenIsPublic => PublishedIsValidated
  BY DEF DInv, SeenIsPublic, StillPublic, PublishedIsValidated
<1> QED
  BY AlwaysDInv, <1>1, <1>2, <1>3, <1>4, PTL DEF PublicSpec

\* The SQL of the directory and the TypeScript of the services ask the same of a
\* need.
LEMMA SameCriterion ==
  ASSUME DInv, topic = "needs", NEW r \in Rows
  PROVE  OPEN_NEED(offer[r]) <=> ~IsNeedClosed(offer[r])
<1>1. offer[r] \in NeedRow /\ today \in Nat
  BY DEF DInv, PublicTypeOK, Columns
<1>2. /\ offer[r].coveredQuantity \in Nat /\ offer[r].requiredQuantity \in Nat
      /\ offer[r].deadline \in Nat
  BY <1>1, DirectoryAssumption DEF NeedRow
<1> QED
  BY <1>1, <1>2 DEF OPEN_NEED, IsNeedClosed

LEMMA NextAgrees ==
  DInv /\ [PublicNext]_directoryVars =>
    [vpc # "reading" /\ vpc' = "reading" =>
       /\ \A r \in shown' : TakenByTheService(r)
       /\ topic = "needs" /\ IsPublic(Ours) =>
            {r \in Rows : TakenByTheService(r)} \subseteq shown']_directoryVars
<1> SUFFICES ASSUME DInv, [PublicNext]_directoryVars, vpc # "reading", vpc' = "reading"
             PROVE  /\ \A r \in shown' : TakenByTheService(r)
                    /\ topic = "needs" /\ IsPublic(Ours) =>
                         {r \in Rows : TakenByTheService(r)} \subseteq shown'
  OBVIOUS
<1>1. QueryOffers \/ ReadOrganizations
  BY DEF PublicNext, Visit, ChangeRow, ChangeProfile, NextDay, GetOrganization, QueryOffers,
         CountOrganizations, ReadOrganizations, AskFeed, CountFeed, ReadFeed, Leave,
         visitVars, directoryVars
<1>2. topic \in {"needs", "activities", "events", "points", "types"}
  BY DEF DInv, PublicTypeOK, Columns
<1>3. topic = "needs" => \A r \in Rows : TakenByTheService(r) <=> OPEN_NEED(offer[r])
  BY SameCriterion DEF TakenByTheService
<1>4. CASE QueryOffers
  <2>1. shown' = {r \in Rows : Offered(r)}
    BY <1>4 DEF QueryOffers
  <2>2. CASE topic = "needs"
    BY <1>3, <2>1, <2>2 DEF Offered
  <2>3. CASE topic = "activities"
    <3>1. \A r \in Rows : OPEN_OPPORTUNITY(offer[r]) => IsOpportunityOpen(offer[r])
      <4> SUFFICES ASSUME NEW r \in Rows, OPEN_OPPORTUNITY(offer[r])
                   PROVE  IsOpportunityOpen(offer[r])
        OBVIOUS
      <4>1. offer[r] \in ActivityRow
        BY <2>3 DEF DInv, PublicTypeOK, Columns
      <4>2. offer[r].acceptedCount \in Nat /\ offer[r].capacity \in Nat
        BY <4>1 DEF ActivityRow
      <4> QED
        BY <4>2 DEF OPEN_OPPORTUNITY, IsOpportunityOpen
    <3>2. \A r \in shown' : TakenByTheService(r)
      BY <2>1, <2>3, <3>1 DEF Offered, TakenByTheService
    <3> QED
      BY <2>3, <3>2
  <2>4. CASE topic \in {"events", "points", "types"}
    BY <2>1, <2>4 DEF Offered, TakenByTheService
  <2> QED
    BY <1>2, <2>2, <2>3, <2>4
<1>5. CASE ReadOrganizations
  <2>1. topic = "needs" /\ shown' = Listed
    BY <1>5 DEF ReadOrganizations, DInv, VisitOK, FeedSteps
  <2> QED
    BY <1>3, <2>1 DEF Listed
<1> QED
  BY <1>1, <1>4, <1>5

\* The page of an organization offers what the services would take at that
\* moment, and no open need is missing from it or from the list.
THEOREM PagesAgree == PublicSpec => PageAgrees
BY AlwaysDInv, NextAgrees, PTL DEF PublicSpec, PageAgrees

-----------------------------------------------------------------------------
(* The feed.                                                               *)

\* A set of natural numbers that is not empty has a least one.
LEMMA LeastNatural ==
  ASSUME NEW T \in SUBSET Nat, T # {}
  PROVE  \E n \in T : \A m \in T : n <= m
<1>1. PICK n \in T : \A m \in T : <<m, n>> \notin OpToRel(<, Nat)
  BY NatLessThanWellFounded, WFMin
<1>2. \A m \in T : ~(m < n)
  BY <1>1 DEF OpToRel
<1> QED
  BY <1>2

\* An order of the rows of the list in which no row comes twice has them all.
LEMMA OrderHasAll ==
  ASSUME NEW L \in SUBSET Rows, IsFiniteSet(L), NEW s \in SetToSeqs(L)
  PROVE  /\ s \in [1 .. Cardinality(L) -> L] /\ Cardinality(L) \in Nat
         /\ \A i, j \in 1 .. Cardinality(L) : s[i] = s[j] => i = j
         /\ \A r \in L : \E i \in 1 .. Cardinality(L) : s[i] = r
<1>1. Cardinality(L) \in Nat
  BY FS_CardinalityType
<1>2. /\ s \in [1 .. Cardinality(L) -> L]
      /\ \A i, j \in 1 .. Cardinality(L) : s[i] = s[j] => i = j
  BY DEF SetToSeqs
<1>3. s \in Injection(1 .. Cardinality(L), L)
  BY <1>2 DEF Injection, IsInjective
<1>4. Cardinality(1 .. Cardinality(L)) = Cardinality(L)
  BY <1>1, FS_Interval
<1>5. s \in Surjection(1 .. Cardinality(L), L)
  BY <1>3, <1>4, FS_Injection
<1> QED
  BY <1>1, <1>2, <1>5 DEF Surjection

\* Without two rows of the same day there is one order by deadline at most.
LEMMA OneOrder ==
  ASSUME NEW L \in SUBSET Rows, IsFiniteSet(L),
         NEW s \in SetToSeqs(L), NEW t \in SetToSeqs(L), InOrder(s), InOrder(t),
         \A r \in L : offer[r].deadline \in Nat,
         \A r, q \in L : r # q => offer[r].deadline # offer[q].deadline
  PROVE  s = t
<1> DEFINE c == Cardinality(L)
<1>1. /\ c \in Nat
      /\ s \in [1 .. c -> L] /\ t \in [1 .. c -> L]
      /\ \A i, j \in 1 .. c : (s[i] = s[j] => i = j) /\ (t[i] = t[j] => i = j)
      /\ \A r \in L : (\E i \in 1 .. c : s[i] = r) /\ (\E i \in 1 .. c : t[i] = r)
  BY OrderHasAll
<1> HIDE DEF c
<1>2. SUFFICES ASSUME NEW i \in 1 .. c, s[i] # t[i],
                      \A j \in 1 .. c : s[j] # t[j] => i <= j
               PROVE  FALSE
  <2> SUFFICES ASSUME s # t
               PROVE  \E i \in 1 .. c : s[i] # t[i] /\ \A j \in 1 .. c : s[j] # t[j] => i <= j
    OBVIOUS
  <2> DEFINE T == {i \in 1 .. c : s[i] # t[i]}
  <2>1. T # {} /\ T \in SUBSET Nat
    <3>1. s = [i \in 1 .. c |-> s[i]] /\ t = [i \in 1 .. c |-> t[i]]
      BY <1>1
    <3>2. (\A i \in 1 .. c : s[i] = t[i]) => [i \in 1 .. c |-> s[i]] = [i \in 1 .. c |-> t[i]]
      OBVIOUS
    <3>3. \E i \in 1 .. c : s[i] # t[i]
      BY <3>1, <3>2, Zenon
    <3>4. 1 .. c \in SUBSET Nat
      BY <1>1
    <3> QED
      BY <3>3, <3>4, Zenon
  <2>2. PICK i \in T : \A j \in T : i <= j
    BY <2>1, LeastNatural
  <2> QED
    BY <2>2
<1>3. PICK j \in 1 .. c : t[j] = s[i]
  BY <1>1
<1>4. PICK k \in 1 .. c : s[k] = t[i]
  BY <1>1
<1>5. i < j /\ i < k
  <2>1. i # j /\ i # k
    BY <1>2, <1>3, <1>4
  <2>2. ~(j < i)
    BY <1>1, <1>2, <1>3
  <2>3. ~(k < i)
    BY <1>1, <1>2, <1>4
  <2> QED
    BY <1>1, <2>1, <2>2, <2>3
<1>6. /\ offer[t[i]].deadline <= offer[t[j]].deadline
      /\ offer[s[i]].deadline <= offer[s[k]].deadline
  <2>1. DOMAIN s = 1 .. c /\ DOMAIN t = 1 .. c
    BY <1>1
  <2> QED
    BY <1>5, <2>1 DEF InOrder
<1>7. offer[s[i]].deadline = offer[t[i]].deadline
  <2>1. offer[s[i]].deadline \in Nat /\ offer[t[i]].deadline \in Nat
    BY <1>1
  <2> QED
    BY <1>3, <1>4, <1>6, <2>1
<1> QED
  BY <1>1, <1>2, <1>7

\* The pages that were read already.
PagesRead == IF vpc = "listed" THEN page ELSE page - 1

UpTo(s, n) == SubSeq(s, 1, IF n < Len(s) THEN n ELSE Len(s))

\* One page more.
LEMMA OnePageMore ==
  ASSUME NEW s \in Seq(Rows), NEW p \in Nat, p >= 1
  PROVE  UpTo(s, (p - 1) * PageSize) \o Slice(s, (p - 1) * PageSize) = UpTo(s, p * PageSize)
<1>1. PICK m \in Nat : m = (p - 1) * PageSize /\ p * PageSize = m + PageSize
  <2>1. PageSize \in Nat /\ p - 1 \in Nat
    BY DirectoryAssumption
  <2>2. \A a, b \in Nat : a * b \in Nat /\ (a + 1) * b = a * b + b
    OBVIOUS
  <2>3. ((p - 1) + 1) * PageSize = (p - 1) * PageSize + PageSize
    BY <2>1, <2>2
  <2>4. (p - 1) + 1 = p
    OBVIOUS
  <2> QED
    BY <2>1, <2>2, <2>3, <2>4
<1>2. Len(s) \in Nat /\ PageSize \in Nat /\ PageSize >= 1
  BY DirectoryAssumption
<1>3. PICK n \in Nat : n = IF m + PageSize < Len(s) THEN m + PageSize ELSE Len(s)
  BY <1>2
<1>4. Slice(s, m) = SubSeq(s, m + 1, n) /\ UpTo(s, m + PageSize) = SubSeq(s, 1, n)
  BY <1>3 DEF Slice, UpTo
<1>5. CASE m < Len(s)
  <2>1. UpTo(s, m) = SubSeq(s, 1, m)
    BY <1>5 DEF UpTo
  <2>2. m <= n /\ n <= Len(s)
    BY <1>2, <1>3, <1>5
  <2>3. SubSeq(s, 1, m) \o SubSeq(s, m + 1, n) = SubSeq(s, 1, n)
    <3>1. 1 \in 1 .. Len(s) + 1 /\ m \in 0 .. Len(s) /\ n \in m .. Len(s)
      BY <1>2, <2>2
    <3> QED
      BY <3>1, ConcatAdjacentSubSeq
  <2> QED
    BY <1>1, <1>4, <2>1, <2>3
<1>6. CASE ~(m < Len(s))
  <2>1. n = Len(s)
    BY <1>2, <1>3, <1>6
  <2>2. UpTo(s, m) = s /\ UpTo(s, m + PageSize) = s
    BY <1>4, <1>6, <2>1, SubSeqFull DEF UpTo
  <2>3. Slice(s, m) = <<>>
    BY <1>2, <1>4, <1>6, <2>1, SubSeqEmpty
  <2>4. s \o <<>> = s
    BY ConcatEmptySeq
  <2> QED
    BY <1>1, <2>2, <2>3, <2>4
<1> QED
  BY <1>5, <1>6

\* While nothing changes and no two needs end the same day, what has come by is
\* the beginning of the only order of the list.
FeedInv ==
  quiet /\ NoTies /\ vpc \in FeedSteps =>
    /\ vpc = "listed" => \E s \in SetToSeqs(Listed) : InOrder(s)
    /\ \A s \in SetToSeqs(Listed) : InOrder(s) => feed = UpTo(s, PagesRead * PageSize)
    /\ vpc \in {"rows", "listed"} => total = Cardinality(Listed)

\* What is listed depends on three things.
LEMMA SameList ==
  ASSUME UNCHANGED <<org, offer, today>>
  PROVE  /\ Listed' = Listed /\ NoTies' = NoTies
         /\ \A s : InOrder(s)' = InOrder(s)
<1>1. Listed' = Listed
  BY DEF Listed, IsPublic, OPEN_NEED
<1> QED
  BY <1>1 DEF NoTies, InOrder

LEMMA FeedIdle ==
  ASSUME FeedInv, UNCHANGED <<vpc, total, page, feed>>,
         quiet' => quiet /\ UNCHANGED <<org, offer, today>>
  PROVE  FeedInv'
<1> SUFFICES ASSUME quiet'
             PROVE  FeedInv'
  BY DEF FeedInv
<1>1. quiet /\ UNCHANGED <<org, offer, today>>
  OBVIOUS
<1>2. /\ Listed' = Listed /\ NoTies' = NoTies
      /\ \A s : InOrder(s)' = InOrder(s)
  BY <1>1, SameList
<1>3. PagesRead' = PagesRead
  BY DEF PagesRead
<1> QED
  BY <1>1, <1>2, <1>3 DEF FeedInv

LEMMA AskFeedBegins == DInv /\ FeedInv /\ AskFeed => FeedInv'
<1> SUFFICES ASSUME DInv, FeedInv, AskFeed, NoTies', quiet',
                    NEW s \in SetToSeqs(Listed)', InOrder(s)'
             PROVE  feed' = UpTo(s, PagesRead' * PageSize)
  BY DEF FeedInv, AskFeed
<1>1. /\ UNCHANGED <<org, offer, today, feed>>
      /\ vpc' = "count" /\ page' = page + 1
  BY DEF AskFeed, vars, offerVars
<1>2. NoTies /\ s \in SetToSeqs(Listed) /\ InOrder(s)
  BY <1>1, SameList
<1>3. page \in Nat
  BY TotalBound DEF DInv, PublicTypeOK
<1>4. PagesRead' = page
  BY <1>1, <1>3 DEF PagesRead
<1>5. CASE vpc = "away"
  <2>1. feed = <<>> /\ page = 0
    BY <1>5 DEF DInv, VisitOK, FeedSteps
  <2>2. Len(s) \in Nat /\ s \in Seq(Rows)
    <3>1. Listed \in SUBSET Rows /\ IsFiniteSet(Listed) /\ 1 \in Nat
      BY ListedFinite
    <3> QED
      BY <1>2, <3>1, PageIsSlice
  <2>3. PagesRead' * PageSize = 0
    BY <1>4, <2>1, DirectoryAssumption
  <2>4. UpTo(s, 0) = SubSeq(s, 1, 0)
    BY <2>2 DEF UpTo
  <2>5. SubSeq(s, 1, 0) = <<>>
    BY SubSeqEmpty
  <2> QED
    BY <1>1, <2>1, <2>3, <2>4, <2>5
<1>6. CASE vpc = "listed"
  <2>1. quiet /\ PagesRead = page
    BY <1>6 DEF AskFeed, PagesRead
  <2> QED
    BY <1>1, <1>2, <1>4, <1>6, <2>1 DEF FeedInv, FeedSteps
<1> QED
  BY <1>5, <1>6 DEF AskFeed

LEMMA CountFeedKeeps == DInv /\ FeedInv /\ CountFeed => FeedInv'
<1> SUFFICES ASSUME DInv, FeedInv, CountFeed, NoTies', quiet'
             PROVE  FeedInv'
  BY DEF FeedInv
<1>1. /\ UNCHANGED <<org, offer, today, feed, page, quiet>>
      /\ vpc = "count" /\ vpc' = "rows" /\ total' = Cardinality(Listed)
  BY DEF CountFeed, vars, offerVars
<1>2. /\ Listed' = Listed /\ NoTies /\ \A s : InOrder(s)' = InOrder(s)
  BY <1>1, SameList
<1>3. PagesRead' = PagesRead
  BY <1>1 DEF PagesRead
<1> QED
  BY <1>1, <1>2, <1>3 DEF FeedInv, FeedSteps

LEMMA ReadFeedKeeps == DInv /\ FeedInv /\ ReadFeed => FeedInv'
<1> SUFFICES ASSUME DInv, FeedInv, ReadFeed, NoTies', quiet'
             PROVE  FeedInv'
  BY DEF FeedInv
<1>1. /\ UNCHANGED <<org, offer, today, total, page, quiet>>
      /\ vpc = "rows" /\ vpc' = "listed"
  BY DEF ReadFeed, vars, offerVars
<1>2. /\ Listed' = Listed /\ NoTies /\ \A s : InOrder(s)' = InOrder(s)
  BY <1>1, SameList
<1>3. PICK s \in SetToSeqs(Listed) : InOrder(s) /\ feed' = feed \o Page(s)
  BY DEF ReadFeed
<1>4. page \in Nat /\ page >= 1
  BY <1>1, TotalBound DEF DInv, PublicTypeOK, VisitOK, FeedSteps
<1>5. /\ total = Cardinality(Listed)
      /\ feed = UpTo(s, (page - 1) * PageSize)
  BY <1>1, <1>2, <1>3 DEF FeedInv, FeedSteps, PagesRead
<1>6. Listed \in SUBSET Rows /\ IsFiniteSet(Listed)
  BY ListedFinite
<1>7. feed' = UpTo(s, page * PageSize)
  <2>1. s \in Seq(Rows)
    BY <1>4, <1>6, PageIsSlice
  <2> QED
    BY <1>3, <1>4, <1>5, <2>1, OnePageMore DEF Page
<1>8. \A t \in SetToSeqs(Listed) : InOrder(t) => t = s
  <2>1. \A r \in Listed : offer[r].deadline \in Nat
    <3>1. offer \in [Rows -> NeedRow]
      BY <1>1 DEF DInv, PublicTypeOK, VisitOK, FeedSteps, Columns
    <3>2. \A r \in Rows : offer[r].deadline \in 1 .. LastDay
      BY <3>1 DEF NeedRow
    <3>3. 1 .. LastDay \in SUBSET Nat
      BY DirectoryAssumption
    <3> QED
      BY <1>6, <3>2, <3>3
  <2>2. \A r, q \in Listed : r # q => offer[r].deadline # offer[q].deadline
    BY <1>2 DEF NoTies
  <2> QED
    BY <1>3, <1>6, <2>1, <2>2, OneOrder
<1>9. PagesRead' = page
  BY <1>1 DEF PagesRead
<1> QED
  BY <1>1, <1>2, <1>3, <1>5, <1>7, <1>8, <1>9 DEF FeedInv

LEMMA NextFeedInv == DInv /\ FeedInv /\ [PublicNext]_directoryVars => FeedInv'
<1> SUFFICES ASSUME DInv, FeedInv, [PublicNext]_directoryVars
             PROVE  FeedInv'
  OBVIOUS
<1>1. CASE Next /\ quiet' = (quiet /\ org' = org) /\ UNCHANGED <<offerVars, visitVars>>
  BY <1>1, FeedIdle DEF offerVars, visitVars
<1>2. CASE \E r \in Rows : ChangeRow(r)
  BY <1>2, FeedIdle DEF ChangeRow, vars, visitVars
<1>3. CASE ChangeProfile
  BY <1>3, FeedIdle DEF ChangeProfile, vars, visitVars
<1>4. CASE NextDay
  BY <1>4, FeedIdle DEF NextDay, visitVars
<1>5. CASE GetOrganization \/ QueryOffers \/ CountOrganizations \/ ReadOrganizations \/ Leave
  <2>1. vpc' \notin FeedSteps
    BY <1>5 DEF GetOrganization, QueryOffers, CountOrganizations, ReadOrganizations, Leave,
                FeedSteps
  <2> QED
    BY <2>1 DEF FeedInv
<1>6. CASE AskFeed
  BY <1>6, AskFeedBegins
<1>7. CASE CountFeed
  BY <1>7, CountFeedKeeps
<1>8. CASE ReadFeed
  BY <1>8, ReadFeedKeeps
<1>9. CASE UNCHANGED directoryVars
  BY <1>9, FeedIdle DEF directoryVars, vars, offerVars, visitVars
<1> QED
  BY <1>1, <1>2, <1>3, <1>4, <1>5, <1>6, <1>7, <1>8, <1>9 DEF PublicNext, Visit

\* Who goes through the feed, while nothing changes and no two needs end the
\* same day, sees every open need once, although each page is an order and a
\* slice of its own.
THEOREM WholeFeed == PublicSpec => []FeedIsWhole
<1>1. PublicInit => FeedInv
  BY DEF PublicInit, FeedInv, FeedSteps
<1>2. DInv /\ FeedInv => FeedIsWhole
  <2> SUFFICES ASSUME DInv, FeedInv, FeedRead, quiet, NoTies
               PROVE  /\ total = Cardinality(Listed)
                      /\ ToSet(feed) = Listed /\ IsInjective(feed)
    BY DEF FeedIsWhole
  <2>1. vpc = "listed" /\ page * PageSize >= total
    BY DEF FeedRead
  <2>2. PICK s \in SetToSeqs(Listed) :
          total = Cardinality(Listed) /\ feed = UpTo(s, page * PageSize)
    BY <2>1 DEF FeedInv, FeedSteps, PagesRead
  <2>3. /\ Listed \in SUBSET Rows /\ IsFiniteSet(Listed)
        /\ page \in Nat /\ page >= 1
    BY <2>1, ListedFinite, TotalBound DEF DInv, PublicTypeOK, VisitOK, FeedSteps
  <2>4. s \in Seq(Rows) /\ Len(s) = total /\ total \in Nat
    BY <2>2, <2>3, PageIsSlice
  <2>5. page * PageSize \in Nat
    BY <2>3, DirectoryAssumption
  <2>6. feed = SubSeq(s, 1, Len(s))
    BY <2>1, <2>2, <2>4, <2>5 DEF UpTo
  <2>7. feed = s
    BY <2>4, <2>6, SubSeqFull
  <2>8. /\ s \in [1 .. Cardinality(Listed) -> Listed]
        /\ \A i, j \in 1 .. Cardinality(Listed) : s[i] = s[j] => i = j
        /\ \A r \in Listed : \E i \in 1 .. Cardinality(Listed) : s[i] = r
    BY <2>3, OrderHasAll
  <2>9. ToSet(s) = Listed /\ IsInjective(s)
    BY <2>8 DEF ToSet, IsInjective
  <2> QED
    BY <2>2, <2>7, <2>9
<1> QED
  BY AlwaysDInv, NextFeedInv, <1>1, <1>2, PTL DEF PublicSpec

-----------------------------------------------------------------------------
(* Posts and the logo: the rows of `media` and their files, for every       *)
(* number of files and of requests.                                         *)

Confirming == {"resource", "otherKind", "count", "insert"}
Replacing == {"findLogo", "saveLogo", "writeLogo", "insertLogo"}
Removing == {"deleteRows", "destroyAll", "deletePost"}

Inserting == {r \in Requests : pc[r] = "insert"}

\* A row of the table, or one that a request remembers.
Known(row) == row \in media \/ \E r \in Requests : row \in found[r]

\* Attachments are uploaded by browsers, logos by the server.
OfItsKind(row) ==
  IF row.purpose = "attachment"
    THEN row.id = row.publicId /\ issued[row.id] = "signed"
    ELSE issued[row.id] = "uploaded" /\ issued[row.publicId] = "uploaded"

\* Only files that were uploaded by the server or sent to be confirmed go round.
InUse(f) ==
  \/ \E row \in Row : Known(row) /\ row.publicId = f
  \/ \E r \in Requests : file[r] = f \/ f \in doomed[r]

\* The file of this request is nobody else's.
OwnFile(r) ==
  /\ \A row \in Row : Known(row) => row.publicId # file[r]
  /\ \A q \in Requests : file[r] \notin doomed[q] /\ (q # r => file[q] # file[r])

\* What a request has in memory goes with where it is.
InPlace(r) ==
  /\ pc[r] = "out" => file[r] = NoFile /\ found[r] = {} /\ doomed[r] = {}
  /\ pc[r] \in Confirming => file[r] \in sent
  /\ pc[r] \in {"count", "insert"} /\ file[r] \notin repeated => stored[file[r]] = "accepted"
  /\ pc[r] \in Replacing =>
       /\ file[r] \in Files /\ issued[file[r]] = "uploaded" /\ stored[file[r]] = "accepted"
       /\ \A x, y \in found[r] : x.purpose = "logo" /\ x = y
  /\ pc[r] \in Removing => \A row \in found[r] : row.purpose = "attachment"
  /\ pc[r] \in {"destroyAll", "deletePost"} =>
       \A row \in found[r] \cap media : row.publicId \in repeated
  /\ pc[r] \in Confirming \cup Replacing /\ file[r] \notin repeated => OwnFile(r)

\* Requests at the insert have passed the count, each by itself.
RoomLeft ==
  /\ IsFiniteSet(Attachments)
  /\ Cardinality(Attachments) + Cardinality(Inserting) < MaxItems + Cardinality(Requests)

FilesInv ==
  /\ \A f \in sent : issued[f] = "signed"
  /\ \A f \in Files : InUse(f) => f \in sent \/ issued[f] = "uploaded"
  /\ \A r \in Requests : \A f \in doomed[r] : f \in PublicIds(media) => f \in repeated
  /\ RowsHaveFiles

RowsInv ==
  /\ \A row \in Row : Known(row) => OfItsKind(row)
  /\ \A x, y \in Row : Known(x) /\ Known(y) /\ x.publicId = y.publicId => x = y
  /\ \A x, y \in Logos : x = y

MediaIInv == MediaTypeOK /\ RowsInv /\ FilesInv /\ RoomLeft /\ \A r \in Requests : InPlace(r)

-----------------------------------------------------------------------------
(* Steps that only forget, delete or go on.                                *)

\* What all but six actions have in common: nothing is sent, no file becomes
\* worse or changes its kind, the other requests stay as they are, and this one
\* remembers and destroys only what it knew.
Recedes(r) ==
  /\ media' \subseteq media
  /\ UNCHANGED <<sent, repeated>>
  /\ \A f \in Files : /\ issued[f] # "no" => issued'[f] = issued[f]
                      /\ stored[f] = "accepted" => stored'[f] = "accepted"
  /\ \A q \in Requests \ {r} :
       pc'[q] = pc[q] /\ file'[q] = file[q] /\ found'[q] = found[q] /\ doomed'[q] = doomed[q]
  /\ file'[r] \in {file[r], NoFile}
  /\ found'[r] \subseteq found[r] \cup media
  /\ doomed'[r] \subseteq doomed[r] \cup {file[r]} \cup PublicIds(found[r])
  /\ \A f \in doomed'[r] : f \in PublicIds(media)' => f \in repeated

\* After such a step no row is known, and no file in use, that was not before.
LEMMA RecedeKnowsNoMore ==
  ASSUME NEW r \in Requests, MediaTypeOK, Recedes(r)
  PROVE  /\ \A row \in Row : Known(row)' => Known(row)
         /\ \A f \in Files : InUse(f)' => InUse(f)
<1>1. \A row \in Row : Known(row)' => Known(row)
  BY DEF Recedes, Known
<1>2. ASSUME NEW f \in Files, InUse(f)' PROVE InUse(f)
  <2>1. CASE \E row \in Row : Known(row)' /\ row.publicId = f
    BY <1>1, <2>1 DEF InUse
  <2>2. ASSUME NEW q \in Requests, file'[q] = f \/ f \in doomed'[q] PROVE InUse(f)
    <3>1. f # NoFile
      BY MediaAssumption
    <3>2. CASE f \in PublicIds(found[r])
      BY <3>2 DEF PublicIds, InUse, Known, MediaTypeOK
    <3> QED
      BY <2>2, <3>1, <3>2 DEF Recedes, InUse
  <2> QED
    BY <1>2, <2>1, <2>2 DEF InUse
<1> QED
  BY <1>1, <1>2

\* The rows and files are as they should be after such a step,
LEMMA RecedeKeepsRows ==
  ASSUME NEW r \in Requests, MediaTypeOK, RowsInv, Recedes(r)
  PROVE  RowsInv'
<1>1. \A row \in Row : Known(row)' => Known(row)
  BY RecedeKnowsNoMore
<1>2. \A row \in Row : Known(row)' => OfItsKind(row)'
  BY <1>1 DEF RowsInv, OfItsKind, Recedes, Row
<1>3. \A x, y \in Logos' : x = y
  BY DEF RowsInv, Logos, Recedes
<1> QED
  BY <1>1, <1>2, <1>3 DEF RowsInv

LEMMA RecedeKeepsFiles ==
  ASSUME NEW r \in Requests, MediaTypeOK, FilesInv, Recedes(r)
  PROVE  FilesInv'
<1>1. \A f \in sent' : issued'[f] = "signed"
  BY DEF FilesInv, Recedes, MediaTypeOK
<1>2. \A f \in Files : InUse(f)' => f \in sent' \/ issued'[f] = "uploaded"
  BY RecedeKnowsNoMore DEF FilesInv, Recedes
<1>3. \A q \in Requests : \A f \in doomed'[q] : f \in PublicIds(media)' => f \in repeated'
  BY DEF FilesInv, Recedes, PublicIds
<1>4. RowsHaveFiles'
  BY DEF FilesInv, RowsHaveFiles, Recedes, MediaTypeOK, Row
<1> QED
  BY <1>1, <1>2, <1>3, <1>4 DEF FilesInv

\* and the other requests still have their files for themselves.
LEMMA RecedeKeepsOthers ==
  ASSUME NEW r \in Requests, NEW q \in Requests \ {r}, MediaTypeOK, InPlace(q), Recedes(r)
  PROVE  InPlace(q)'
<1>1. OwnFile(q) /\ file[q] \in Files => OwnFile(q)'
  <2> SUFFICES ASSUME OwnFile(q), file[q] \in Files PROVE OwnFile(q)'
    OBVIOUS
  <2>1. file'[q] = file[q] /\ file[q] # NoFile
    BY MediaAssumption DEF Recedes
  <2>2. \A row \in Row : Known(row)' => row.publicId # file'[q]
    BY <2>1, RecedeKnowsNoMore DEF OwnFile
  <2>3. file'[q] \notin doomed'[r]
    <3>1. file[q] \notin PublicIds(found[r])
      BY DEF OwnFile, PublicIds, Known, MediaTypeOK
    <3> QED
      BY <2>1, <3>1 DEF OwnFile, Recedes
  <2>4. \A p \in Requests : file'[q] \notin doomed'[p] /\ (p # q => file'[p] # file'[q])
    BY <2>1, <2>3 DEF OwnFile, Recedes
  <2> QED
    BY <2>2, <2>4 DEF OwnFile
<1>2. /\ pc'[q] = pc[q] /\ file'[q] = file[q] /\ found'[q] = found[q] /\ doomed'[q] = doomed[q]
      /\ repeated' = repeated /\ sent' = sent /\ media' \subseteq media
      /\ \A f \in Files : /\ issued[f] = "uploaded" => issued'[f] = "uploaded"
                          /\ stored[f] = "accepted" => stored'[f] = "accepted"
  BY DEF Recedes
<1>3. pc[q] \in Confirming => file[q] \in Files
  BY DEF InPlace, MediaTypeOK
<1>4. pc[q] \in {"count", "insert"} => pc[q] \in Confirming
  BY DEF Confirming
<1> QED
  BY <1>1, <1>2, <1>3, <1>4 DEF InPlace

\* So the invariant is kept if this request is where it should be and there is
\* room left.
LEMMA RecedeKeeps ==
  ASSUME NEW r \in Requests, MediaIInv, Recedes(r), MediaTypeOK', RoomLeft', InPlace(r)'
  PROVE  MediaIInv'
BY RecedeKeepsRows, RecedeKeepsFiles, RecedeKeepsOthers DEF MediaIInv

\* There is, when no attachment is added and nobody else gets to the insert.
LEMMA RoomKept ==
  ASSUME MediaTypeOK, MediaTypeOK', RoomLeft,
         Attachments' \subseteq Attachments, Inserting' \subseteq Inserting
  PROVE  RoomLeft'
<1>1. IsFiniteSet(Inserting) /\ IsFiniteSet(Inserting')
  BY FS_Subset, MediaAssumption DEF Inserting
<1>2. /\ Cardinality(Inserting') <= Cardinality(Inserting)
      /\ IsFiniteSet(Attachments') /\ Cardinality(Attachments') <= Cardinality(Attachments)
  BY <1>1, FS_Subset DEF RoomLeft
<1>3. /\ Cardinality(Inserting) \in Nat /\ Cardinality(Inserting') \in Nat
      /\ Cardinality(Attachments) \in Nat /\ Cardinality(Attachments') \in Nat
      /\ Cardinality(Requests) \in Nat /\ MaxItems \in Nat
  BY <1>1, <1>2, FS_CardinalityType, MediaAssumption DEF RoomLeft
<1> QED
  BY <1>2, <1>3 DEF RoomLeft

\* A file of its own stays its own while the request goes on with it.
LEMMA OwnFileKept ==
  ASSUME NEW r \in Requests, MediaTypeOK, Recedes(r), OwnFile(r), file[r] \in Files,
         file'[r] = file[r], file[r] \notin doomed'[r]
  PROVE  OwnFile(r)'
<1>1. \A row \in Row : Known(row)' => row.publicId # file'[r]
  BY RecedeKnowsNoMore DEF OwnFile
<1>2. \A q \in Requests : file'[r] \notin doomed'[q] /\ (q # r => file'[q] # file'[r])
  BY DEF OwnFile, Recedes
<1> QED
  BY <1>1, <1>2 DEF OwnFile

\* The request ends.
LEMMA EndKeeps ==
  ASSUME NEW r \in Requests, MediaIInv, End(r), post' \in {"new", "there", "removed"},
         UNCHANGED <<media, stored, sent, repeated>>,
         issued' \in [Files -> {"no", "signed", "uploaded"}],
         \A f \in Files : issued[f] # "no" => issued'[f] = issued[f]
  PROVE  MediaIInv'
<1>1. /\ pc'[r] = "out" /\ file'[r] = NoFile /\ found'[r] = {} /\ doomed'[r] = {}
      /\ \A q \in Requests \ {r} :
           pc'[q] = pc[q] /\ file'[q] = file[q] /\ found'[q] = found[q] /\ doomed'[q] = doomed[q]
  BY DEF MediaIInv, MediaTypeOK, End
<1>2. MediaTypeOK'
  BY DEF MediaIInv, MediaTypeOK, End, Steps
<1>3. Recedes(r)
  BY <1>1 DEF Recedes
<1>4. InPlace(r)'
  BY <1>1 DEF InPlace, Confirming, Replacing, Removing
<1>5. RoomLeft'
  <2>1. Attachments' = Attachments /\ Inserting' \subseteq Inserting
    BY <1>1 DEF Attachments, Inserting
  <2> QED
    BY <1>2, <2>1, RoomKept DEF MediaIInv
<1> QED
  BY <1>2, <1>3, <1>4, <1>5, RecedeKeeps

\* The request goes on from one step to another and changes nothing else, but
\* perhaps the rows that it found or the files that it dooms.
GoesOn(r) ==
  /\ pc' = [pc EXCEPT ![r] = pc'[r]]
  /\ UNCHANGED file
  /\ found' = [found EXCEPT ![r] = found'[r]]
  /\ doomed' = [doomed EXCEPT ![r] = doomed'[r]]

LEMMA GoingOn ==
  ASSUME NEW r \in Requests, MediaIInv, GoesOn(r),
         media' \subseteq media, UNCHANGED <<issued, stored, sent, repeated>>,
         post' \in {"new", "there", "removed"},
         pc'[r] \in Steps, pc'[r] = "insert" => pc[r] = "insert",
         found'[r] \in SUBSET Row, doomed'[r] \in SUBSET Files,
         found'[r] \subseteq found[r] \cup media,
         doomed'[r] \subseteq doomed[r] \cup {file[r]} \cup PublicIds(found[r]),
         \A f \in doomed'[r] : f \in PublicIds(media') => f \in repeated,
         InPlace(r)'
  PROVE  MediaIInv'
<1>1. MediaTypeOK'
  BY DEF MediaIInv, MediaTypeOK, GoesOn
<1>2. Recedes(r)
  BY DEF Recedes, GoesOn, MediaIInv, MediaTypeOK, PublicIds
<1>3. RoomLeft'
  <2>1. Attachments' \subseteq Attachments /\ Inserting' \subseteq Inserting
    BY DEF Attachments, Inserting, GoesOn, MediaIInv, MediaTypeOK
  <2> QED
    BY <1>1, <2>1, RoomKept DEF MediaIInv
<1> QED
  BY <1>1, <1>2, <1>3, RecedeKeeps

-----------------------------------------------------------------------------
(* Posts.                                                                  *)

\* CreatePost and BrowserUpload touch no request.
LEMMA NoRequestKeeps ==
  ASSUME MediaIInv, UNCHANGED <<media, issued, sent, repeated, requestVars>>,
         post' \in {"new", "there", "removed"},
         stored' \in [Files -> {"nothing", "accepted", "unacceptable"}],
         \A f \in Files : stored[f] = "accepted" => stored'[f] = "accepted"
  PROVE  MediaIInv'
<1>1. PICK r \in Requests : TRUE
  BY MediaAssumption
<1>2. MediaTypeOK'
  BY DEF MediaIInv, MediaTypeOK, requestVars
<1>3. Recedes(r)
  BY DEF Recedes, requestVars, MediaIInv, FilesInv, PublicIds
<1>4. RoomLeft'
  BY <1>2, RoomKept DEF MediaIInv, Attachments, Inserting, requestVars
<1>5. InPlace(r)'
  <2>1. OwnFile(r) => OwnFile(r)'
    BY DEF OwnFile, Known, requestVars
  <2> QED
    BY <2>1 DEF MediaIInv, InPlace, MediaTypeOK, Confirming, requestVars
<1> QED
  BY <1>2, <1>3, <1>4, <1>5, RecedeKeeps

LEMMA CreatePostKeeps == MediaIInv /\ CreatePost => MediaIInv'
BY NoRequestKeeps DEF CreatePost, MediaIInv, MediaTypeOK

LEMMA BrowserUploadKeeps ==
  ASSUME NEW f \in Files, NEW content \in {"accepted", "unacceptable"},
         MediaIInv, BrowserUpload(f, content)
  PROVE  MediaIInv'
<1>1. /\ post' \in {"new", "there", "removed"}
      /\ stored' \in [Files -> {"nothing", "accepted", "unacceptable"}]
      /\ \A g \in Files : stored[g] = "accepted" => stored'[g] = "accepted"
  BY DEF BrowserUpload, MediaIInv, MediaTypeOK
<1> QED
  BY <1>1, NoRequestKeeps DEF BrowserUpload

LEMMA BeginOnPostKeeps ==
  ASSUME NEW r \in Requests, NEW step \in {"savePost", "findRows", "sign"},
         MediaIInv, BeginOnPost(r, step)
  PROVE  MediaIInv'
<1>1. /\ pc[r] = "out" /\ pc'[r] = step /\ found'[r] = {} /\ doomed'[r] = {} /\ GoesOn(r)
      /\ UNCHANGED <<post, media, issued, stored, sent, repeated>>
  BY DEF BeginOnPost, Goto, GoesOn, MediaIInv, MediaTypeOK, InPlace
<1>2. InPlace(r)'
  BY <1>1 DEF InPlace, Confirming, Replacing, Removing
<1> QED
  BY <1>1, <1>2, GoingOn DEF Steps, MediaIInv, MediaTypeOK

LEMMA SavePostKeeps == ASSUME NEW r \in Requests, MediaIInv, SavePost(r) PROVE MediaIInv'
<1>1. /\ pc[r] = "savePost" /\ pc'[r] = "insertPost" /\ GoesOn(r)
      /\ found'[r] = found[r] /\ doomed'[r] = doomed[r]
      /\ UNCHANGED <<post, media, issued, stored, sent, repeated>>
  BY DEF SavePost, Goto, GoesOn, MediaIInv, MediaTypeOK
<1>2. InPlace(r)'
  BY <1>1 DEF InPlace, Confirming, Replacing, Removing
<1> QED
  BY <1>1, <1>2, GoingOn DEF Steps, MediaIInv, MediaTypeOK, FilesInv, PublicIds

LEMMA FindRowsKeeps == ASSUME NEW r \in Requests, MediaIInv, FindRows(r) PROVE MediaIInv'
<1>1. /\ pc'[r] \in {"deletePost", "deleteRows"} /\ GoesOn(r)
      /\ pc'[r] = "deletePost" => found'[r] = {}
      /\ found'[r] = Attachments /\ doomed'[r] = doomed[r]
      /\ UNCHANGED <<post, media, issued, stored, sent, repeated>>
  BY DEF FindRows, Goto, GoesOn, MediaIInv, MediaTypeOK
<1>2. InPlace(r)'
  BY <1>1 DEF InPlace, Confirming, Replacing, Removing, Attachments
<1>3. Attachments \subseteq media /\ Attachments \in SUBSET Row
  BY DEF Attachments, MediaIInv, MediaTypeOK
<1> QED
  BY <1>1, <1>2, <1>3, GoingOn DEF Steps, MediaIInv, MediaTypeOK, FilesInv, PublicIds

\* What is left are logos, and none of them has the file of an attachment.
LEMMA DeleteRowsKeeps == ASSUME NEW r \in Requests, MediaIInv, DeleteRows(r) PROVE MediaIInv'
<1>1. /\ pc[r] = "deleteRows" /\ pc'[r] = "destroyAll" /\ GoesOn(r)
      /\ found'[r] = found[r] /\ doomed'[r] = PublicIds(found[r])
      /\ media' = media \ Attachments
      /\ UNCHANGED <<post, issued, stored, sent, repeated>>
  BY DEF DeleteRows, Doom, GoesOn, MediaIInv, MediaTypeOK
<1>2. \A row \in found[r] : row \in Row /\ row.purpose = "attachment"
  BY <1>1 DEF MediaIInv, InPlace, Removing, MediaTypeOK
<1>3. InPlace(r)'
  <2>1. \A row \in found'[r] \cap media' : row.publicId \in repeated'
    BY <1>1, <1>2 DEF Attachments
  <2> QED
    BY <1>1, <1>2, <2>1 DEF InPlace, Confirming, Replacing, Removing
<1>4. PublicIds(found[r]) \in SUBSET Files
  BY <1>2 DEF PublicIds, Row
<1>5. \A f \in PublicIds(found[r]) : f \notin PublicIds(media')
  <2> SUFFICES ASSUME NEW x \in found[r], NEW y \in media', x.publicId = y.publicId PROVE FALSE
    BY DEF PublicIds
  <2>1. y \in Row /\ Known(y) /\ x \in Row /\ Known(x) /\ y \notin Attachments
    BY <1>1, <1>2 DEF MediaIInv, MediaTypeOK, Known
  <2>2. x = y
    BY <2>1 DEF MediaIInv, RowsInv
  <2> QED
    BY <1>1, <1>2, <2>1, <2>2 DEF Attachments
<1> QED
  BY <1>1, <1>2, <1>3, <1>4, <1>5, GoingOn DEF Steps, MediaIInv, MediaTypeOK

LEMMA EndsOfPosts ==
  ASSUME NEW r \in Requests, MediaIInv, InsertPost(r) \/ DeletePost(r) PROVE MediaIInv'
BY EndKeeps DEF InsertPost, DeletePost, MediaIInv, MediaTypeOK

-----------------------------------------------------------------------------
(* Attachments.                                                            *)

LEMMA SignKeeps ==
  ASSUME NEW r \in Requests, NEW f \in Files, MediaIInv, Sign(r, f) PROVE MediaIInv'
<1>1. /\ issued' \in [Files -> {"no", "signed", "uploaded"}]
      /\ \A g \in Files : issued[g] # "no" => issued'[g] = issued[g]
      /\ post' \in {"new", "there", "removed"}
  BY DEF Sign, MediaIInv, MediaTypeOK
<1> QED
  BY <1>1, EndKeeps DEF Sign

\* A file of its own is in no row.
LEMMA OwnFileInNoRow ==
  ASSUME NEW r \in Requests, MediaIInv, pc[r] \in Confirming, file[r] \notin repeated
  PROVE  file[r] \notin PublicIds(media)
BY DEF MediaIInv, InPlace, OwnFile, PublicIds, Known, MediaTypeOK

\* The checks of a confirmation: it goes on, or its file is destroyed.
LEMMA ChecksKeep ==
  ASSUME NEW r \in Requests, MediaIInv, pc[r] \in {"resource", "otherKind", "count"},
         pc'[r] = "destroy" \/ (pc[r] = "resource" /\ pc'[r] = "count"),
         pc' = [pc EXCEPT ![r] = pc'[r]],
         pc'[r] = "destroy" => doomed' = [doomed EXCEPT ![r] = {file[r]}],
         pc'[r] = "count" => stored[file[r]] = "accepted" /\ UNCHANGED doomed,
         UNCHANGED <<post, media, issued, stored, sent, repeated, file, found>>
  PROVE  MediaIInv'
<1>1. pc[r] \in Confirming /\ file[r] \in Files
  BY DEF MediaIInv, InPlace, MediaTypeOK, Confirming
<1>2. GoesOn(r) /\ found'[r] = found[r]
  BY DEF GoesOn, MediaIInv, MediaTypeOK
<1>3. CASE pc'[r] = "destroy"
  <2>1. InPlace(r)'
    BY <1>3 DEF InPlace, Confirming, Replacing, Removing
  <2>2. doomed'[r] = {file[r]} /\ (file[r] \in PublicIds(media) => file[r] \in repeated)
    BY <1>1, <1>3, OwnFileInNoRow DEF MediaIInv, MediaTypeOK
  <2> QED
    BY <1>1, <1>2, <1>3, <2>1, <2>2, GoingOn DEF Steps, MediaIInv, MediaTypeOK
<1>4. CASE pc'[r] = "count"
  <2>1. pc[r] = "resource" /\ doomed'[r] = doomed[r]
    BY <1>4
  <2>2. file[r] \notin repeated => OwnFile(r)'
    <3>1. file[r] \notin repeated => OwnFile(r)
      BY <1>1 DEF MediaIInv, InPlace
    <3> QED
      BY <1>4, <3>1 DEF OwnFile, Known
  <2>3. InPlace(r)'
    BY <1>1, <1>4, <2>2 DEF InPlace, MediaIInv, Confirming, Replacing, Removing
  <2> QED
    BY <1>2, <1>4, <2>1, <2>3, GoingOn DEF Steps, MediaIInv, MediaTypeOK, FilesInv, PublicIds
<1> QED
  BY <1>3, <1>4

LEMMA GetResourceKeeps == ASSUME NEW r \in Requests, MediaIInv, GetResource(r) PROVE MediaIInv'
<1>1. pc \in [Requests -> Steps]
  BY DEF MediaIInv, MediaTypeOK
<1> QED
  BY <1>1, ChecksKeep DEF GetResource, Goto, Doom

LEMMA GetOtherKindKeeps == ASSUME NEW r \in Requests, MediaIInv, GetOtherKind(r) PROVE MediaIInv'
<1>1. pc \in [Requests -> Steps]
  BY DEF MediaIInv, MediaTypeOK
<1> QED
  BY <1>1, ChecksKeep DEF GetOtherKind, Doom

\* The count lets a request through only while there is room.
LEMMA CountKeeps == ASSUME NEW r \in Requests, MediaIInv, Count(r) PROVE MediaIInv'
<1>1. CASE IsFull
  <2>1. pc \in [Requests -> Steps]
    BY DEF MediaIInv, MediaTypeOK
  <2> QED
    BY <1>1, <2>1, ChecksKeep DEF Count, Doom
<1>2. CASE ~IsFull
  <2>1. /\ pc[r] = "count" /\ pc' = [pc EXCEPT ![r] = "insert"]
        /\ UNCHANGED <<post, media, issued, stored, sent, repeated, file, found, doomed>>
    BY <1>2 DEF Count, Goto
  <2>2. MediaTypeOK'
    BY <2>1 DEF MediaIInv, MediaTypeOK, Steps
  <2>3. Recedes(r)
    BY <2>1 DEF Recedes, MediaIInv, MediaTypeOK, FilesInv, PublicIds
  <2>4. InPlace(r)'
    <3>1. InPlace(r) /\ pc[r] = "count" /\ pc'[r] = "insert"
      BY <2>1 DEF MediaIInv, MediaTypeOK
    <3>2. OwnFile(r) => OwnFile(r)'
      BY <2>1 DEF OwnFile, Known
    <3> QED
      BY <2>1, <3>1, <3>2 DEF InPlace, Confirming, Replacing, Removing
  <2>5. RoomLeft'
    <3>1. Attachments' = Attachments /\ Inserting' = Inserting \cup {r} /\ r \notin Inserting
      BY <2>1 DEF Attachments, Inserting, MediaIInv, MediaTypeOK
    <3>2. IsFiniteSet(Inserting) /\ Cardinality(Inserting') = Cardinality(Inserting) + 1
      <4>1. IsFiniteSet(Inserting)
        BY FS_Subset, MediaAssumption DEF Inserting
      <4> QED
        BY <3>1, <4>1, FS_AddElement
    <3>3. Cardinality(Inserting') <= Cardinality(Requests)
      BY FS_Subset, MediaAssumption DEF Inserting
    <3>4. /\ Cardinality(Attachments) < MaxItems /\ IsFiniteSet(Attachments)
          /\ Cardinality(Attachments) \in Nat /\ Cardinality(Inserting) \in Nat
          /\ Cardinality(Requests) \in Nat /\ MaxItems \in Nat
      BY <1>2, <3>2, FS_CardinalityType, MediaAssumption DEF IsFull, MediaIInv, RoomLeft
    <3> QED
      BY <3>1, <3>2, <3>3, <3>4 DEF RoomLeft
  <2> QED
    BY <2>2, <2>3, <2>4, <2>5, RecedeKeeps
<1> QED
  BY <1>1, <1>2

\* A file that was not sent yet is nowhere, so the first request has it alone.
LEMMA BeginConfirmKeeps ==
  ASSUME NEW r \in Requests, NEW f \in Files, NEW step \in {"resource", "otherKind"},
         MediaIInv, BeginConfirm(r, f, step)
  PROVE  MediaIInv'
<1>1. /\ pc[r] = "out" /\ found[r] = {} /\ doomed[r] = {} /\ issued[f] = "signed"
      /\ pc' = [pc EXCEPT ![r] = step] /\ file' = [file EXCEPT ![r] = f]
      /\ sent' = sent \cup {f} /\ repeated' = repeated \cup (sent \cap {f})
      /\ UNCHANGED <<post, media, issued, stored, found, doomed>>
  BY DEF BeginConfirm, Goto, MediaIInv, InPlace
<1>2. MediaTypeOK'
  BY <1>1 DEF MediaIInv, MediaTypeOK, Steps
<1>3. \A row \in Row : Known(row)' <=> Known(row)
  BY <1>1 DEF Known
<1>4. RowsInv'
  BY <1>1, <1>3 DEF MediaIInv, RowsInv, OfItsKind, Logos
<1>5. /\ pc'[r] = step /\ file'[r] = f
      /\ \A q \in Requests : q # r => pc'[q] = pc[q] /\ file'[q] = file[q]
  BY <1>1 DEF MediaIInv, MediaTypeOK
<1>6. \A g \in Files : InUse(g)' => InUse(g) \/ g = f
  BY <1>1, <1>3, <1>5 DEF InUse
<1>7. FilesInv'
  BY <1>1, <1>6 DEF MediaIInv, FilesInv, RowsHaveFiles, PublicIds
<1>8. RoomLeft'
  <2>1. Attachments' = Attachments /\ Inserting' = Inserting
    BY <1>1, <1>5 DEF Attachments, Inserting
  <2> QED
    BY <1>2, <2>1, RoomKept DEF MediaIInv
<1>9. InPlace(r)'
  <2>1. f \notin repeated' => ~ InUse(f)
    BY <1>1 DEF MediaIInv, FilesInv
  <2>2. f \notin repeated' => OwnFile(r)'
    BY <1>1, <1>3, <1>5, <2>1 DEF OwnFile, InUse
  <2> QED
    BY <1>1, <1>5, <2>2 DEF InPlace, Confirming, Replacing, Removing
<1>10. ASSUME NEW q \in Requests, q # r PROVE InPlace(q)'
  <2>1. pc[q] \in Confirming \cup Replacing /\ file[q] \notin repeated' => file[q] # f
    BY <1>1 DEF MediaIInv, InPlace
  <2>2. pc[q] \in Confirming \cup Replacing /\ file[q] \notin repeated' => OwnFile(q)'
    BY <1>1, <1>3, <1>5, <1>10, <2>1 DEF OwnFile, MediaIInv, InPlace
  <2> QED
    BY <1>1, <1>5, <1>10, <2>2 DEF InPlace, MediaIInv
<1> QED
  BY <1>2, <1>4, <1>7, <1>8, <1>9, <1>10 DEF MediaIInv

\* The row of a confirmation is new, unless its file was sent again.
LEMMA InsertKeeps == ASSUME NEW r \in Requests, MediaIInv, Insert(r) PROVE MediaIInv'
<1> DEFINE f == file[r]
           new == [id |-> f, purpose |-> "attachment", publicId |-> f]
<1>1. /\ pc[r] = "insert" /\ f \in sent /\ f \in Files /\ issued[f] = "signed"
      /\ f \notin PublicIds(media) /\ media' = media \cup {new}
      /\ f \notin repeated => OwnFile(r) /\ stored[f] = "accepted"
  BY DEF Insert, MediaIInv, InPlace, MediaTypeOK, FilesInv, Confirming
<1>2. new \in Row /\ new.id = f /\ new.publicId = f /\ new.purpose = "attachment"
  BY <1>1 DEF Row
<1> HIDE DEF new
<1>3. /\ pc'[r] = "out" /\ file'[r] = NoFile /\ found'[r] = {} /\ doomed'[r] = {}
      /\ \A q \in Requests \ {r} :
           pc'[q] = pc[q] /\ file'[q] = file[q] /\ found'[q] = found[q] /\ doomed'[q] = doomed[q]
      /\ UNCHANGED <<post, issued, stored, sent, repeated>>
  BY DEF Insert, End, MediaIInv, MediaTypeOK
<1>4. MediaTypeOK'
  BY <1>1, <1>2 DEF Insert, End, MediaIInv, MediaTypeOK, Steps
<1>5. \A row \in Row : Known(row)' => Known(row) \/ row = new
  BY <1>1, <1>3 DEF Known
<1>6. RowsInv'
  <2>1. \A row \in Row : Known(row)' => OfItsKind(row)'
    BY <1>1, <1>2, <1>3, <1>5 DEF OfItsKind, MediaIInv, RowsInv
  <2>2. ASSUME NEW x \in Row, Known(x), x.publicId = f PROVE x = new
    <3>1. OfItsKind(x)
      BY <2>2 DEF MediaIInv, RowsInv
    <3>2. x.purpose = "attachment" /\ x.id = f
      BY <1>1, <2>2, <3>1 DEF OfItsKind, Row
    <3> QED
      BY <2>2, <3>2 DEF Row, new
  <2>3. \A x, y \in Row : Known(x)' /\ Known(y)' /\ x.publicId = y.publicId => x = y
    BY <1>2, <1>5, <2>2 DEF MediaIInv, RowsInv
  <2>4. Logos' = Logos
    BY <1>1, <1>2 DEF Logos
  <2> QED
    BY <2>1, <2>3, <2>4 DEF MediaIInv, RowsInv
<1>7. FilesInv'
  <2>1. \A g \in Files : InUse(g)' => InUse(g) \/ g = f
    BY <1>2, <1>3, <1>5, MediaAssumption DEF InUse
  <2>2. \A q \in Requests : \A g \in doomed'[q] : g \in PublicIds(media)' => g \in repeated'
    <3>1. \A g \in PublicIds(media)' : g \in PublicIds(media) \/ g = f
      BY <1>1, <1>2 DEF PublicIds
    <3>2. \A q \in Requests : f \in doomed[q] => f \in repeated
      BY <1>1 DEF OwnFile
    <3> QED
      BY <1>3, <3>1, <3>2 DEF MediaIInv, FilesInv
  <2>3. RowsHaveFiles'
    BY <1>1, <1>2, <1>3 DEF MediaIInv, FilesInv, RowsHaveFiles
  <2> QED
    BY <1>1, <1>3, <2>1, <2>2, <2>3 DEF MediaIInv, FilesInv
<1>8. RoomLeft'
  <2>1. /\ Attachments' = Attachments \cup {new} /\ new \notin Attachments
        /\ Inserting = Inserting' \cup {r} /\ r \notin Inserting'
    BY <1>1, <1>2, <1>3 DEF Attachments, Inserting, PublicIds
  <2>2. IsFiniteSet(Inserting') /\ IsFiniteSet(Attachments)
    BY FS_Subset, MediaAssumption DEF Inserting, MediaIInv, RoomLeft
  <2>3. /\ Cardinality(Inserting) = Cardinality(Inserting') + 1
        /\ IsFiniteSet(Attachments') /\ Cardinality(Attachments') = Cardinality(Attachments) + 1
    BY <2>1, <2>2, FS_AddElement
  <2>4. /\ Cardinality(Inserting') \in Nat /\ Cardinality(Attachments) \in Nat
        /\ Cardinality(Requests) \in Nat /\ MaxItems \in Nat
    BY <2>2, FS_CardinalityType, MediaAssumption
  <2> QED
    BY <2>3, <2>4 DEF MediaIInv, RoomLeft
<1>9. InPlace(r)'
  BY <1>3 DEF InPlace, Confirming, Replacing, Removing
<1>10. ASSUME NEW q \in Requests, q # r PROVE InPlace(q)'
  <2>1. OwnFile(q) /\ file[q] \in Files => OwnFile(q)'
    BY <1>2, <1>3, <1>5, <1>10, MediaAssumption DEF OwnFile
  <2>2. pc[q] \in Confirming => file[q] \in Files
    BY DEF MediaIInv, InPlace, MediaTypeOK
  <2>3. new \in found[q] => f \in repeated
    BY <1>1, <1>2 DEF OwnFile, Known
  <2> QED
    BY <1>1, <1>2, <1>3, <1>10, <2>1, <2>2, <2>3 DEF InPlace, MediaIInv
<1> QED
  BY <1>4, <1>6, <1>7, <1>8, <1>9, <1>10 DEF MediaIInv

-----------------------------------------------------------------------------
(* The logo.                                                               *)

\* The file of a logo was never sent, so it is this request's own.
LEMMA LogoIsOwn ==
  ASSUME NEW r \in Requests, MediaIInv, pc[r] \in Replacing
  PROVE  /\ file[r] \in Files /\ file[r] \notin repeated /\ OwnFile(r)
         /\ issued[file[r]] = "uploaded" /\ stored[file[r]] = "accepted"
         /\ \A x, y \in found[r] : x.purpose = "logo" /\ x = y
BY DEF MediaIInv, InPlace, FilesInv, MediaTypeOK

LEMMA BeginUploadKeeps ==
  ASSUME NEW r \in Requests, NEW f \in Files, MediaIInv, BeginUpload(r, f)
  PROVE  MediaIInv'
<1>1. /\ pc[r] = "out" /\ found[r] = {} /\ doomed[r] = {} /\ issued[f] = "no"
      /\ pc' = [pc EXCEPT ![r] = "findLogo"] /\ file' = [file EXCEPT ![r] = f]
      /\ issued' = [issued EXCEPT ![f] = "uploaded"]
      /\ stored' = [stored EXCEPT ![f] = "accepted"]
      /\ UNCHANGED <<post, media, sent, repeated, found, doomed>>
  BY DEF BeginUpload, Goto, MediaIInv, InPlace
<1>2. MediaTypeOK'
  BY <1>1 DEF MediaIInv, MediaTypeOK, Steps
<1>3. \A row \in Row : Known(row)' <=> Known(row)
  BY <1>1 DEF Known
<1>4. /\ pc'[r] = "findLogo" /\ file'[r] = f
      /\ \A q \in Requests : q # r => pc'[q] = pc[q] /\ file'[q] = file[q]
      /\ issued'[f] = "uploaded" /\ stored'[f] = "accepted"
      /\ \A g \in Files : g # f => issued'[g] = issued[g] /\ stored'[g] = stored[g]
  BY <1>1 DEF MediaIInv, MediaTypeOK
<1>5. ~ InUse(f) /\ f \notin sent
  BY <1>1 DEF MediaIInv, FilesInv
<1>6. RowsInv'
  <2>1. \A row \in Row : Known(row) => row.id \in Files /\ row.publicId \in Files /\ row.id # f
                                       /\ row.publicId # f
    BY <1>1, <1>5 DEF MediaIInv, RowsInv, OfItsKind, InUse, Row
  <2> QED
    BY <1>1, <1>3, <1>4, <2>1 DEF MediaIInv, RowsInv, OfItsKind, Logos
<1>7. FilesInv'
  <2>1. \A g \in Files : InUse(g)' => InUse(g) \/ g = f
    BY <1>1, <1>3, <1>4 DEF InUse
  <2>2. RowsHaveFiles'
    BY <1>1, <1>4 DEF MediaIInv, FilesInv, RowsHaveFiles, MediaTypeOK, Row
  <2>3. \A g \in sent' : issued'[g] = "signed"
    BY <1>1, <1>4, <1>5 DEF MediaIInv, FilesInv, MediaTypeOK
  <2>4. \A g \in Files : InUse(g)' => g \in sent' \/ issued'[g] = "uploaded"
    BY <1>1, <1>4, <2>1 DEF MediaIInv, FilesInv
  <2>5. \A q \in Requests : \A g \in doomed'[q] : g \in PublicIds(media)' => g \in repeated'
    BY <1>1 DEF MediaIInv, FilesInv, PublicIds
  <2> QED
    BY <2>2, <2>3, <2>4, <2>5 DEF FilesInv
<1>8. RoomLeft'
  <2>1. Attachments' = Attachments /\ Inserting' = Inserting
    BY <1>1, <1>4 DEF Attachments, Inserting
  <2> QED
    BY <1>2, <2>1, RoomKept DEF MediaIInv
<1>9. InPlace(r)'
  <2>1. OwnFile(r)'
    BY <1>1, <1>3, <1>4, <1>5 DEF OwnFile, InUse
  <2> QED
    BY <1>1, <1>4, <2>1 DEF InPlace, Confirming, Replacing, Removing
<1>10. ASSUME NEW q \in Requests, q # r PROVE InPlace(q)'
  <2>1. file[q] # f
    BY <1>5 DEF InUse
  <2>2. OwnFile(q) => OwnFile(q)'
    BY <1>1, <1>3, <1>4, <1>10, <2>1 DEF OwnFile
  <2>3. pc[q] \in Confirming \cup Replacing => file[q] \in Files
    BY DEF MediaIInv, InPlace, MediaTypeOK
  <2>4. pc[q] \in {"count", "insert"} => pc[q] \in Confirming
    BY DEF Confirming
  <2> QED
    BY <1>1, <1>4, <1>10, <2>1, <2>2, <2>3, <2>4 DEF InPlace, MediaIInv
<1> QED
  BY <1>2, <1>6, <1>7, <1>8, <1>9, <1>10 DEF MediaIInv

\* The steps before the save of a logo.
LEMMA BeforeLogoKeeps ==
  ASSUME NEW r \in Requests, MediaIInv, pc[r] \in {"findLogo", "saveLogo"},
         NEW to \in {"saveLogo", "writeLogo", "insertLogo"}, pc' = [pc EXCEPT ![r] = to],
         NEW rows \in {found[r], Logos}, found' = [found EXCEPT ![r] = rows],
         UNCHANGED <<post, media, issued, stored, sent, repeated, file, doomed>>
  PROVE  MediaIInv'
<1>1. GoesOn(r) /\ pc'[r] = to /\ found'[r] = rows /\ doomed'[r] = doomed[r]
  BY DEF GoesOn, MediaIInv, MediaTypeOK
<1>2. \A x, y \in rows : x.purpose = "logo" /\ x = y
  BY LogoIsOwn DEF Replacing, MediaIInv, RowsInv, Logos
<1>3. rows \in SUBSET Row /\ rows \subseteq found[r] \cup media
  BY DEF MediaIInv, MediaTypeOK, Logos
<1>4. OwnFile(r)'
  <2>1. \A row \in Row : Known(row)' => Known(row)
    <3>1. \A q \in Requests \ {r} : found'[q] = found[q]
      BY DEF MediaIInv, MediaTypeOK
    <3> QED
      BY <1>1, <1>3, <3>1 DEF Known
  <2> QED
    BY <2>1, LogoIsOwn DEF OwnFile, Replacing
<1>5. InPlace(r)'
  BY <1>1, <1>2, <1>4, LogoIsOwn DEF InPlace, Confirming, Replacing, Removing
<1> QED
  BY <1>1, <1>3, <1>5, GoingOn DEF Steps, MediaIInv, MediaTypeOK, FilesInv, PublicIds

LEMMA FindLogoKeeps == ASSUME NEW r \in Requests, MediaIInv, FindLogo(r) PROVE MediaIInv'
BY BeforeLogoKeeps DEF FindLogo, Goto

LEMMA SaveLogoKeeps == ASSUME NEW r \in Requests, MediaIInv, SaveLogo(r) PROVE MediaIInv'
<1>1. found' = [found EXCEPT ![r] = found[r]]
  BY DEF SaveLogo, MediaIInv, MediaTypeOK
<1> QED
  BY <1>1, BeforeLogoKeeps DEF SaveLogo, Goto

\* What WriteLogo and InsertLogo have in common: the logo with the new file, if
\* there is one, takes the place of the row that was found.
LEMMA LogoSavedKeeps ==
  ASSUME NEW r \in Requests, MediaIInv, pc[r] \in {"writeLogo", "insertLogo"},
         Doom(r, "destroy", PublicIds(found[r])),
         UNCHANGED <<post, issued, stored, sent, repeated, file, found>>,
         \A y \in media' : \/ y \in media /\ y \notin found[r]
                           \/ /\ y \in Row /\ y.purpose = "logo" /\ y.publicId = file[r]
                              /\ issued[y.id] = "uploaded",
         Attachments' = Attachments,
         \A x, y \in Logos' : x = y
  PROVE  MediaIInv'
<1> DEFINE f == file[r]
<1>1. /\ f \in Files /\ f \notin repeated /\ OwnFile(r)
      /\ issued[f] = "uploaded" /\ stored[f] = "accepted"
      /\ \A x \in found[r] : x \in Row /\ x.purpose = "logo"
  BY LogoIsOwn DEF Replacing, MediaIInv, MediaTypeOK
<1>2. /\ pc'[r] = "destroy" /\ doomed'[r] = PublicIds(found[r])
      /\ \A q \in Requests : q # r => pc'[q] = pc[q] /\ doomed'[q] = doomed[q]
  BY DEF Doom, MediaIInv, MediaTypeOK
<1>3. PublicIds(found[r]) \in SUBSET Files
  BY <1>1 DEF PublicIds, Row
<1>4. MediaTypeOK'
  <2>1. media' \subseteq Row
    BY DEF MediaIInv, MediaTypeOK
  <2> QED
    BY <1>3, <2>1 DEF Doom, MediaIInv, MediaTypeOK, Steps
<1>5. \A row \in Row : Known(row)' =>
        Known(row) \/ (row \in Logos' /\ row.publicId = f /\ issued[row.id] = "uploaded")
  BY DEF Known, Logos
<1>6. RowsInv'
  <2>1. \A row \in Row : Known(row)' => OfItsKind(row)'
    BY <1>1, <1>5 DEF OfItsKind, MediaIInv, RowsInv, Logos
  <2>2. \A row \in Row : Known(row) => row.publicId # f
    BY <1>1 DEF OwnFile
  <2>3. \A x, y \in Row : Known(x)' /\ Known(y)' /\ x.publicId = y.publicId => x = y
    BY <1>5, <2>2 DEF MediaIInv, RowsInv
  <2> QED
    BY <2>1, <2>3 DEF RowsInv
<1>7. \A g \in Files : InUse(g)' => InUse(g) \/ g = f
  <2>1. \A g \in PublicIds(found[r]) : \E row \in Row : Known(row) /\ row.publicId = g
    BY <1>1 DEF PublicIds, Known
  <2> QED
    BY <1>2, <1>5, <2>1 DEF InUse
<1>8. FilesInv'
  <2>1. \A q \in Requests : \A g \in doomed'[q] : g \in PublicIds(media)' => g \in repeated'
    <3> SUFFICES ASSUME NEW q \in Requests, NEW g \in doomed'[q],
                        NEW y \in media', y.publicId = g, g \notin repeated
                 PROVE  FALSE
      BY DEF PublicIds
    <3>1. CASE q # r
      BY <1>1, <1>2, <3>1 DEF MediaIInv, FilesInv, PublicIds, OwnFile
    <3>2. CASE q = r
      <4>1. PICK x \in found[r] : x.publicId = g
        BY <1>2, <3>2 DEF PublicIds
      <4>2. x \in Row /\ Known(x) /\ g # f
        BY <1>1, <4>1 DEF Known, OwnFile
      <4>3. y \in media /\ y \notin found[r] /\ y \in Row /\ Known(y)
        BY <4>2 DEF MediaIInv, MediaTypeOK, Known
      <4>4. x = y
        BY <4>1, <4>2, <4>3 DEF MediaIInv, RowsInv
      <4> QED
        BY <4>1, <4>3, <4>4
    <3> QED
      BY <3>1, <3>2
  <2>2. RowsHaveFiles'
    BY <1>1 DEF MediaIInv, FilesInv, RowsHaveFiles
  <2> QED
    BY <1>1, <1>7, <2>1, <2>2 DEF MediaIInv, FilesInv
<1>9. RoomLeft'
  <2>1. Inserting' \subseteq Inserting
    BY <1>2 DEF Inserting
  <2> QED
    BY <1>4, <2>1, RoomKept DEF MediaIInv
<1>10. InPlace(r)'
  BY <1>2 DEF InPlace, Confirming, Replacing, Removing
<1>11. ASSUME NEW q \in Requests, q # r PROVE InPlace(q)'
  <2>1. OwnFile(q) => OwnFile(q)'
    <3> SUFFICES ASSUME OwnFile(q) PROVE OwnFile(q)'
      OBVIOUS
    <3>1. f # file[q] /\ \A g \in PublicIds(found[r]) : g # file[q]
      BY <1>1, <1>11 DEF OwnFile, PublicIds, Known
    <3> QED
      BY <1>2, <1>5, <3>1 DEF OwnFile
  <2>2. \A row \in media' : row.purpose = "attachment" => row \in media
    BY DEF Attachments, Row
  <2> QED
    BY <1>2, <1>11, <2>1, <2>2 DEF InPlace, MediaIInv, Removing
<1> QED
  BY <1>4, <1>6, <1>8, <1>9, <1>10, <1>11 DEF MediaIInv

\* The update finds the row under the same id, or none.
LEMMA WriteLogoKeeps == ASSUME NEW r \in Requests, MediaIInv, WriteLogo(r) PROVE MediaIInv'
<1> DEFINE replaced(x) == x.id \in Ids(found[r])
           written(x) == IF replaced(x) THEN [x EXCEPT !.publicId = file[r]] ELSE x
<1>1. pc[r] = "writeLogo" /\ media' = {written(x) : x \in media}
  BY DEF WriteLogo
<1>2. /\ file[r] \in Files /\ OwnFile(r)
      /\ \A x \in found[r] : x \in Row /\ Known(x) /\ x.purpose = "logo"
  BY <1>1, LogoIsOwn DEF Replacing, MediaIInv, MediaTypeOK, Known
<1>3. \A x \in media : x \in Row /\ Known(x) /\ OfItsKind(x)
  BY DEF MediaIInv, MediaTypeOK, Known, RowsInv
<1>4. \A x \in media : replaced(x) => x.purpose = "logo" /\ issued[x.id] = "uploaded"
  <2>1. \A y \in found[r] : issued[y.id] = "uploaded"
    BY <1>2 DEF MediaIInv, RowsInv, OfItsKind
  <2> QED
    BY <1>3, <2>1 DEF Ids, OfItsKind, Row
<1>5. \A x \in Row : /\ [x EXCEPT !.publicId = file[r]] \in Row
                     /\ [x EXCEPT !.publicId = file[r]].publicId = file[r]
                     /\ [x EXCEPT !.publicId = file[r]].id = x.id
                     /\ [x EXCEPT !.publicId = file[r]].purpose = x.purpose
  BY <1>2 DEF Row
<1>6. \A x \in media :
        /\ replaced(x) => /\ written(x) \in Row /\ written(x).publicId = file[r]
                          /\ written(x).id = x.id /\ written(x).purpose = "logo"
        /\ ~ replaced(x) => written(x) = x
  BY <1>3, <1>4, <1>5
<1> HIDE DEF written
<1>7. \A y \in media' : \/ y \in media /\ y \notin found[r]
                        \/ /\ y \in Row /\ y.purpose = "logo" /\ y.publicId = file[r]
                           /\ issued[y.id] = "uploaded"
  BY <1>1, <1>4, <1>6 DEF Ids
<1>8. Attachments' = Attachments
  <2>1. \A y \in Attachments : y \in media /\ ~ replaced(y)
    BY <1>4 DEF Attachments
  <2>2. \A y \in Attachments : y \in Attachments'
    BY <1>1, <1>6, <2>1 DEF Attachments
  <2>3. \A y \in Attachments' : y \in Attachments
    BY <1>7 DEF Attachments
  <2> QED
    BY <2>2, <2>3
<1>9. \A x, y \in Logos' : x = y
  <2>1. \A y \in Logos' : \E x \in Logos : y = written(x)
    BY <1>1, <1>4, <1>6 DEF Logos
  <2> QED
    BY <2>1 DEF MediaIInv, RowsInv
<1> QED
  BY <1>1, <1>7, <1>8, <1>9, LogoSavedKeeps DEF WriteLogo

\* The index keeps a second logo out, and the row that was found is not there.
LEMMA InsertLogoKeeps == ASSUME NEW r \in Requests, MediaIInv, InsertLogo(r) PROVE MediaIInv'
<1> DEFINE ids == IF found[r] = {} THEN {file[r]} ELSE Ids(found[r])
           new(i) == [id |-> i, purpose |-> "logo", publicId |-> file[r]]
<1>1. pc[r] = "insertLogo" /\ Logos = {} /\ media' = media \cup {new(i) : i \in ids}
  BY DEF InsertLogo
<1>2. /\ file[r] \in Files /\ issued[file[r]] = "uploaded"
      /\ \A x, y \in found[r] : x.purpose = "logo" /\ x = y
      /\ \A x \in found[r] : x \in Row /\ Known(x)
  BY <1>1, LogoIsOwn DEF Replacing, MediaIInv, MediaTypeOK, Known
<1>3. \A i \in ids : i \in Files /\ issued[i] = "uploaded"
  BY <1>2 DEF Ids, MediaIInv, RowsInv, OfItsKind, Row
<1>4. \A i, j \in ids : i = j
  BY <1>2 DEF Ids
<1>5. \A i \in ids : /\ new(i) \in Row /\ new(i).purpose = "logo"
                     /\ new(i).publicId = file[r] /\ new(i).id = i
  BY <1>2, <1>3 DEF Row
<1> HIDE DEF ids, new
<1>6. \A y \in media' : \/ y \in media /\ y \notin found[r]
                        \/ /\ y \in Row /\ y.purpose = "logo" /\ y.publicId = file[r]
                           /\ issued[y.id] = "uploaded"
  BY <1>1, <1>2, <1>3, <1>5 DEF Logos
<1>7. Attachments' = Attachments
  BY <1>1, <1>5 DEF Attachments
<1>8. \A x, y \in Logos' : x = y
  BY <1>1, <1>4 DEF Logos
<1> QED
  BY <1>1, <1>6, <1>7, <1>8, LogoSavedKeeps DEF InsertLogo

-----------------------------------------------------------------------------
(* Removals, and what they destroy.                                        *)

LEMMA BeginRemoveKeeps ==
  ASSUME NEW r \in Requests, NEW row \in media, MediaIInv, BeginRemove(r, row)
  PROVE  MediaIInv'
<1>1. /\ pc[r] = "out" /\ pc'[r] = "deleteRow" /\ GoesOn(r)
      /\ found'[r] = {row} /\ doomed'[r] = {}
      /\ UNCHANGED <<post, media, issued, stored, sent, repeated>>
  BY DEF BeginRemove, Goto, GoesOn, MediaIInv, MediaTypeOK, InPlace
<1>2. InPlace(r)'
  BY <1>1 DEF InPlace, Confirming, Replacing, Removing
<1> QED
  BY <1>1, <1>2, GoingOn DEF Steps, MediaIInv, MediaTypeOK

\* The row may have another file by now: that one goes with the row, and is not
\* destroyed; the one that is destroyed is no row's.
LEMMA DeleteRowKeeps == ASSUME NEW r \in Requests, MediaIInv, DeleteRow(r) PROVE MediaIInv'
<1>1. /\ pc'[r] = "destroy" /\ GoesOn(r)
      /\ found'[r] = found[r] /\ doomed'[r] = PublicIds(found[r])
      /\ media' = {row \in media : row.id \notin Ids(found[r])}
      /\ UNCHANGED <<post, issued, stored, sent, repeated>>
  BY DEF DeleteRow, Doom, GoesOn, MediaIInv, MediaTypeOK
<1>2. InPlace(r)'
  BY <1>1 DEF InPlace, Confirming, Replacing, Removing
<1>3. PublicIds(found[r]) \in SUBSET Files
  BY DEF PublicIds, Row, MediaIInv, MediaTypeOK
<1>4. \A f \in PublicIds(found[r]) : f \notin PublicIds(media')
  <2> SUFFICES ASSUME NEW x \in found[r], NEW y \in media', x.publicId = y.publicId PROVE FALSE
    BY DEF PublicIds
  <2>1. /\ y \in Row /\ Known(y) /\ x \in Row /\ Known(x)
        /\ y.id # x.id
    BY <1>1 DEF MediaIInv, MediaTypeOK, Known, Ids
  <2> QED
    BY <2>1 DEF MediaIInv, RowsInv
<1> QED
  BY <1>1, <1>2, <1>3, <1>4, GoingOn DEF Steps, MediaIInv, MediaTypeOK

\* A file that is destroyed is in no row, and in nobody's hands, unless it was
\* sent again.
LEMMA DestroyKeeps ==
  ASSUME NEW r \in Requests, NEW f \in Files, MediaIInv, Destroy(r, f)
  PROVE  MediaIInv'
<1>1. /\ pc[r] \in {"destroy", "destroyAll"} /\ f \in doomed[r]
      /\ stored' \in [Files -> {"nothing", "accepted", "unacceptable"}]
      /\ \A g \in Files : g # f => stored'[g] = stored[g]
      /\ doomed' = [doomed EXCEPT ![r] = doomed[r] \ {f}]
      /\ UNCHANGED <<post, media, issued, sent, repeated, pc, file, found>>
  BY DEF Destroy, MediaIInv, MediaTypeOK
<1>2. MediaTypeOK'
  BY <1>1 DEF MediaIInv, MediaTypeOK
<1>3. \A q \in Requests : doomed'[q] \subseteq doomed[q]
  BY <1>1 DEF MediaIInv, MediaTypeOK
<1>4. \A row \in Row : Known(row)' <=> Known(row)
  BY <1>1 DEF Known
<1>5. RowsInv'
  BY <1>1, <1>4 DEF MediaIInv, RowsInv, OfItsKind, Logos
<1>6. FilesInv'
  <2>1. \A g \in Files : InUse(g)' => InUse(g)
    BY <1>1, <1>3, <1>4 DEF InUse
  <2>2. f \in PublicIds(media) => f \in repeated
    BY <1>1 DEF MediaIInv, FilesInv
  <2>3. RowsHaveFiles'
    BY <1>1, <2>2 DEF MediaIInv, FilesInv, RowsHaveFiles, PublicIds, MediaTypeOK, Row
  <2>4. \A q \in Requests : \A g \in doomed'[q] : g \in PublicIds(media)' => g \in repeated'
    BY <1>1, <1>3 DEF MediaIInv, FilesInv, PublicIds
  <2> QED
    BY <1>1, <2>1, <2>3, <2>4 DEF MediaIInv, FilesInv
<1>7. RoomLeft'
  BY <1>1, <1>2, RoomKept DEF MediaIInv, Attachments, Inserting
<1>8. ASSUME NEW q \in Requests PROVE InPlace(q)'
  <2>1. OwnFile(q) => OwnFile(q)' /\ file[q] # f
    BY <1>1, <1>3, <1>4 DEF OwnFile
  <2>2. pc[q] \in Confirming => file[q] \in Files
    BY DEF MediaIInv, InPlace, MediaTypeOK
  <2>3. pc[q] \in Replacing => file[q] # f
    BY <2>1, LogoIsOwn
  <2>4. pc[q] \in {"count", "insert"} => pc[q] \in Confirming
    BY DEF Confirming
  <2>5. pc[q] = "out" => doomed'[q] = {}
    BY <1>3 DEF MediaIInv, InPlace
  <2> QED
    BY <1>1, <2>1, <2>2, <2>3, <2>4, <2>5 DEF MediaIInv, InPlace
<1> QED
  BY <1>2, <1>5, <1>6, <1>7, <1>8 DEF MediaIInv

LEMMA DestroyedKeeps == ASSUME NEW r \in Requests, MediaIInv, Destroyed(r) PROVE MediaIInv'
<1>1. CASE pc[r] = "destroy" /\ End(r)
  BY <1>1, EndKeeps DEF Destroyed, MediaIInv, MediaTypeOK
<1>2. CASE Goto(r, "destroyAll", "deletePost") /\ UNCHANGED <<file, found, doomed>>
  <2>1. /\ pc[r] = "destroyAll" /\ pc'[r] = "deletePost" /\ GoesOn(r)
        /\ found'[r] = found[r] /\ doomed'[r] = doomed[r]
        /\ UNCHANGED <<post, media, issued, stored, sent, repeated>>
    BY <1>2 DEF Destroyed, Goto, GoesOn, MediaIInv, MediaTypeOK
  <2>2. InPlace(r)'
    BY <2>1 DEF InPlace, MediaIInv, Confirming, Replacing, Removing
  <2> QED
    BY <2>1, <2>2, GoingOn DEF Steps, MediaIInv, MediaTypeOK, FilesInv, PublicIds
<1> QED
  BY <1>1, <1>2 DEF Destroyed

LEMMA FailKeeps == ASSUME NEW r \in Requests, MediaIInv, Fail(r) PROVE MediaIInv'
BY EndKeeps DEF Fail, MediaIInv, MediaTypeOK

-----------------------------------------------------------------------------
(* The theorems.                                                           *)

\* Nothing is stored and nobody asks.
LEMMA InitMediaIInv == MediaInit => MediaIInv
<1> SUFFICES ASSUME MediaInit PROVE MediaIInv
  OBVIOUS
<1>1. MediaTypeOK
  BY DEF MediaInit, MediaTypeOK, Steps
<1>2. \A row \in Row : ~ Known(row)
  BY DEF MediaInit, Known
<1>3. RowsInv
  BY <1>2 DEF MediaInit, RowsInv, Logos
<1>4. FilesInv
  BY <1>2, MediaAssumption DEF MediaInit, FilesInv, RowsHaveFiles, InUse
<1>5. RoomLeft
  <2>1. Attachments = {} /\ Inserting = {}
    BY DEF MediaInit, Attachments, Inserting
  <2>2. Cardinality(Requests) \in Nat
    BY FS_CardinalityType, MediaAssumption
  <2> QED
    BY <2>1, <2>2, FS_EmptySet, MediaAssumption DEF RoomLeft
<1>6. \A r \in Requests : InPlace(r)
  BY DEF MediaInit, InPlace, Confirming, Replacing, Removing
<1> QED
  BY <1>1, <1>3, <1>4, <1>5, <1>6 DEF MediaIInv

\* Every step keeps the invariant.
LEMMA NextMediaIInv == MediaIInv /\ [MediaNext]_mediaVars => MediaIInv'
<1> SUFFICES ASSUME MediaIInv, [MediaNext]_mediaVars PROVE MediaIInv'
  OBVIOUS
<1>1. CASE CreatePost
  BY <1>1, CreatePostKeeps
<1>2. CASE \E f \in Files, content \in {"accepted", "unacceptable"} : BrowserUpload(f, content)
  BY <1>2, BrowserUploadKeeps
<1>3. ASSUME NEW r \in Requests, PostStep(r) PROVE MediaIInv'
  BY <1>3, BeginOnPostKeeps, SavePostKeeps, FindRowsKeeps, DeleteRowsKeeps, EndsOfPosts
     DEF PostStep
<1>4. ASSUME NEW r \in Requests, AttachmentStep(r) PROVE MediaIInv'
  BY <1>4, SignKeeps, BeginConfirmKeeps, GetResourceKeeps, GetOtherKindKeeps, CountKeeps,
     InsertKeeps DEF AttachmentStep
<1>5. ASSUME NEW r \in Requests, LogoStep(r) PROVE MediaIInv'
  BY <1>5, BeginUploadKeeps, FindLogoKeeps, SaveLogoKeeps, WriteLogoKeeps, InsertLogoKeeps
     DEF LogoStep
<1>6. ASSUME NEW r \in Requests, RemovalStep(r) \/ Fail(r) PROVE MediaIInv'
  BY <1>6, BeginRemoveKeeps, DeleteRowKeeps, DestroyedKeeps, DestroyKeeps, FailKeeps
     DEF RemovalStep
<1>7. CASE UNCHANGED mediaVars
  BY <1>7, NoRequestKeeps DEF mediaVars, MediaIInv, MediaTypeOK
<1> QED
  BY <1>1, <1>2, <1>3, <1>4, <1>5, <1>6, <1>7 DEF MediaNext

LEMMA AlwaysMediaIInv == MediaSpec => []MediaIInv
BY InitMediaIInv, NextMediaIInv, PTL DEF MediaSpec

\* The rows, the files and the requests are of their types.
THEOREM MediaTypeCorrect == MediaSpec => []MediaTypeOK
BY AlwaysMediaIInv, PTL DEF MediaIInv

\* However many confirmations, replacements and removals overlap and fail, a row
\* names a file that was accepted and is still there, unless its confirmation
\* was sent again.
THEOREM FilesThere == MediaSpec => []RowsHaveFiles
BY AlwaysMediaIInv, PTL DEF MediaIInv, FilesInv

\* Confirmations that count before any of them inserts go over the cap, by one
\* for each other request at most.
LEMMA RoomLeftCaps == MediaIInv => CapWithinOverlap
<1> SUFFICES ASSUME MediaIInv PROVE CapWithinOverlap
  OBVIOUS
<1>1. IsFiniteSet(Inserting) /\ IsFiniteSet(Attachments)
  BY FS_Subset, MediaAssumption DEF Inserting, MediaIInv, RoomLeft
<1>2. /\ Cardinality(Inserting) \in Nat /\ Cardinality(Attachments) \in Nat
      /\ Cardinality(Requests) \in Nat /\ MaxItems \in Nat
  BY <1>1, FS_CardinalityType, MediaAssumption
<1> QED
  BY <1>2 DEF MediaIInv, RoomLeft, CapWithinOverlap

\* The cap is exceeded by no more than the confirmations that overlap, whatever
\* else is uploaded, removed or replaced.
THEOREM CapKept == MediaSpec => []CapWithinOverlap
BY AlwaysMediaIInv, RoomLeftCaps, PTL

\* The removal of a post leaves no attachment that it found, unless somebody
\* sent it again to be confirmed.
LEMMA RemovesAll == MediaIInv => RemovalLeavesNone
BY DEF MediaIInv, InPlace, RemovalLeavesNone

\* Whatever is confirmed or removed meanwhile, the removal of a post leaves none
\* of the attachments that it found, unless one was sent to be confirmed again.
THEOREM RemovalComplete == MediaSpec => []RemovalLeavesNone
BY AlwaysMediaIInv, RemovesAll, PTL
=============================================================================
