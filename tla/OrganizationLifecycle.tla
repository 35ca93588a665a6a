----------------------- MODULE OrganizationLifecycle -----------------------
(***************************************************************************)
(* The organizations of one owner, from their creation to the decision of  *)
(* the platform admins (organization.service.ts).  The owner's edits read  *)
(* the organization, change it in memory and save it; the admins decide    *)
(* with a conditional UPDATE, then read the organization and its owner and *)
(* send a mail.                                                            *)
(***************************************************************************)
EXTENDS Naturals, FiniteSets, TypeOrmSave

CONSTANTS
  Orgs,            \* rows of `organizations` the owner may create
  Edits,           \* the owner's requests to upsertMine in flight
  Admins,          \* the requests of platform admins in flight
  MaxSubmissions,  \* bound on the times an organization becomes pending by request
  NoOrg            \* the request has found no organization

ASSUME LifecycleAssumption ==
  /\ NoOrg \notin Orgs
  /\ IsFiniteSet(Admins)
  /\ MaxSubmissions \in Nat \ {0}

VARIABLES
  org,          \* the rows; the owner's membership is inserted with the row
  epc,          \* where each edit is
  target,       \* the organization it edits
  copy,         \* its copy of the row
  cols,         \* the columns its save is about to write
  apc,          \* where each admin's request is
  decided,      \* the organization it decided
  mails,        \* decisions mailed to the owner
  submissions,  \* times each organization became pending (history)
  stale,        \* edits whose row changed since they read it (history)
  overwritten   \* organizations that such an edit has written over (history)

editVars == <<epc, target, copy, cols>>
historyVars == <<submissions, stale, overwritten>>
vars == <<org, editVars, apc, decided, mails, historyVars>>

Statuses == {"pending", "validated", "rejected"}

Organization == [status : Statuses \cup {"absent"}, rejectReason : BOOLEAN]
NoRow == [status |-> "absent", rejectReason |-> FALSE]

TypeOK ==
  /\ org \in [Orgs -> Organization]
  /\ epc \in [Edits -> {"idle", "load", "check", "create", "save", "write"}]
  /\ target \in [Edits -> Orgs \cup {NoOrg}]
  /\ copy \in [Edits -> Organization]
  /\ cols \in [Edits -> SUBSET {"status", "rejectReason"}]
  /\ apc \in [Admins -> {"idle", "reload", "notify"}]
  /\ decided \in [Admins -> Orgs \cup {NoOrg}]
  /\ mails \in [Orgs -> Nat]
  /\ submissions \in [Orgs -> Nat]
  /\ stale \subseteq Edits
  /\ overwritten \subseteq Orgs

Init ==
  /\ org = [o \in Orgs |-> NoRow]
  /\ epc = [e \in Edits |-> "idle"]
  /\ target = [e \in Edits |-> NoOrg]
  /\ copy = [e \in Edits |-> NoRow]
  /\ cols = [e \in Edits |-> {}]
  /\ apc = [a \in Admins |-> "idle"]
  /\ decided = [a \in Admins |-> NoOrg]
  /\ mails = [o \in Orgs |-> 0]
  /\ submissions = [o \in Orgs |-> 0]
  /\ stale = {}
  /\ overwritten = {}

-----------------------------------------------------------------------------
(* upsertMine.                                                             *)

Owned == {o \in Orgs : org[o].status # "absent"}

\* findOwnedOrganization reads the memberships first; with more than one, any
\* may be the first.  Without one the request goes on to create it.
FindOwned(e) ==
  /\ epc[e] = "idle"
  /\ \/ \E o \in Owned :
          /\ epc' = [epc EXCEPT ![e] = "load"]
          /\ target' = [target EXCEPT ![e] = o]
     \/ /\ Owned = {}
        /\ epc' = [epc EXCEPT ![e] = "check"]
        /\ UNCHANGED target
  /\ UNCHANGED <<org, copy, cols, apc, decided, mails, historyVars>>

\* Mutant of Edited: the reason of the rejection stays.
EditedKeepsReason(row) ==
  IF row.status = "rejected" THEN [row EXCEPT !.status = "pending"] ELSE row

\* The row and the changes to it: a rejected organization is pending again.
Edited(row) ==
  IF row.status = "rejected" THEN [status |-> "pending", rejectReason |-> FALSE] ELSE row

Load(e) ==
  /\ epc[e] = "load"
  /\ submissions[target[e]] < MaxSubmissions
  /\ copy' = [copy EXCEPT ![e] = Edited(org[target[e]])]
  /\ epc' = [epc EXCEPT ![e] = "save"]
  /\ UNCHANGED <<org, target, cols, apc, decided, mails, historyVars>>

\* The comparing read of the save.
Save(e) ==
  /\ epc[e] = "save"
  /\ cols' = [cols EXCEPT ![e] = Dirty(copy[e], org[target[e]])]
  /\ epc' = [epc EXCEPT ![e] = "write"]
  /\ UNCHANGED <<org, target, copy, apc, decided, mails, historyVars>>

EndEdit(e) ==
  /\ epc' = [epc EXCEPT ![e] = "idle"]
  /\ target' = [target EXCEPT ![e] = NoOrg]
  /\ copy' = [copy EXCEPT ![e] = NoRow]
  /\ cols' = [cols EXCEPT ![e] = {}]
  /\ UNCHANGED <<apc, decided, mails>>

\* The edits that hold a copy of o.
Holding(o) == {e \in Edits : epc[e] \in {"save", "write"} /\ target[e] = o}

\* The row of o becomes `row`; submissions records its returns to pending.
SetRow(o, row) ==
  /\ org' = [org EXCEPT ![o] = row]
  /\ submissions' = IF row.status = "pending" /\ org[o].status # "pending"
                    THEN [submissions EXCEPT ![o] = @ + 1] ELSE submissions

Write(e) ==
  /\ epc[e] = "write"
  /\ SetRow(target[e], Written(org[target[e]], copy[e], cols[e]))
  /\ EndEdit(e)
  /\ stale' = (IF org' = org THEN stale ELSE stale \cup Holding(target[e])) \ {e}
  /\ overwritten' = IF org' # org /\ e \in stale THEN overwritten \cup {target[e]} ELSE overwritten

\* The second read of the memberships: whoever has one by now is no newcomer.
Check(e) ==
  /\ epc[e] = "check"
  /\ \/ Owned = {} /\ epc' = [epc EXCEPT ![e] = "create"]
     \/ Owned # {} /\ epc' = [epc EXCEPT ![e] = "idle"]
  /\ UNCHANGED <<org, target, copy, cols, apc, decided, mails, historyVars>>

\* Mutant of CreateMine: nobody has to review the organization.
CreateValidated(e) ==
  /\ epc[e] = "create"
  /\ \E o \in Orgs \ Owned : SetRow(o, [status |-> "validated", rejectReason |-> FALSE])
  /\ EndEdit(e)
  /\ UNCHANGED <<stale, overwritten>>

\* createMine: the organization, the owner's membership and the initial types in
\* one transaction.
CreateMine(e) ==
  /\ epc[e] = "create"
  /\ \E o \in Orgs \ Owned : SetRow(o, [status |-> "pending", rejectReason |-> FALSE])
  /\ EndEdit(e)
  /\ UNCHANGED <<stale, overwritten>>

\* A query fails.  Whoever has no organization left to create gives up here too.
FailEdit(e) ==
  /\ epc[e] # "idle"
  /\ EndEdit(e)
  /\ stale' = stale \ {e}
  /\ UNCHANGED <<org, submissions, overwritten>>

-----------------------------------------------------------------------------
(* validate and reject.                                                    *)

Decision(s) == [status |-> s, rejectReason |-> s = "rejected"]

\* Mutant of TransitionFromPending: the UPDATE does not ask for the status.
TransitionFromAny(a, o, s) ==
  /\ apc[a] = "idle"
  /\ org[o].status # "absent"
  /\ org' = [org EXCEPT ![o] = Decision(s)]
  /\ apc' = [apc EXCEPT ![a] = "reload"]
  /\ decided' = [decided EXCEPT ![a] = o]
  /\ stale' = stale \cup Holding(o)
  /\ UNCHANGED <<editVars, mails, submissions, overwritten>>

\* `UPDATE ... WHERE id = ? AND status = 'pending'`; one that affects no row
\* changes nothing and answers 404 or 409.
TransitionFromPending(a, o, s) ==
  /\ apc[a] = "idle"
  /\ org[o].status = "pending"
  /\ org' = [org EXCEPT ![o] = Decision(s)]
  /\ apc' = [apc EXCEPT ![a] = "reload"]
  /\ decided' = [decided EXCEPT ![a] = o]
  /\ stale' = stale \cup Holding(o)
  /\ UNCHANGED <<editVars, mails, submissions, overwritten>>

\* requireOrganization reads the row again, for the mail.
Reload(a) ==
  /\ apc[a] = "reload"
  /\ apc' = [apc EXCEPT ![a] = "notify"]
  /\ UNCHANGED <<org, editVars, decided, mails, historyVars>>

EndDecision(a) ==
  /\ apc' = [apc EXCEPT ![a] = "idle"]
  /\ decided' = [decided EXCEPT ![a] = NoOrg]
  /\ UNCHANGED <<org, editVars, historyVars>>

\* Best effort: a mail that fails is logged and forgotten.
NotifyOwner(a) ==
  /\ apc[a] = "notify"
  /\ mails' \in {mails, [mails EXCEPT ![decided[a]] = @ + 1]}
  /\ EndDecision(a)

\* A query after the UPDATE fails: the decision stands, nobody is told.
FailDecision(a) ==
  /\ apc[a] # "idle"
  /\ EndDecision(a)
  /\ UNCHANGED mails

-----------------------------------------------------------------------------
Edit(e) ==
  FindOwned(e) \/ Load(e) \/ Save(e) \/ Write(e) \/ Check(e) \/ CreateMine(e) \/ FailEdit(e)

Administer(a) ==
  \/ \E o \in Orgs, s \in {"validated", "rejected"} : TransitionFromPending(a, o, s)
  \/ Reload(a) \/ NotifyOwner(a) \/ FailDecision(a)

Next == (\E e \in Edits : Edit(e)) \/ (\E a \in Admins : Administer(a))

Spec == Init /\ [][Next]_vars

-----------------------------------------------------------------------------
(* Properties.                                                             *)

\* The admins that decided o and may still mail its owner.
Deciding(o) == {a \in Admins : decided[a] = o}

\* "Dos platform admins decidiendo la misma organizacion a la vez" are never two
\* that win: each time an organization became pending allows one decision and
\* one mail, counting the mails that are still on their way.  It holds however
\* the owner's saves overlap.
OneMailPerSubmission ==
  \A o \in Orgs :
    mails[o] + Cardinality(Deciding(o)) + (IF org[o].status = "pending" THEN 1 ELSE 0)
      <= submissions[o]

\* The review as DOMAIN.md states it, and the edits that write over it: those that
\* read the row before a decision, or before another edit, wrote it.
Review ==
  INSTANCE OrganizationReview WITH
    status <- [o \in Orgs |-> org[o].status],
    untold <- [o \in Orgs |-> Cardinality(Deciding(o))],
    overwritten <- overwritten,
    told <- mails

ReviewSpec == Review!Spec

\* A rejected organization is the only one with a reason, and it always has it,
\* until such an edit writes.
ReasonIffRejected ==
  \A o \in Orgs \ overwritten : org[o].rejectReason <=> org[o].status = "rejected"

=============================================================================
