------------------------- MODULE OrganizationReview -------------------------
(***************************************************************************)
(* What the review of organizations promises (DOMAIN.md, section 4): an    *)
(* organization is born pending, a platform admin validates or rejects it, *)
(* only a rejected one is pending again, and each of these decisions is    *)
(* told to the owner once at most.  What the code adds to it is marked: an *)
(* edit of the owner may bring back what it read before.                   *)
(***************************************************************************)
EXTENDS Naturals

CONSTANT Orgs

VARIABLES
  status,   \* of each organization, `absent` before it exists
  untold,   \* decisions the owner has not been told of yet
  told,     \* decisions the owner was told of
  overwritten  \* organizations whose status an edit brought back

vars == <<status, untold, told, overwritten>>

Init ==
  /\ status = [o \in Orgs |-> "absent"]
  /\ untold = [o \in Orgs |-> 0]
  /\ told = [o \in Orgs |-> 0]
  /\ overwritten = {}

Submit(o) ==
  /\ status[o] \in {"absent", "rejected"}
  /\ status' = [status EXCEPT ![o] = "pending"]
  /\ UNCHANGED <<untold, told, overwritten>>

Decide(o) ==
  /\ status[o] = "pending"
  /\ status' \in {[status EXCEPT ![o] = s] : s \in {"validated", "rejected"}}
  /\ untold' = [untold EXCEPT ![o] = @ + 1]
  /\ UNCHANGED <<told, overwritten>>

\* The mail may be lost; it is not sent again.
Tell(o) ==
  /\ untold[o] > 0
  /\ untold' = [untold EXCEPT ![o] = @ - 1]
  /\ told' \in {told, [told EXCEPT ![o] = @ + 1]}
  /\ UNCHANGED <<status, overwritten>>

\* Even so nobody is rejected but by an admin, and nobody told of it.
Overwrite(o) ==
  /\ status[o] # "absent"
  /\ overwritten' = overwritten \cup {o}
  /\ status' \in {[status EXCEPT ![o] = s] : s \in {"pending", "validated", status[o]}}
  /\ UNCHANGED <<untold, told>>

Next == \E o \in Orgs : Submit(o) \/ Decide(o) \/ Tell(o) \/ Overwrite(o)

Spec == Init /\ [][Next]_vars
=============================================================================
