SPECIFICATION Spec
CONSTANTS
  Persons = {owner, p1, p2}
  Owner = owner
  Invitations = {i1}
  Requests = {r1, r2, r3}
  ASSIGNABLE_ROLES = {"admin", "voluntario"}
  NoOne = NoOne
SYMMETRY Symmetry
INVARIANTS
  OwnerStands
  AcceptedHasJoined
