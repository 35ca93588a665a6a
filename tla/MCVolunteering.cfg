SPECIFICATION FairSpec
CONSTANTS
  Managers = {m1, m2}
  Volunteers = {u1}
  Candidates = {q1}
  MaxCapacity = 2
  EditOps = {"update", "cancel"}
  NoOne = NoOne
INVARIANTS
  OneSeatTakerAtATime
PROPERTIES
  SeatsStand
  NoSeatOnceCancelled
  DecisionsEnd
