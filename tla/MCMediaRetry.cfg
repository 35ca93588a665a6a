SPECIFICATION MediaSpec
CONSTANTS
  Files = {f1, f2}
  Requests = {r1, r2}
  MaxItems = 1
  Mistakes = FALSE
  NoFile = NoFile
SYMMETRY Symmetry
INVARIANTS
  AttachedStaysStored
\* Once the public ids are used and the post is removed, nothing happens.
CHECK_DEADLOCK FALSE
