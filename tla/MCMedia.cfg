SPECIFICATION MediaSpec
CONSTANTS
  Files = {f1, f2, f3}
  Requests = {r1, r2}
  MaxItems = 1
  Mistakes = TRUE
  NoFile = NoFile
SYMMETRY Symmetry
INVARIANTS
  MediaTypeOK
  RowsHaveFiles
  CapWithinOverlap
  RemovalLeavesNone
\* Once the public ids are used and the post is removed, nothing happens.
CHECK_DEADLOCK FALSE
