SPECIFICATION PublicSpec
CONSTANTS
  Orgs = {o1}
  Edits = {e1}
  Admins = {a1, a2}
  MaxSubmissions = 2
  NoOrg = NoOrg
  Ours = o1
  Rows = {x1, x2}
  LastDay = 2
  PageSize = 1
SYMMETRY Symmetry
INVARIANTS
  OneMailPerSubmission
  ReasonIffRejected
  PublishedIsValidated
  FeedIsWhole
PROPERTIES
  ReviewSpec
  PageAgrees
