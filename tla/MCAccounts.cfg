SPECIFICATION Spec
CONSTANTS
  Requests = {r1, r2}
  Links = {l1, l2}
  Passwords = {p1, p2}
  NoLink = NoLink
  NoPassword = NoPassword
SYMMETRY Symmetry
INVARIANTS
  ProvedFirst
PROPERTIES
  StaysVerified
  LinksWorkOnce
  LastPasswordStands
