SPECIFICATION Spec
CONSTANTS
  FirstDay = 6
  LastDay = 7
  WeekdayChoices <- Weekends
  Requests = {r1, r2}
  NoDate = NoDate
SYMMETRY Symmetry
INVARIANTS
  EndedIffInactive
  ListAgrees
PROPERTIES
  AttendanceStands
  EndedOnStands
