SPECIFICATION FairSpec
CONSTANTS
  store = store
  escaped = escaped
  Entries = {e1, e2}
  Editors = {m1, m2}
  Searchers = {m1, m2}
  Names = {store, escaped}
  Lower <- MCLower
  Like <- MCLike
  LastDay = 1
  Times = {8, 12}
  Schedules <- MCSchedules
  NoEntry = NoEntry
  NoName = NoName
  MIN_INTERVAL = 1
  TIMEOUT = 2
INVARIANTS
  TypeOK
  ScheduleMakesSense
PROPERTIES
  NamesUnique
  ActiveStands
  CallsSpaced
  SearchesAnswered
