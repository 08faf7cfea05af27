SPECIFICATION Spec
CONSTANTS
  u1 = u1
  u2 = u2
  c1 = c1
  c2 = c2
  s1 = s1
  NoOne = NoOne
  NoSheet = NoSheet
  NoRow = NoRow
  NoCall = NoCall
  NoShift = NoShift
  NoTime = NoTime
  DayLength = 3
  LastDay = 2
  Users <- BothUsers
  Calls <- BothCalls
  Sheets <- OneSheet
  Rows <- SomeRows
  Faulty = {}
  Claims <- SomeClaims
  Sightings <- SomeSightings
  Shifts <- OneShift
  FirstShift <- Night
  Contexts <- BothContexts
  FirstContext <- Workday
  Policies <- BothPolicies
  MaxEvents = 2
  MaxLocks = 2
  MaxRevision = 2
  MaxChanges = 1
  MaxCalls = 4
  MaxOverlaps = 1
SYMMETRY Symmetric
INVARIANTS
  NobodyAlone
  ImportedOnce
  LocksDisjoint
  AnswerIsCurrent
  EvidenceCounts
PROPERTIES
  LockedDayFrozen
CHECK_DEADLOCK FALSE
