CONSTANTS
  u1 = u1
  u2 = u2
  e1 = e1
  c1 = c1
  c2 = c2
  Users <- TwoUsers
  Employees <- OneEmployee
  Calls <- BothCalls
  Days <- Dates
  Versions <- OneVersion
  Minutes <- SomeMinutes
  YearSpans <- NextYears
  PeriodSpans <- NextPeriods
  WorkDays <- Worked
  NewItems <- NewFund
  NewProfiles <- NewSalary
  NewValues <- Tenth
  NewRules <- OwnRule
  NewPolicies <- HalfOrShared
  First <- Tables
  MaxIncome = 5
  MaxWrites = 4
  MaxOverlaps = 1
  NoUser = NoUser
  NoEmployee = NoEmployee
  NoRecord = NoRecord
  NoReview = NoReview
  NoLine = NoLine
  NoCall = NoCall

SPECIFICATION Spec
SYMMETRY Symmetric
INVARIANTS
  YearsSettled
  PayJustified
  EarningMorePays

CHECK_DEADLOCK FALSE
