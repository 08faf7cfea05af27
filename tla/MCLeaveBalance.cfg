CONSTANTS
  e1 = e1
  u1 = u1
  u2 = u2
  c1 = c1
  c2 = c2
  Employees <- OneEmployee
  Users <- BothUsers
  Calls <- BothCalls
  Days <- Dates
  Years <- TwoYears
  YearOf <- YearOfDate
  Weekday <- WeekdayOfDate
  Self <- EmployeeOf
  OnStaff <- Staff
  TypeOf <- Types
  Entitlement = 2
  HalfDays = TRUE
  WeekendChoices <- Weekends
  HolidayDates <- Holidays
  HolidayChoices <- HolidayStates
  Periods <- PeriodSet
  RuleChoices <- Closing
  Agreed <- CarryRule
  Standing <- FirstYear
  Announced <- OptionalHoliday
  AmountChoices <- AmountSet
  MaxUses = 2
  MaxSetups = 1
  MaxOverlaps = 1
  NoEmployee = NoEmployee
  NoAllocation = NoAllocation
  NoUse = NoUse
  NoCall = NoCall
  NoCap = NoCap

SPECIFICATION Spec
SYMMETRY Symmetric
INVARIANTS
  NeverOverdrawn
  ApprovalsCovered
  OneUsePerDay
  DecisionsAgree
PROPERTIES
  AnnualIdempotent

CHECK_DEADLOCK FALSE
