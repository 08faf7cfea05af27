CONSTANTS
  u1 = u1
  u2 = u2
  u3 = u3
  a = a
  b = b
  x = x
  ip = ip
  e1 = e1
  n1 = n1
  n2 = n2
  n3 = n3
  s1 = s1
  c1 = c1
  c2 = c2
  Users <- ThreeUsers
  Names <- ThreeNames
  Clients <- Addresses
  Employees <- OneEmployee
  Nodes <- ThreeNodes
  Shifts <- OneShift
  Calls <- BothCalls
  Days <- Dates
  Periods <- TwoPeriods
  Scopes <- BothScopes
  LoginAttempts = 2
  Accounts <- FirstAccounts
  LoggedIn <- BothIn
  Failed <- OneFailed
  Appointed <- FirstRoles
  Tree <- FirstTree
  Staff <- FirstStaff
  MaxWrites = 3
  MaxOverlaps = 1
  NoUser = NoUser
  NoEmployee = NoEmployee
  NoNode = NoNode
  NoShift = NoShift
  NoCall = NoCall
  Missing = Missing

SPECIFICATION Spec
SYMMETRY Symmetric
INVARIANT LinksCurrent

CHECK_DEADLOCK FALSE
