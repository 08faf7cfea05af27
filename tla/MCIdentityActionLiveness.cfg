SPECIFICATION FairSpec
CONSTANTS
  w1 = w1
  w2 = w2
  m1 = m1
  m2 = m2
  a1 = a1
  a2 = a2
  i1 = i1
  i2 = i2
  NoAction = NoAction
  NoRequest = NoRequest
  NoJob = NoJob
  Workers <- OneWorker
  Admins <- OneAdmin
  Actions <- OneAction
  Identities <- BothIdentities
  Biometric <- OneIdentity
  Bundled <- BothIdentities
  Kinds = {"push_users", "migrate_users", "archive_export"}
  ClaimLimit = 1
  MaxConsents = 1
  MaxFaults = 1
PROPERTIES
  ResultsKept
  ActionsDecided
