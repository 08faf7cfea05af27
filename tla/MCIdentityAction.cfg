SPECIFICATION Spec
CONSTANTS
  w1 = w1
  w2 = w2
  m1 = m1
  m2 = m2
  a1 = a1
  a2 = a2
  i1 = i1
  i2 = i2
  NoAction = NoAction
  NoRequest = NoRequest
  NoJob = NoJob
  Workers <- BothWorkers
  Admins <- OneAdmin
  Actions <- BothActions
  Identities <- OneIdentity
  Biometric <- OneIdentity
  Bundled <- OneIdentity
  Kinds = {"migrate_users", "archive_export", "archive_restore"}
  ClaimLimit = 1
  MaxConsents = 1
  MaxFaults = 1
SYMMETRY Symmetric
INVARIANTS
  ClaimsReviewed
  SuccessIsReal
PROPERTIES
  WithdrawnConsentStops
