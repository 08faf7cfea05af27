SPECIFICATION FairSpec
CONSTANTS
  w1 = w1
  w2 = w2
  NoOperation = NoOperation
  Workers <- BothWorkers
  Devices <- TwoDevices
  Operations <- OneOperation
  Types = {"immediate_pull"}
  Adapters = {"ready", "broken"}
  Service = TRUE
  ClaimLimit = 1
  DeviceLimit = 2
  MaxChanges = 1
  MaxFaults = 1
INVARIANTS
  ClaimsExclusive
PROPERTIES
  OperationsFinish
  DueDevicesAttempted
