SPECIFICATION FairSpec
CONSTANTS
  w1 = w1
  w2 = w2
  NoOperation = NoOperation
  Workers <- BothWorkers
  Devices <- TwoDevices
  Operations <- OneOperation
  Types = {"immediate_pull"}
  Adapters = {"ready", "broken"}
  Service = FALSE
  ClaimLimit = 1
  DeviceLimit = 2
  MaxChanges = 0
  MaxFaults = 0
PROPERTY
  OperationsFinish
