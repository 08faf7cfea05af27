SPECIFICATION FairSpec
CONSTANTS
  w1 = w1
  w2 = w2
  NoOperation = NoOperation
  Workers <- BothWorkers
  Devices <- TwoDevices
  Operations <- OneOperation
  Types = {"diagnostics"}
  Adapters = {"ready", "unknown", "broken"}
  Service = FALSE
  ClaimLimit = 1
  DeviceLimit = 1
  MaxChanges = 1
  MaxFaults = 1
PROPERTIES
  OperationsFinishUnlessBroken
  LimitedDevicesTried
