CONSTANTS
  Clients = {"a", "b"}
  Ver <- MCVer
  Requests <- MCRequests
  Devices <- MCDevices
  NStubs = 2
  MaxFaults = 1
  Jobs <- MCJobs
  Big = {"HUGE", "huge"}
  Longer = {}
  DeviceEnv <- MCDeviceEnv
  MaxMeddles = 2
SPECIFICATION MCSpec
CHECK_DEADLOCK FALSE
INVARIANT UserOverrides
