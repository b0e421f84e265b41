SPECIFICATION Spec
CONSTANTS
  Configs <- MCConfigs
  Pools = {"a", "b", "c"}
  PoolSocket <- MCPoolSocket
  CoreSocket <- MCCoreSocket
  PhysicalSockets = {0, 1}
  DeviceSockets <- MCDeviceSockets
  MaxRxQueues = 2
  MaxTxQueues = 2
  U16 = 6
  DescLimits <- MCDescLimits
  Capacities = {4, 13}
  MaxPorts = 2
INVARIANTS
  TypeOK
  CoresKnown
  QueuesExact
CHECK_DEADLOCK FALSE
