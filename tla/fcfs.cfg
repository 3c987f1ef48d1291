CONSTANTS
  N = 3
  MAX_TIME = 7
  MAX_IO_EVENTS = 1
  MaxArrival = 1
  MaxBurst = 3
  MaxIoBurst = 2
  Workloads <- MCWorkloads
SPECIFICATION FcfsSpec
INVARIANTS
  QueueInReadyOrder
  NeverOverflows
PROPERTIES
  CpuSpec
