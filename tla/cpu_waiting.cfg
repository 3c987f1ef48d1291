CONSTANTS
  N = 2
  MAX_TIME = 7
  MAX_IO_EVENTS = 1
  MaxArrival = 1
  MaxBurst = 2
  MaxIoBurst = 1
  Workloads <- MCWorkloads
SPECIFICATION CpuSpec
INVARIANT WaitingAsDocumented
