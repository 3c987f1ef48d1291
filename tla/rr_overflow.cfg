CONSTANTS
  N = 2
  MAX_TIME = 4
  MAX_IO_EVENTS = 1
  MaxArrival = 0
  MaxBurst = 5
  MaxIoBurst = 0
  Quanta = {1}
  Workloads <- MCWorkloads
SPECIFICATION Spec
INVARIANT NeverExits
