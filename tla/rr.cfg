CONSTANTS
  N = 3
  MAX_TIME = 7
  MAX_IO_EVENTS = 1
  MaxArrival = 1
  MaxBurst = 3
  MaxIoBurst = 1
  Quanta = {0, 2}
  Workloads <- MCWorkloads
SPECIFICATION Spec
INVARIANTS
  QueueInReadyOrder
  StateMatchesPcb
  BoundedWait
  PushesArePaidFor
PROPERTIES
  CpuSpec
  SliceIsWhole
  Ends
