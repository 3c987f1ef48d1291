CONSTANTS
  N = 3
  MAX_TIME = 10
  MAX_IO_EVENTS = 3
  INF = 4
  Algs = {"sjf", "srtf", "priority", "preemptive_priority", "aging"}
  Intervals = {0, 1, 2}
  Workloads <- MCWorkloads
SPECIFICATION Spec
INVARIANTS
  ScanFindsBest
  SwitchesAreJustified
  AgesMatchTimeline
  AgingBoundsWait
  SrtfIsOptimal
PROPERTY CpuSpec
