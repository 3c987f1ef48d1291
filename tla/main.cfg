CONSTANTS
  N = 2
  MAX_TIME = 7
  MAX_IO_EVENTS = 2
  AlwaysRun = 1
  MaxArrival = 1
  MaxBurst = 3
  MaxIoBurst = 2
  Workloads <- MCWorkloads
SPECIFICATION MainSpec
INVARIANTS
  TimelineIsLegal
  MetricsMatchTimeline
  StatsMatchTimeline
  EnoughTimeFinishesAll
  BestAgree
