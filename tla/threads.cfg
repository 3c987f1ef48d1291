CONSTANTS
  NUM_THREADS = 3
  NUM_TASKS = 3
  Words = 3
  MaxSpurious = 2
SPECIFICATION ExerciseSpec
CHECK_DEADLOCK FALSE
INVARIANTS
  CountIsRight
  ReportsWhenDone
  NoLostWakeup
PROPERTY MainReports
