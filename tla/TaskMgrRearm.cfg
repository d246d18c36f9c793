\* A tick may come at any point of the scan.
SPECIFICATION Spec
CONSTANTS
  MaxTasks = 2
  Periods = {0, 2}
  Priorities = {1}
  MaxCalls = 2
  TickRearms = TRUE
INVARIANT CallsLiveTask
