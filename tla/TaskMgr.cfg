\* Two slots, one-shots and periods of one and two ticks, two priorities.
SPECIFICATION Spec
CONSTANTS
  MaxTasks = 2
  Periods = {0, 1, 2}
  Priorities = {1, 2}
  MaxCalls = 4
  TickRearms = FALSE
INVARIANTS
  TypeOK
  CallsLiveTask
  PriorityOrder
  RoundTakesAll
PROPERTIES
  FiresOnTime
  DueRuns
