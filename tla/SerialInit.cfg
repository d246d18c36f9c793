\* epic_serial_init is called with interrupts already enabled, as a program
\* that calls epic_tick_init first does.
SPECIFICATION Spec
CONSTANTS
  SZ = 2
  MaxTx = 0
  MaxRx = 3
  MaxLen = 1
  Latency = 1
  GieBeforeInit = TRUE
  AppWaits = FALSE
PROPERTY RxInOrder
