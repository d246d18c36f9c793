\* The program also waits inside write and flush with interrupts enabled.
SPECIFICATION Spec
CONSTANTS
  SZ = 4
  MaxTx = 7
  MaxRx = 0
  MaxLen = 7
  Latency = 1
  GieBeforeInit = FALSE
  AppWaits = TRUE
PROPERTY TxFifo
