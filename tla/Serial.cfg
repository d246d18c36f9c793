\* The transmitter and the receiver as the tests drive them: waiting calls
\* only while GIE is clear, interrupts enabled after epic_serial_init.
SPECIFICATION Spec
CONSTANTS
  SZ = 2
  MaxTx = 4
  MaxRx = 3
  MaxLen = 3
  Latency = 2
  GieBeforeInit = FALSE
  AppWaits = FALSE
INVARIANTS
  TypeOK
  FlushComplete
  RxAccounted
PROPERTIES
  TxFifo
  TxDelivered
  CallsReturn
  RxInOrder
