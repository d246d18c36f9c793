\* The software UART looped back, with writes that leave the stop bit alone.
SPECIFICATION Spec
CONSTANTS
  SZ = 2
  Bits = 2
  Bit = 4
  Lead = 2
  Correction = 3
  Work = 2
  Paths = {TRUE, FALSE}
  Latency = 1
  CallTime = 1
  Wrap = 8
  MaxTx = 3
  MaxFaults = 1
  WritesAnyTime = FALSE
INVARIANTS
  TypeOK
  LossCounted
  NoNullChannel
PROPERTIES
  EndToEnd
  ReadInOrder
  ErrorCountReal
  AllArrive
