\* Write called at any moment, a stop bit on the line included.
SPECIFICATION Spec
CONSTANTS
  SZ = 2
  Bits = 2
  Bit = 4
  Lead = 2
  Correction = 3
  Work = 2
  Paths = {TRUE, FALSE}
  Latency = 1
  CallTime = 1
  Wrap = 8
  MaxTx = 3
  MaxFaults = 0
  WritesAnyTime = TRUE
PROPERTY EndToEnd
