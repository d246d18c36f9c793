\* A prompt and a late slave, with and without a driver enable pin.
SPECIFICATION Spec
CONSTANTS
  Requests <- MCRequests
  MaxAdu = 8
  NumCoils = 2
  NumRegs = 2
  Ring = 3
  TxRing = 3
  Wrapped = 5
  Adu = 3
  Whole = 2
  Big = 4
  Reply = 4
  Ms = 2
  T35 = 2
  Pause = 0
  Gap = 7
  Timeout = 11
  Prompt = 0
  Late = 5
  CallTime = 1
  MaxAsk = 2
INVARIANTS
  TypeOK
  DriverHeld
  NoCollision
PROPERTIES
  ServesOnce
  NeverCut
  InTime
  Drains
