\* Three payloads and a default, resets at any point, completion polled.
SPECIFICATION Spec
CONSTANTS
  Size <- MCSize
  Byte <- MCByte
  Blank = 255
  Payloads <- MCPayloads
  Default <- MCDefault
  Crc <- MCCrc
  None = None
  Eeie = FALSE
  MaxSaves = 3
  MaxCrashes = 2
  MaxEvents = 1
INVARIANTS
  TypeOK
  DefaultPersisted
PROPERTIES
  StoreKept
  SaveReturns
  CutWaits
