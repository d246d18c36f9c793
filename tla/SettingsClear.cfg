\* A compare event of another source while a save clears EEIF.
SPECIFICATION Spec
CONSTANTS
  Size <- MCSize
  Byte <- MCByte
  Blank = 255
  Payloads <- MCPayloads
  Default <- MCDefault
  Crc <- MCCrc
  None = None
  Eeie = FALSE
  MaxSaves = 1
  MaxCrashes = 0
  MaxEvents = 1
INVARIANT EventsKept
