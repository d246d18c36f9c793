--------------------------- MODULE SettingsProofs ---------------------------
(***************************************************************************)
(* Proofs about a blob of lib/settings of any size, with any payloads and  *)
(* any number of saves and resets.  What a save that runs to its end has   *)
(* stored does not depend on the checksum.  That a load never returns a    *)
(* torn blob does, and is proved for a checksum that tells the torn blobs  *)
(* from the saved ones.                                                    *)
(***************************************************************************)
EXTENDS Settings, TLAPS

(* The call: a payload is at hand while a save is under way, and the index *)
(* of the byte stays below Size + 2 but for the last test of the loop.     *)
Call ==
  /\ pc \in {"idle", "copy", "defaulted"} \/ Saving
  /\ n \in 0 .. Size + 2
  /\ Saving => buf \in known
  /\ ~Saving => buf = None
  /\ pc \in {"unlock", "wait", "clear", "store"} => n < Size + 2

Bytes ==
  /\ ee \in [0 .. Size + 1 -> 0 .. 255]
  /\ \A k \in 0 .. Size - 1 : ee[k] \in Byte

History ==
  /\ known \subseteq Payloads \cup {Default}
  /\ loaded \in Content \cup {None}

Flags ==
  /\ forDefault \in BOOLEAN /\ ok \in BOOLEAN /\ pir \in BOOLEAN
  /\ wrerr \in BOOLEAN /\ cut \in BOOLEAN
  /\ eeif \in BOOLEAN /\ ccpif \in BOOLEAN

Bounded ==
  /\ raised \in 0 .. MaxEvents /\ handled \in Nat
  /\ saves \in 0 .. MaxSaves /\ crashes \in 0 .. MaxCrashes

(* The write cycle: one is in progress only while its save waits for it,   *)
(* it is the cycle of the byte the save is at, and EEIF is down until it   *)
(* has ended.  After a cut unlock there is none, and EEIF stays down.      *)
Cycle ==
  /\ cycle # None => /\ pc = "wait" /\ ~eeif
                     /\ cycle = <<n, Image(buf)[n]>>
  /\ cut => pc \in {"unlock", "wait"} /\ ~eeif /\ cycle = None
  /\ eeif => pc \in {"wait", "clear", "store"}

(* The bytes before the index hold what they were given, and so does the   *)
(* byte at the index once its cycle has ended, if there was one.           *)
Written ==
  /\ Saving => \A k \in 0 .. Size + 1 : k < n => ee[k] = Image(buf)[k]
  /\ pc \in {"wait", "clear", "store"} /\ cycle = None /\ ~cut => ee[n] = Image(buf)[n]

(* The save of a default meets no WRERR; a copy follows a check.           *)
Checked ==
  /\ forDefault => Saving /\ buf = Default /\ ~wrerr
  /\ pc = "copy" => Valid
  /\ pc = "defaulted" => Stored = Default

IInv == Call /\ Bytes /\ History /\ Flags /\ Bounded /\ Cycle /\ Written /\ Checked

(* Every byte of the blob is erased or of a payload that was being saved.  *)
Mixed == \A k \in 0 .. Size + 1 : ee[k] = Blank \/ \E p \in known : ee[k] = Image(p)[k]
Held  == Stored \in known \cup {None}

-----------------------------------------------------------------------------
LEMMA Sizes ==
  /\ Size \in Nat /\ Size >= 1
  /\ \A q \in Payloads \cup {Default} : q \in Content /\ q # None
  /\ MaxSaves \in Nat /\ MaxCrashes \in Nat /\ MaxEvents \in Nat
BY SettingsAssumption

LEMMA Values ==
  /\ Blank \in Byte /\ Byte \subseteq 0 .. 255
  /\ None \notin Content /\ \A q \in Content : Crc(q) \in (0 .. 255) \X (0 .. 255)
  /\ \A k \in 0 .. Size + 1, v \in 0 .. 255 : <<k, v>> # None
BY SettingsAssumption

(* The image of a payload: bytes of the payload, then its trailer.         *)
LEMMA ImageBytes ==
  ASSUME NEW p \in Content
  PROVE  /\ \A k \in 0 .. Size - 1 : Image(p)[k] = p[k] /\ p[k] \in Byte
         /\ Image(p)[Size] = Crc(p)[1] /\ Image(p)[Size + 1] = Crc(p)[2]
         /\ \A k \in 0 .. Size + 1 : Image(p)[k] \in 0 .. 255
<1>1. Crc(p)[1] \in 0 .. 255 /\ Crc(p)[2] \in 0 .. 255
  BY Sizes, Values
<1>2. \A k \in 0 .. Size - 1 : Image(p)[k] = p[k] /\ p[k] \in Byte
  BY Sizes, Values DEF Image, Content
<1>3. Image(p)[Size] = Crc(p)[1] /\ Image(p)[Size + 1] = Crc(p)[2]
  BY Sizes, Values DEF Image
<1>4. ASSUME NEW k \in 0 .. Size + 1
      PROVE  Image(p)[k] \in 0 .. 255
  <2>1. CASE k \in 0 .. Size - 1
    BY <1>2, <2>1, Sizes, Values
  <2>2. CASE k = Size \/ k = Size + 1
    BY <1>1, <1>3, <2>2
  <2> QED BY <2>1, <2>2, Sizes, Values
<1> QED BY <1>2, <1>3, <1>4

(* A blob that holds the image of a payload passes the check, and a load   *)
(* returns that payload.                                                   *)
LEMMA ImageStored ==
  ASSUME NEW p \in Content, \A k \in 0 .. Size + 1 : ee[k] = Image(p)[k]
  PROVE  Valid /\ Stored = p
<1>1. Payload = p
  <2>1. p = [k \in 0 .. Size - 1 |-> p[k]]
    BY DEF Content
  <2>2. \A k \in 0 .. Size - 1 : ee[k] = p[k]
    BY ImageBytes, Sizes, Values
  <2> QED BY <2>1, <2>2 DEF Payload
<1>2. ee[Size] = Crc(p)[1] /\ ee[Size + 1] = Crc(p)[2]
  BY ImageBytes, Sizes, Values
<1>3. Crc(p) = <<Crc(p)[1], Crc(p)[2]>>
  BY Sizes, Values
<1> QED BY <1>1, <1>2, <1>3 DEF Valid, Stored

LEMMA SaveStep ==
  ASSUME IInv, NEW q \in Payloads, Save(q)
  PROVE  IInv'
<1> USE Sizes DEF Save, Begin, eeprom, flags
<1>1. Flags'
  BY DEF IInv, Flags
<1>2. Call'
  BY DEF IInv, Call, Saving
<1>3. Bytes' /\ History' /\ Bounded'
  BY DEF IInv, Bytes, History, Bounded
<1>4. Cycle'
  BY DEF IInv, Cycle
<1>5. Written' /\ Checked'
  BY DEF IInv, Call, Written, Checked, Saving
<1> QED BY <1>1, <1>2, <1>3, <1>4, <1>5 DEF IInv

LEMMA WriteByteStep ==
  ASSUME IInv, WriteByte
  PROVE  IInv'
<1> USE Sizes DEF WriteByte, flags, call
<1>1. Flags'
  BY DEF IInv, Flags
<1>2. Call'
  BY DEF IInv, Call, Saving
<1>3. Bytes' /\ History' /\ Bounded'
  BY DEF IInv, Bytes, History, Bounded
<1>4. Cycle'
  BY DEF IInv, Cycle
<1>5. Written'
  BY DEF IInv, Written, Saving, Image
<1>6. Checked'
  BY DEF IInv, Saving, Checked
<1> QED BY <1>1, <1>2, <1>3, <1>4, <1>5, <1>6 DEF IInv

LEMMA SetWrStep ==
  ASSUME IInv, SetWr
  PROVE  IInv'
<1> USE Sizes DEF SetWr, flags, call
<1>1. Flags'
  BY DEF IInv, Flags
<1>2. Call'
  BY DEF IInv, Call, Saving
<1>3. Bytes' /\ History' /\ Bounded'
  BY DEF IInv, Bytes, History, Bounded
<1>4. Cycle'
  BY DEF IInv, Cycle, Image
<1>5. Written'
  <2>1. n \in 0 .. Size + 1 /\ buf \in Content
    BY DEF IInv, Call, Saving, History
  <2>2. Image(buf)[n] \in 0 .. 255
    BY <2>1, ImageBytes
  <2>3. ~cut' => cycle' # None
    BY <2>1, <2>2, Values
  <2> QED BY <2>3 DEF IInv, Written, Saving, Image
<1>6. Checked'
  BY DEF IInv, Saving, Checked
<1> QED BY <1>1, <1>2, <1>3, <1>4, <1>5, <1>6 DEF IInv

LEMMA WriteRejectedStep ==
  ASSUME IInv, WriteRejected
  PROVE  IInv'
<1> USE Sizes DEF WriteRejected, Return, eeprom, flags
<1>1. Flags'
  BY DEF IInv, Flags
<1>2. Call'
  BY DEF IInv, Call, Saving
<1>3. Bytes' /\ History' /\ Bounded'
  BY DEF IInv, Bytes, History, Bounded
<1>4. Cycle'
  BY DEF IInv, Cycle
<1>5. Written'
  BY DEF Written, Saving
<1>6. Checked'
  BY DEF IInv, Saving, Checked
<1> QED BY <1>1, <1>2, <1>3, <1>4, <1>5, <1>6 DEF IInv

LEMMA WriteWaitStep ==
  ASSUME IInv, WriteWait
  PROVE  IInv'
<1> USE Sizes DEF WriteWait, eeprom, flags, call
<1>1. Flags'
  BY DEF IInv, Flags
<1>2. Call'
  BY DEF IInv, Call, Saving
<1>3. Bytes' /\ History' /\ Bounded'
  BY DEF IInv, Bytes, History, Bounded
<1>4. Cycle'
  BY DEF IInv, Cycle
<1>5. Written'
  BY DEF IInv, Written, Cycle, Saving, Image
<1>6. Checked'
  BY DEF IInv, Saving, Checked
<1> QED BY <1>1, <1>2, <1>3, <1>4, <1>5, <1>6 DEF IInv

LEMMA ClearReadStep ==
  ASSUME IInv, ClearRead
  PROVE  IInv'
<1> USE Sizes DEF ClearRead, eeprom, flags
<1>1. Flags'
  BY DEF IInv, Flags
<1>2. Call'
  BY DEF IInv, Call, Saving, Bounded
<1>3. Bytes' /\ History' /\ Bounded'
  BY DEF IInv, Bytes, History, Bounded
<1>4. Cycle'
  BY DEF IInv, Cycle
<1>5. Written'
  BY DEF IInv, Written, Cycle, Saving, Image
<1>6. Checked'
  BY DEF IInv, Saving, Checked
<1> QED BY <1>1, <1>2, <1>3, <1>4, <1>5, <1>6 DEF IInv

LEMMA ClearStoreStep ==
  ASSUME IInv, ClearStore
  PROVE  IInv'
<1> USE Sizes DEF ClearStore, eeprom
<1>1. Flags'
  BY DEF IInv, Flags
<1>2. Call'
  BY DEF IInv, Call, Saving
<1>3. Bytes' /\ History' /\ Bounded'
  BY DEF IInv, Bytes, History, Bounded, Call
<1>4. Cycle'
  BY DEF IInv, Cycle
<1>5. Written'
  <2>1. cycle = None /\ ~cut /\ n \in Nat
    BY DEF IInv, Cycle, Call
  <2>2. ASSUME NEW k \in 0 .. Size + 1, k < n + 1
        PROVE  ee[k] = Image(buf)[k]
    <3>1. k < n \/ k = n
      BY <2>1, <2>2
    <3> QED BY <2>1, <3>1 DEF IInv, Written, Saving
  <2>3. \A k : Image(buf')[k] = Image(buf)[k]
    BY DEF Image
  <2> QED BY <2>2, <2>3 DEF Written, Saving
<1>6. Checked'
  BY DEF IInv, Saving, Checked
<1> QED BY <1>1, <1>2, <1>3, <1>4, <1>5, <1>6 DEF IInv

(* The save has written every byte of the image.                           *)
LEMMA Complete ==
  ASSUME IInv, WriteEnd
  PROVE  Valid /\ Stored = buf
<1>1. buf \in Content /\ n = Size + 2
  BY Sizes DEF IInv, Call, Saving, History, WriteEnd
<1>2. \A k \in 0 .. Size + 1 : ee[k] = Image(buf)[k]
  BY <1>1, Sizes DEF IInv, Written, Saving, WriteEnd
<1> QED BY <1>1, <1>2, ImageStored

LEMMA WriteEndStep ==
  ASSUME IInv, WriteEnd
  PROVE  IInv'
<1> USE Sizes DEF WriteEnd, Return, eeprom, flags
<1>1. Flags'
  BY DEF IInv, Flags
<1>2. Call'
  BY DEF IInv, Call, Saving
<1>3. Bytes' /\ History' /\ Bounded'
  BY DEF IInv, Bytes, History, Bounded
<1>4. Cycle'
  BY DEF IInv, Cycle
<1>5. Written'
  BY DEF Written, Saving
<1>6. Checked'
  <2>1. Stored' = Stored
    BY DEF Stored, Valid, Payload
  <2>2. pc' = "defaulted" => buf = Default
    BY DEF IInv, Saving, Checked
  <2> QED BY <2>1, <2>2, Complete DEF Saving, Checked
<1> QED BY <1>1, <1>2, <1>3, <1>4, <1>5, <1>6 DEF IInv

LEMMA LoadCheckStep ==
  ASSUME IInv, NEW orDefault \in BOOLEAN, LoadCheck(orDefault)
  PROVE  IInv'
<1> USE Sizes DEF LoadCheck, Begin, ReadWrerr, flags
<1>1. Flags'
  BY DEF IInv, Flags
<1>2. Call'
  BY DEF IInv, Call, Saving
<1>3. Bytes' /\ History' /\ Bounded'
  BY DEF IInv, Bytes, History, Bounded
<1>4. Cycle'
  BY DEF IInv, Cycle, Call, Saving
<1>5. Written'
  BY DEF IInv, Call, Written, Saving
<1>6. Checked'
  BY DEF IInv, Call, Saving, Checked, Valid, Payload
<1> QED BY <1>1, <1>2, <1>3, <1>4, <1>5, <1>6 DEF IInv

LEMMA LoadCopyStep ==
  ASSUME IInv, LoadCopy
  PROVE  IInv'
<1> USE Sizes DEF LoadCopy, eeprom, flags, call
<1>1. Flags'
  BY DEF IInv, Flags
<1>2. Call'
  BY DEF IInv, Call, Saving
<1>3. Bytes' /\ History' /\ Bounded'
  <2>1. Payload \in Content
    BY DEF IInv, Bytes, Payload, Content
  <2> QED BY <2>1 DEF IInv, Bytes, History, Bounded
<1>4. Cycle'
  BY DEF IInv, Cycle
<1>5. Written' /\ Checked'
  BY DEF IInv, Call, Saving, Written, Checked
<1> QED BY <1>1, <1>2, <1>3, <1>4, <1>5 DEF IInv

LEMMA DefaultReturnStep ==
  ASSUME IInv, DefaultReturn
  PROVE  IInv'
<1> USE Sizes DEF DefaultReturn, eeprom, flags, call
<1>1. Flags'
  BY DEF IInv, Flags
<1>2. Call'
  BY DEF IInv, Call, Saving
<1>3. Bytes' /\ History' /\ Bounded'
  BY DEF IInv, Bytes, History, Bounded
<1>4. Cycle'
  BY DEF IInv, Cycle
<1>5. Written' /\ Checked'
  BY DEF IInv, Call, Saving, Written, Checked
<1> QED BY <1>1, <1>2, <1>3, <1>4, <1>5 DEF IInv

(* The byte of the cycle in progress, by the invariant.                    *)
LEMMA InProgress ==
  ASSUME IInv, cycle # None
  PROVE  /\ pc = "wait" /\ ~eeif /\ buf \in known /\ buf \in Content
         /\ n \in 0 .. Size + 1 /\ cycle[1] = n /\ cycle[2] = Image(buf)[n]
         /\ Image(buf)[n] \in 0 .. 255
         /\ n \in 0 .. Size - 1 => Image(buf)[n] \in Byte
<1>1. /\ pc = "wait" /\ ~eeif /\ buf \in known /\ n \in 0 .. Size + 1
      /\ cycle = <<n, Image(buf)[n]>> /\ buf \in Content
  BY Sizes DEF IInv, Cycle, Call, Saving, History
<1> QED BY <1>1, ImageBytes

(* One cell of the blob takes a byte.                                      *)
LEMMA CellWritten ==
  ASSUME Bytes, NEW c \in 0 .. Size + 1, NEW v \in 0 .. 255,
         c \in 0 .. Size - 1 => v \in Byte, ee' = [ee EXCEPT ![c] = v]
  PROVE  Bytes'
<1>1. ee' \in [0 .. Size + 1 -> 0 .. 255]
  BY DEF Bytes
<1>2. ASSUME NEW k \in 0 .. Size - 1
      PROVE  ee'[k] \in Byte
  <2>1. k \in 0 .. Size + 1 /\ ee[k] \in Byte
    BY Sizes DEF Bytes
  <2> QED BY <2>1 DEF Bytes
<1> QED BY <1>1, <1>2 DEF Bytes

LEMMA WriteDoneStep ==
  ASSUME IInv, WriteDone
  PROVE  IInv'
<1> USE Sizes DEF WriteDone, call
<1>1. Flags'
  BY DEF IInv, Flags
<1>2. Call'
  BY DEF IInv, Call, Saving
<1>3. Bytes'
  BY InProgress, CellWritten DEF IInv
<1>4. History' /\ Bounded'
  BY DEF IInv, History, Bounded
<1>5. Cycle'
  <2>1. ~cut
    BY DEF IInv, Cycle
  <2> QED BY <2>1, InProgress DEF Cycle
<1>6. Written'
  <2>1. ee'[n] = Image(buf)[n] /\ \A k \in 0 .. Size + 1 : k # n => ee'[k] = ee[k]
    BY InProgress DEF IInv, Bytes
  <2>2. \A k : Image(buf')[k] = Image(buf)[k]
    BY DEF Image
  <2> QED BY <2>1, <2>2, InProgress DEF IInv, Written, Saving
<1>7. Checked'
  BY InProgress DEF IInv, Saving, Checked
<1> QED BY <1>1, <1>2, <1>3, <1>4, <1>5, <1>6, <1>7 DEF IInv

LEMMA InterruptStep ==
  ASSUME IInv, CcpEvent \/ Isr
  PROVE  IInv'
<1> USE Sizes DEF CcpEvent, Isr, EeTaken, eeprom, call
<1>1. Flags'
  BY DEF IInv, Flags
<1>2. Call'
  BY DEF IInv, Call, Saving
<1>3. Bytes' /\ History'
  BY DEF IInv, Bytes, History
<1>4. Bounded'
  BY DEF IInv, Bounded
<1>5. Cycle'
  <2>1. UNCHANGED <<pc, n, buf, cycle>> /\ Image(buf)'[n'] = Image(buf)[n]
    BY DEF Image
  <2>2. cycle # None => ~eeif'
    BY DEF IInv, Cycle
  <2>3. eeif' => eeif
    OBVIOUS
  <2>4. cut' => cut \/ pc = "unlock"
    OBVIOUS
  <2>5. pc = "unlock" => ~eeif /\ cycle = None
    BY DEF IInv, Cycle
  <2>6. cut' => pc \in {"unlock", "wait"} /\ ~eeif' /\ cycle' = None
    BY <2>1, <2>3, <2>4, <2>5 DEF IInv, Cycle
  <2> QED BY <2>1, <2>2, <2>3, <2>6 DEF IInv, Cycle
<1>6. Written'
  BY DEF IInv, Written, Saving, Image
<1>7. Checked'
  BY DEF IInv, Saving, Checked, Stored, Valid, Payload
<1> QED BY <1>1, <1>2, <1>3, <1>4, <1>5, <1>6, <1>7 DEF IInv

LEMMA CrashStep ==
  ASSUME IInv, Crash
  PROVE  IInv'
<1> USE Sizes DEF Crash
<1>1. Flags'
  BY DEF IInv, Flags
<1>2. Call'
  BY DEF IInv, Call, Saving
<1>3. Bytes'
  <2>1. CASE cycle = None
    BY <2>1 DEF IInv, Bytes
  <2>2. CASE cycle # None
    <3>1. PICK v \in {ee[n], Blank, Image(buf)[n]} : ee' = [ee EXCEPT ![n] = v]
      BY <2>2, InProgress
    <3>2. v = ee[n] \/ v = Blank \/ v = Image(buf)[n]
      OBVIOUS
    <3>3. ee[n] \in 0 .. 255 /\ (n \in 0 .. Size - 1 => ee[n] \in Byte)
      BY <2>2, InProgress DEF IInv, Bytes
    <3>4. v \in 0 .. 255 /\ (n \in 0 .. Size - 1 => v \in Byte)
      BY <2>2, <3>2, <3>3, InProgress, Values
    <3> QED BY <2>2, <3>1, <3>4, InProgress, CellWritten DEF IInv
  <2> QED BY <2>1, <2>2
<1>4. History' /\ Bounded'
  BY DEF IInv, History, Bounded
<1>5. Cycle'
  BY DEF Cycle
<1>6. Written' /\ Checked'
  BY DEF Written, Checked, Saving
<1> QED BY <1>1, <1>2, <1>3, <1>4, <1>5, <1>6 DEF IInv

LEMMA StutterStep ==
  ASSUME IInv, UNCHANGED vars
  PROVE  IInv'
<1> USE Sizes DEF vars, eeprom, flags, call
<1>1. Flags'
  BY DEF IInv, Flags
<1>2. Call'
  BY DEF IInv, Call, Saving
<1>3. Bytes' /\ History' /\ Bounded'
  BY DEF IInv, Bytes, History, Bounded
<1>4. Cycle'
  BY DEF IInv, Cycle, Image
<1>5. Written'
  BY DEF IInv, Written, Saving, Image
<1>6. Checked'
  BY DEF IInv, Saving, Checked, Stored, Valid, Payload
<1> QED BY <1>1, <1>2, <1>3, <1>4, <1>5, <1>6 DEF IInv

-----------------------------------------------------------------------------
LEMMA InitHolds == Init => IInv
<1> SUFFICES ASSUME Init
             PROVE  IInv
  OBVIOUS
<1> USE Sizes DEF Init
<1>1. Flags
  BY DEF Flags
<1>2. Call /\ History /\ Bounded
  BY DEF Call, History, Bounded, Saving
<1>3. Bytes
  <2>1. Blank \in 0 .. 255 /\ \A k \in 0 .. Size - 1 : k \in 0 .. Size + 1
    BY Values
  <2> QED BY <2>1, Values DEF Bytes
<1>4. Cycle /\ Written /\ Checked
  BY DEF Cycle, Written, Checked, Saving
<1> QED BY <1>1, <1>2, <1>3, <1>4 DEF IInv

LEMMA StepHolds ==
  ASSUME IInv, [Next]_vars
  PROVE  IInv'
<1>1. CASE MainLine
  BY <1>1, WriteByteStep, SetWrStep, WriteRejectedStep, WriteWaitStep, StutterStep, ClearReadStep,
     ClearStoreStep, WriteEndStep, LoadCopyStep, DefaultReturnStep DEF MainLine, WriteSpin
<1>2. CASE Program
  BY <1>2, SaveStep, LoadCheckStep DEF Program
<1>3. CASE WriteDone \/ CcpEvent \/ Isr \/ Crash
  BY <1>3, WriteDoneStep, InterruptStep, CrashStep
<1>4. CASE UNCHANGED vars
  BY <1>4, StutterStep
<1> QED BY <1>1, <1>2, <1>3, <1>4 DEF Next

LEMMA Invariance == Spec => []IInv
BY InitHolds, StepHolds, PTL DEF Spec

(* Types: the state of a call and of the EEPROM stays what the steps of     *)
(* epic_settings_save and epic_settings_load expect of it.                 *)
THEOREM SettingsTypes == Spec => []TypeOK
<1>1. ASSUME IInv
      PROVE  TypeOK
  <2>1. cycle \in ((0 .. Size + 1) \X (0 .. 255)) \cup {None}
    <3>1. cycle # None => cycle = <<n, Image(buf)[n]>>
      BY <1>1 DEF IInv, Cycle
    <3> QED BY <1>1, <3>1, InProgress
  <2>2. buf \in Content \cup {None} /\ known \subseteq Content
    BY <1>1, Sizes DEF IInv, Call, History
  <2> QED BY <1>1, <2>1, <2>2 DEF IInv, Call, Saving, Bytes, History, Flags, Bounded, TypeOK
<1> QED BY <1>1, Invariance, PTL

(* load_or_default ignores what its save reports, and still the next boot  *)
(* finds the default: its load has cleared the WRERR that a write cut off  *)
(* by a reset leaves behind, so no byte of its save can fail.              *)
THEOREM SettingsDefaultPersisted == Spec => []DefaultPersisted
<1>1. IInv => DefaultPersisted
  BY DEF IInv, Checked, DefaultPersisted
<1> QED BY <1>1, Invariance, PTL

(* A save that reports success has stored its payload: whatever an earlier *)
(* one left behind, the next load returns it.                              *)
THEOREM SettingsSaveStores == Spec => [][WriteEnd => Stored' = buf]_vars
<1>1. ASSUME IInv, WriteEnd
      PROVE  Stored' = buf
  <2>1. Stored' = Stored
    BY <1>1 DEF WriteEnd, eeprom, Stored, Valid, Payload
  <2> QED BY <1>1, <2>1, Complete
<1>2. IInv => [WriteEnd => Stored' = buf]_vars
  BY <1>1
<1> QED BY <1>2, Invariance, PTL DEF Spec

(* A save whose unlock sequence an interrupt cut is left by a reset only:  *)
(* no cycle is under way, so nothing ever raises the EEIF it polls.        *)
THEOREM SettingsCutWaits == Spec => CutWaits
<1>1. ASSUME IInv, [Next]_vars, pc = "wait", cut
      PROVE  pc' = "wait" \/ crashes' > crashes
  <2>1. ~eeif
    BY <1>1 DEF IInv, Cycle
  <2>2. crashes \in Nat
    BY <1>1, Sizes DEF IInv, Bounded
  <2>3. CASE MainLine
    BY <1>1, <2>1, <2>3 DEF MainLine, WriteByte, SetWr, WriteRejected, WriteWait, WriteSpin,
       ClearRead, ClearStore, WriteEnd, LoadCopy, DefaultReturn, vars, call
  <2>4. CASE Program
    BY <1>1, <2>4 DEF Program, Save, LoadCheck
  <2>5. CASE WriteDone \/ CcpEvent \/ Isr
    BY <1>1, <2>5 DEF WriteDone, CcpEvent, Isr
  <2>6. CASE Crash
    BY <2>2, <2>6 DEF Crash
  <2>7. CASE UNCHANGED vars
    BY <1>1, <2>7 DEF vars
  <2> QED BY <1>1, <2>3, <2>4, <2>5, <2>6, <2>7 DEF Next
<1>2. IInv /\ [Next]_vars => [pc = "wait" /\ cut => pc' = "wait" \/ crashes' > crashes]_vars
  BY <1>1
<1> QED BY <1>2, Invariance, PTL DEF Spec, CutWaits

-----------------------------------------------------------------------------
(* The store the blob implements.                                          *)
LEMMA MixedKept ==
  ASSUME IInv, Mixed, [Next]_vars
  PROVE  Mixed'
<1>1. ASSUME NEW c \in 0 .. Size + 1, NEW v, buf \in known, UNCHANGED known,
             v = Blank \/ v = Image(buf)[c] \/ v = ee[c], ee' = [ee EXCEPT ![c] = v]
      PROVE  Mixed'
  <2> SUFFICES ASSUME NEW k \in 0 .. Size + 1
               PROVE  ee'[k] = Blank \/ \E p \in known : ee'[k] = Image(p)[k]
    BY <1>1 DEF Mixed
  <2>1. ee[k] = Blank \/ \E p \in known : ee[k] = Image(p)[k]
    BY DEF Mixed
  <2>2. ee'[k] = IF k = c THEN v ELSE ee[k]
    BY <1>1 DEF IInv, Bytes
  <2> QED BY <1>1, <2>1, <2>2
<1>2. ASSUME UNCHANGED ee, known \subseteq known'
      PROVE  Mixed'
  BY <1>2 DEF Mixed, Image
<1>3. CASE WriteDone
  BY <1>1, <1>3, InProgress DEF WriteDone
<1>4. CASE Crash
  <2>1. CASE cycle = None
    BY <1>2, <1>4, <2>1 DEF Crash
  <2>2. CASE cycle # None
    BY <1>1, <1>4, <2>2, InProgress DEF Crash
  <2> QED BY <2>1, <2>2
<1>5. CASE MainLine
  BY <1>2, <1>5 DEF MainLine, WriteByte, SetWr, WriteRejected, WriteWait, WriteSpin, ClearRead,
     ClearStore, WriteEnd, LoadCopy, DefaultReturn, eeprom, vars
<1>6. CASE Program
  BY <1>2, <1>6 DEF Program, Save, LoadCheck, Begin, eeprom
<1>7. CASE CcpEvent \/ Isr \/ UNCHANGED vars
  BY <1>2, <1>7 DEF CcpEvent, Isr, eeprom, vars
<1> QED BY <1>3, <1>4, <1>5, <1>6, <1>7 DEF Next

(* What a load would return is a payload that was being saved.             *)
LEMMA StoredKnown ==
  ASSUME CrcTells, IInv, Mixed
  PROVE  Held
<1> DEFINE s == [k \in 0 .. Size + 1 |->
                   IF ee[k] = Blank THEN None
                   ELSE CHOOSE p \in known : ee[k] = Image(p)[k]]
           e == [k \in 0 .. Size + 1 |-> IF s[k] = None THEN Blank ELSE Image(s[k])[k]]
           q == [k \in 0 .. Size - 1 |-> e[k]]
<1>1. \A p \in known : p \in Payloads \cup {Default} /\ p \in Content /\ p # None
  BY Sizes DEF IInv, History
<1>2. ASSUME NEW k \in 0 .. Size + 1
      PROVE  e[k] = ee[k] /\ s[k] \in known \cup {None}
  <2>1. CASE ee[k] = Blank
    BY <2>1
  <2>2. CASE ee[k] # Blank
    <3>1. \E p \in known : ee[k] = Image(p)[k]
      BY <2>2 DEF Mixed
    <3>2. s[k] \in known /\ ee[k] = Image(s[k])[k]
      BY <2>2, <3>1
    <3> QED BY <1>1, <3>2
  <2> QED BY <2>1, <2>2
<1>3. s \in [0 .. Size + 1 -> Payloads \cup {Default, None}]
  BY <1>1, <1>2
<1>4. q = Payload /\ e[Size] = ee[Size] /\ e[Size + 1] = ee[Size + 1]
  <2>1. \A k \in 0 .. Size + 1 : e[k] = ee[k]
    BY <1>2
  <2>2. \A k \in 0 .. Size - 1 : k \in 0 .. Size + 1
    BY Sizes
  <2>3. Size \in 0 .. Size + 1 /\ Size + 1 \in 0 .. Size + 1
    BY Sizes
  <2> HIDE DEF e
  <2> QED BY <2>1, <2>2, <2>3 DEF Payload
<1>5. Payload # None
  <2>1. Payload \in Content
    BY DEF IInv, Bytes, Payload, Content
  <2> QED BY <2>1, Values
<1>6. Valid => \E k \in 0 .. Size + 1 : q = s[k]
  BY <1>3, <1>4 DEF CrcTells, Valid
<1>7. Valid => Payload \in known
  BY <1>2, <1>4, <1>5, <1>6
<1> QED BY <1>7 DEF Held, Stored

LEMMA StoreStep ==
  ASSUME IInv, Held, Held', [Next]_vars
  PROVE  [Store!Next]_Store!blob
<1> USE DEF Store!Next, Store!blob
<1>1. Stored \in known \cup {None} /\ Stored' \in known' \cup {None}
  BY DEF Held
<1>2. UNCHANGED ee => UNCHANGED Stored
  BY DEF Stored, Valid, Payload
<1>3. ~Saving => buf = None /\ cycle = None
  BY DEF IInv, Call, Cycle, Saving
<1>4. Saving => buf # None /\ buf \in Payloads \cup {Default}
  BY Sizes DEF IInv, Call, History
<1>5. ASSUME NEW q \in Payloads \cup {Default}, NEW default, pc = "idle",
             Begin(q, default), UNCHANGED <<ee, ok, loaded>>
      PROVE  Store!Begin(q)
  BY <1>2, <1>3, <1>5 DEF Begin, Saving, Store!Begin
<1>6. CASE \E q \in Payloads : Save(q)
  <2>1. PICK q \in Payloads : Save(q)
    BY <1>6
  <2> QED BY <1>5, <2>1 DEF Save, eeprom
<1>7. CASE \E orDefault \in BOOLEAN : LoadCheck(orDefault)
  <2>1. PICK orDefault \in BOOLEAN : LoadCheck(orDefault)
    BY <1>7
  <2>2. CASE Valid
    BY <1>2, <2>1, <2>2 DEF LoadCheck, call
  <2>3. CASE ~Valid /\ ~orDefault
    BY <1>2, <1>3, <2>1, <2>3 DEF LoadCheck, Saving, Store!Load, Stored
  <2>4. CASE ~Valid /\ orDefault
    BY <1>5, <2>1, <2>4 DEF LoadCheck
  <2> QED BY <2>2, <2>3, <2>4
<1>8. CASE WriteEnd
  BY <1>2, <1>4, <1>8, Complete DEF WriteEnd, Return, Saving, eeprom, Store!Finish
<1>9. CASE WriteRejected
  BY <1>1, <1>4, <1>9 DEF WriteRejected, Return, Saving, Store!Fail
<1>10. CASE LoadCopy
  <2>1. Stored = Payload
    BY <1>10 DEF IInv, Checked, LoadCopy, Stored
  <2> QED BY <1>2, <1>3, <1>10, <2>1 DEF LoadCopy, Saving, call, eeprom, Store!Load
<1>11. CASE WriteByte \/ SetWr \/ WriteWait \/ WriteSpin \/ ClearRead \/ ClearStore
            \/ DefaultReturn
  BY <1>2, <1>11 DEF WriteByte, SetWr, WriteWait, WriteSpin, ClearRead, ClearStore,
     DefaultReturn, call, eeprom, vars
<1>12. CASE WriteDone
  BY <1>1, <1>4, <1>12, InProgress DEF WriteDone, call, Saving, Store!Disturb
<1>13. CASE CcpEvent \/ Isr \/ UNCHANGED vars
  BY <1>2, <1>13 DEF CcpEvent, Isr, call, eeprom, vars
<1>14. CASE Crash
  <2>1. CASE Saving
    BY <1>1, <1>4, <1>14, <2>1 DEF Crash, Store!Fail
  <2>2. CASE ~Saving
    <3>1. buf = None /\ UNCHANGED <<ee, known, loaded>> /\ buf' = None
      BY <1>3, <1>14, <2>2 DEF Crash
    <3>2. ok' = ok
      BY <3>1, <1>14 DEF Crash, IInv, Flags
    <3> QED BY <1>2, <3>1, <3>2
  <2> QED BY <2>1, <2>2
<1> QED BY <1>6, <1>7, <1>8, <1>9, <1>10, <1>11, <1>12, <1>13, <1>14
        DEF Next, MainLine, Program

(* lib/settings is the store it promises to be, whatever resets cut off,   *)
(* when the trailer tells a torn blob from a saved one.                    *)
THEOREM SettingsStoreKept == ASSUME CrcTells PROVE Spec => StoreKept
<1>1. Init => IInv /\ Mixed
  <2>1. Init => Mixed
    BY DEF Init, Mixed
  <2> QED BY <2>1, InitHolds
<1>2. IInv /\ Mixed /\ [Next]_vars => IInv' /\ Mixed'
  BY StepHolds, MixedKept
<1>3. IInv /\ Mixed => Held
  BY StoredKnown
<1>4. Init => Store!Init
  BY <1>1, <1>3 DEF Init, Held, Store!Init
<1>5. IInv /\ Held /\ Held' /\ [Next]_vars => [Store!Next]_Store!blob
  BY StoreStep
<1> QED BY <1>1, <1>2, <1>3, <1>4, <1>5, PTL DEF Spec, StoreKept, Store!Spec

=============================================================================
