------------------------------ MODULE Settings ------------------------------
(***************************************************************************)
(* One blob of lib/settings: payload and CRC trailer in data EEPROM,       *)
(* written a byte at a time through the EEPROM driver, with resets at any  *)
(* point.  A save polls EEIF for the end of each write cycle and clears it *)
(* with EPIC_IRQ_ClearFlag, a read and a write of the whole of PIR2; the   *)
(* service routine shares that register.  PIR2 is represented by EEIF and  *)
(* by CCP2IF, the flag of another source (the transmitter of lib/swuart).  *)
(* Interrupts stay enabled throughout, also inside the unlock sequence of  *)
(* the driver: one that falls between its three stores voids the sequence, *)
(* and the write does not start.                                           *)
(*                                                                         *)
(* A load only reads the EEPROM, which nothing writes meanwhile: each of   *)
(* its two passes is one step.                                             *)
(***************************************************************************)
EXTENDS Naturals

CONSTANTS
  Size,        (* payload bytes                                            *)
  Byte,        (* values of a payload byte                                 *)
  Blank,       (* the value of an erased EEPROM byte                       *)
  Payloads,    (* payloads the program saves                               *)
  Default,     (* default_data                                             *)
  Crc(_),      (* trailer of a payload, high byte first: CRC-16-CCITT      *)
  None,
  Eeie,        (* the program installed a write-complete callback          *)
  MaxSaves,    (* bound: saves                                             *)
  MaxCrashes,  (* bound: resets                                            *)
  MaxEvents    (* bound: compare events of CCP2                            *)

Content == [0 .. Size - 1 -> Byte]

ASSUME SettingsAssumption ==
  /\ Size \in 1 .. 253
  /\ Byte \subseteq 0 .. 255 /\ Blank \in Byte
  /\ Payloads \subseteq Content /\ Default \in Content
  /\ None \notin Content /\ None \notin (0 .. Size + 1) \X (0 .. 255)
  /\ \A p \in Content : Crc(p) \in (0 .. 255) \X (0 .. 255)
  /\ Eeie \in BOOLEAN
  /\ MaxSaves \in Nat /\ MaxCrashes \in Nat /\ MaxEvents \in Nat

VARIABLES
  ee,                (* the bytes at eeprom_addr ..                        *)
  cycle,             (* EEADR and EEDATA of the write in progress, or None *)
  wrerr,             (* EECON1.WRERR                                       *)
  cut,               (* an interrupt fell into the unlock of this byte     *)
  eeif, ccpif,       (* PIR2                                               *)
  pc, forDefault,    (* main line; the save is load_or_default's           *)
  buf, n,            (* payload being saved, index of the byte             *)
  ok,                (* what the last save returned                        *)
  pir,               (* ClearFlag's copy of PIR2 (its CCP2IF)              *)
  known, loaded,     (* history: payloads given to a save; last load       *)
  raised, handled,   (* history: compare events, and calls of the handler  *)
  saves, crashes     (* against the bounds                                 *)

eeprom == <<ee, cycle, wrerr, cut>>
flags  == <<eeif, ccpif, raised, handled>>
call   == <<forDefault, buf, n, ok, pir>>
vars   == <<eeprom, flags, pc, call, known, loaded, saves, crashes>>

Image(p) == [k \in 0 .. Size + 1 |->
               IF k < Size THEN p[k] ELSE Crc(p)[k - Size + 1]]
Payload == [k \in 0 .. Size - 1 |-> ee[k]]
Valid   == Crc(Payload) = <<ee[Size], ee[Size + 1]>>
Stored  == IF Valid THEN Payload ELSE None

-----------------------------------------------------------------------------
(* The write cycle ends: the cell holds the byte, EEIF rises.              *)
WriteDone ==
  /\ cycle # None
  /\ ee' = [ee EXCEPT ![cycle[1]] = cycle[2]]
  /\ cycle' = None
  /\ eeif' = TRUE
  /\ UNCHANGED <<wrerr, cut, ccpif, raised, handled, pc, call, known, loaded, saves,
                 crashes>>

CcpEvent ==
  /\ ~ccpif /\ raised < MaxEvents
  /\ ccpif' = TRUE /\ raised' = raised + 1
  /\ UNCHANGED <<eeprom, eeif, handled, pc, call, known, loaded, saves, crashes>>

(* Mutation of EeTaken: the dispatcher does not look at EEIE.              *)
EeTakenUngated == eeif

EeTaken == eeif /\ Eeie

(* The service routine, for either source; both handlers clear their flag  *)
(* with one instruction.  Inside the unlock it comes between the stores.   *)
Isr ==
  /\ ccpif \/ (eeif /\ Eeie)
  /\ handled' = IF ccpif THEN handled + 1 ELSE handled
  /\ ccpif' = FALSE
  /\ eeif' = (eeif /\ ~EeTaken)
  /\ cut' = (cut \/ pc = "unlock")
  /\ UNCHANGED <<ee, cycle, wrerr, raised, pc, call, known, loaded, saves, crashes>>

(* A reset.  A write in progress is cut off and leaves the old byte, an    *)
(* erased one, or the new one; WRERR is set by such a reset, and is        *)
(* unknown after a power-on.                                               *)
Crash ==
  /\ crashes < MaxCrashes /\ crashes' = crashes + 1
  /\ \/ cycle = None /\ UNCHANGED ee
     \/ /\ cycle # None
        /\ \E v \in {ee[cycle[1]], Blank, cycle[2]} :
             ee' = [ee EXCEPT ![cycle[1]] = v]
  /\ cycle' = None
  /\ wrerr' \in BOOLEAN /\ cut' = FALSE
  /\ eeif' = FALSE /\ ccpif' = FALSE /\ raised' = 0 /\ handled' = 0
  /\ pc' = "idle" /\ forDefault' = FALSE
  /\ buf' = None /\ n' = 0 /\ ok' = (ok /\ buf = None) /\ pir' = FALSE
  /\ UNCHANGED <<known, loaded, saves>>

-----------------------------------------------------------------------------
(* epic_settings_save.                                                     *)
Begin(p, default) ==
  /\ pc' = "write" /\ forDefault' = default
  /\ buf' = p /\ n' = 0
  /\ known' = known \cup {p}

Save(p) ==
  /\ pc = "idle" /\ saves < MaxSaves /\ saves' = saves + 1
  /\ Begin(p, FALSE)
  /\ UNCHANGED <<eeprom, flags, ok, pir, loaded, crashes>>

Return(success) ==
  /\ pc' = IF forDefault THEN "defaulted" ELSE "idle"
  /\ forDefault' = FALSE /\ buf' = None /\ n' = 0 /\ ok' = success

(* EPIC_EEPROM_WriteByte, up to the 0x55 that begins the unlock sequence.  *)
WriteByte ==
  /\ pc = "write" /\ n < Size + 2
  /\ ~wrerr
  /\ pc' = "unlock" /\ cut' = FALSE
  /\ UNCHANGED <<ee, cycle, wrerr, flags, call, known, loaded, saves, crashes>>

(* Mutation of SetWr: interrupts are off from the 0x55 on.                 *)
SetWrGuarded ==
  /\ pc = "unlock" /\ pc' = "wait"
  /\ cycle' = <<n, Image(buf)[n]>>
  /\ UNCHANGED <<ee, wrerr, cut, flags, call, known, loaded, saves, crashes>>

(* The 0xAA and the store that sets WR.  WR stays clear if the three       *)
(* stores did not follow each other.                                       *)
SetWr ==
  /\ pc = "unlock" /\ pc' = "wait"
  /\ cycle' = IF cut THEN None ELSE <<n, Image(buf)[n]>>
  /\ UNCHANGED <<ee, wrerr, cut, flags, call, known, loaded, saves, crashes>>

WriteRejected ==
  /\ pc = "write" /\ n < Size + 2
  /\ wrerr
  /\ Return(FALSE)
  /\ UNCHANGED <<eeprom, flags, pir, known, loaded, saves, crashes>>

(* Mutation of WriteWait: the next byte follows at once, as in the         *)
(* driver's WriteBuffer.                                                   *)
WriteWaitNot ==
  /\ pc = "wait"
  /\ pc' = "clear"
  /\ UNCHANGED <<eeprom, flags, call, known, loaded, saves, crashes>>

WriteWait ==
  /\ pc = "wait" /\ eeif
  /\ pc' = "clear"
  /\ UNCHANGED <<eeprom, flags, call, known, loaded, saves, crashes>>

WriteSpin == pc = "wait" /\ ~eeif /\ UNCHANGED vars

(* EPIC_IRQ_ClearFlag.                                                     *)
ClearRead ==
  /\ pc = "clear"
  /\ pir' = ccpif
  /\ pc' = "store"
  /\ UNCHANGED <<eeprom, flags, forDefault, buf, n, ok, known, loaded, saves,
                 crashes>>

(* Mutation of ClearStore: the loop body advances the index as well.       *)
ClearStoreTwice ==
  /\ pc = "store"
  /\ eeif' = FALSE /\ ccpif' = pir
  /\ pc' = "write" /\ n' = n + 2
  /\ UNCHANGED <<eeprom, raised, handled, forDefault, buf, ok, pir, known, loaded,
                 saves, crashes>>

ClearStore ==
  /\ pc = "store"
  /\ eeif' = FALSE /\ ccpif' = pir
  /\ pc' = "write" /\ n' = n + 1
  /\ UNCHANGED <<eeprom, raised, handled, forDefault, buf, ok, pir, known, loaded,
                 saves, crashes>>

WriteEnd ==
  /\ pc = "write" /\ n = Size + 2
  /\ Return(TRUE)
  /\ UNCHANGED <<eeprom, flags, pir, known, loaded, saves, crashes>>

-----------------------------------------------------------------------------
(* EPIC_EEPROM_ReadByte writes 0 to EECON1 before it sets RD, and WRERR    *)
(* goes with it.                                                           *)

(* Mutation of ReadWrerr: RD is set and the rest of EECON1 kept.           *)
ReadWrerrKept == wrerr

ReadWrerr == FALSE

(* epic_settings_load and epic_settings_load_or_default: the check, then a *)
(* second pass that copies.                                                *)
LoadCheck(orDefault) ==
  /\ pc = "idle"
  /\ wrerr' = ReadWrerr
  /\ \/ /\ Valid
        /\ pc' = "copy"
        /\ UNCHANGED <<forDefault, buf, n, known, loaded, saves>>
     \/ /\ ~Valid /\ ~orDefault
        /\ loaded' = None
        /\ UNCHANGED <<pc, forDefault, buf, n, known, saves>>
     \/ /\ ~Valid /\ orDefault
        /\ saves < MaxSaves /\ saves' = saves + 1
        /\ Begin(Default, TRUE)
        /\ UNCHANGED loaded
  /\ UNCHANGED <<ee, cycle, cut, flags, ok, pir, crashes>>

LoadCopy ==
  /\ pc = "copy" /\ pc' = "idle"
  /\ loaded' = Payload
  /\ UNCHANGED <<eeprom, flags, call, known, saves, crashes>>

DefaultReturn ==
  /\ pc = "defaulted" /\ pc' = "idle"
  /\ UNCHANGED <<eeprom, flags, call, known, loaded, saves, crashes>>

-----------------------------------------------------------------------------
Init ==
  /\ ee = [k \in 0 .. Size + 1 |-> Blank] /\ cycle = None
  /\ wrerr \in BOOLEAN /\ cut = FALSE /\ eeif = FALSE /\ ccpif = FALSE
  /\ pc = "idle" /\ forDefault = FALSE /\ buf = None /\ n = 0 /\ ok = FALSE /\ pir = FALSE
  /\ known = {} /\ loaded = None /\ raised = 0 /\ handled = 0
  /\ saves = 0 /\ crashes = 0

MainLine == \/ WriteByte \/ SetWr \/ WriteRejected \/ WriteWait \/ WriteSpin
            \/ ClearRead \/ ClearStore \/ WriteEnd
            \/ LoadCopy \/ DefaultReturn

Program == \/ \E p \in Payloads : Save(p)
           \/ \E orDefault \in BOOLEAN : LoadCheck(orDefault)

Next == MainLine \/ Program \/ WriteDone \/ CcpEvent \/ Isr \/ Crash

(* The core executes and a write cycle ends.  Nothing is assumed of the    *)
(* program, of resets or of the other source.                              *)
Spec == Init /\ [][Next]_vars /\ WF_vars(MainLine) /\ WF_vars(WriteDone)

-----------------------------------------------------------------------------
(* Types.  A save stays within the blob and its trailer.                   *)
TypeOK ==
  /\ ee \in [0 .. Size + 1 -> 0 .. 255]
  /\ cycle \in ((0 .. Size + 1) \X (0 .. 255)) \cup {None}
  /\ wrerr \in BOOLEAN /\ cut \in BOOLEAN /\ eeif \in BOOLEAN /\ ccpif \in BOOLEAN
  /\ pc \in {"idle", "write", "unlock", "wait", "clear", "store", "copy", "defaulted"}
  /\ forDefault \in BOOLEAN /\ buf \in Content \cup {None}
  /\ n \in 0 .. Size + 2 /\ ok \in BOOLEAN /\ pir \in BOOLEAN
  /\ known \subseteq Content /\ loaded \in Content \cup {None}
  /\ raised \in 0 .. MaxEvents /\ handled \in Nat
  /\ saves \in 0 .. MaxSaves /\ crashes \in 0 .. MaxCrashes

(* What the trailer has to do: a blob put together of erased bytes and of  *)
(* bytes of the images of some payloads, s[k] the one that byte k is of,   *)
(* passes the check only if it holds one of those payloads.                *)
CrcTells ==
  \A s \in [0 .. Size + 1 -> Payloads \cup {Default, None}] :
    LET e == [k \in 0 .. Size + 1 |-> IF s[k] = None THEN Blank ELSE Image(s[k])[k]]
        p == [k \in 0 .. Size - 1 |-> e[k]]
    IN  Crc(p) = <<e[Size], e[Size + 1]>> => \E k \in 0 .. Size + 1 : p = s[k]

(* The blob is a store: whatever the resets cut off, a load returns what   *)
(* some save was given or rejects, nothing but a save changes it, and a    *)
(* save that reports success has stored its payload.                       *)
Store == INSTANCE BlobStore WITH
           Payloads <- Payloads \cup {Default},
           value <- Stored, known <- known, saving <- buf, ok <- ok,
           loaded <- loaded
StoreKept == Store!Spec

(* load_or_default ignores what its save reports, and still the next boot  *)
(* finds the default: the load before it has cleared the WRERR that a      *)
(* write cut off by a reset leaves behind.                                 *)
DefaultPersisted == pc = "defaulted" => Stored = Default

Saving == pc \in {"write", "unlock", "wait", "clear", "store"}

(* A save whose unlock sequences no interrupt cuts comes back: the EEIF it *)
(* polls for is not taken by the service routine.                          *)
SaveReturns == Saving ~> ~Saving \/ cut

(* The converse: when an interrupt has cut the unlock of a byte no cycle   *)
(* starts, nothing says so, and only a reset ends the wait for EEIF.  The  *)
(* header knows two ends of a save, success and a byte that was rejected.  *)
CutWaits == [][pc = "wait" /\ cut => pc' = "wait" \/ crashes' > crashes]_vars

(* EPIC_IRQ_ClearFlag clears the flag of the source it is given: each      *)
(* event of the other source is pending or has been handled, once.         *)
EventsKept == handled + (IF ccpif THEN 1 ELSE 0) = raised

=============================================================================
