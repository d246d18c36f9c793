------------------------------- MODULE Serial -------------------------------
(***************************************************************************)
(* The interrupt-driven UART of lib/serial: a TX ring filled by the main   *)
(* line and drained by the USART TX handler, an RX ring filled by the RX   *)
(* handler and drained by the main line, over the USART of the mid-range   *)
(* PIC.  The main line takes one step per access to a shared field; the    *)
(* interrupt service routine runs with GIE clear, so it is one step, taken *)
(* between any two steps of the main line while GIE is set.                *)
(*                                                                         *)
(* epic_dispatch_all_irqs is the body of that service routine and is also  *)
(* called by the main line (ring full, flush): there it takes one step per *)
(* access like any other code of the main line.                            *)
(*                                                                         *)
(* Bytes are numbered: the n-th byte the program writes is n, the n-th     *)
(* byte the receiver latches is n.  The code never looks into a byte.      *)
(***************************************************************************)
EXTENDS Naturals, Sequences

CONSTANTS
  SZ,             (* EPIC_SERIAL_RING_SZ                                   *)
  MaxTx,          (* bound: bytes the program writes                       *)
  MaxRx,          (* bound: bytes that arrive                              *)
  MaxLen,         (* bound: length of one write or read                    *)
  Latency,        (* accesses the main line still completes once an        *)
                  (* interrupt is pending                                  *)
  GieBeforeInit,  (* epic_serial_init runs with interrupts already enabled *)
  AppWaits        (* with GIE set, the program may wait inside write/flush *)

ASSUME SerialAssumption ==
  /\ SZ \in {1, 2, 4, 8, 16, 32, 64, 128}   (* & MASK needs a power of two *)
  /\ MaxTx \in Nat
  /\ MaxRx \in Nat
  /\ MaxLen \in Nat \ {0}
  /\ Latency \in Nat
  /\ GieBeforeInit \in BOOLEAN
  /\ AppWaits \in BOOLEAN

VARIABLES
  pc, ret,                          (* main line: next step, return point  *)
  todo,                             (* bytes left in this write or read    *)
  byte,                             (* local of a handler on the main line *)
  txSnap, rcSnap,                   (* local copy of PIR1 in the dispatch  *)
  lag,                              (* accesses completed since pending    *)
  gie, txie, rcie,                  (* interrupt enables; rcie stands for  *)
                                    (* CREN too, Init sets both            *)
  hold, tsr,                        (* TXREG and the shift register; 0 =   *)
                                    (* empty                               *)
  rcreg,                            (* the two-byte receive FIFO           *)
  oerr,                             (* overrun latch: the receiver stops   *)
  txBuf, txHead, txTail, txCount,   (* g_tx_*                              *)
  rxBuf, rxHead, rxTail, rxCount,   (* g_rx_*                              *)
  txIn,                             (* history: bytes stored by write      *)
  wire, wireLast,                   (* history: bytes sent, the last one   *)
  rxIn,                             (* history: bytes latched by the USART *)
  rxOut, rxLast,                    (* history: bytes read, the last one   *)
  rxDropped                         (* history: bytes dropped, ring full   *)

control == <<pc, ret, todo, byte, txSnap, rcSnap>>
txRing  == <<txBuf, txHead, txTail, txCount>>
rxRing  == <<rxBuf, rxHead, rxTail, rxCount>>
txLine  == <<hold, tsr>>
rxLine  == <<rcreg, oerr, rxIn>>
txHist  == <<txIn, wire, wireLast>>
rxHist  == <<rxOut, rxLast, rxDropped>>
enables == <<gie, txie, rcie>>
vars == <<control, lag, enables, txLine, rxLine, txRing, rxRing, txHist, rxHist>>

-----------------------------------------------------------------------------
(* Ring arithmetic: indices wrap at SZ (& MASK), counts are uint8_t.       *)
Succ(i) == (i + 1) % SZ
Inc(c)  == (c + 1) % 256
Dec(c)  == (c + 255) % 256

TXIF == hold = 0            (* read-only status bit: TXREG is empty        *)
RCIF == rcreg # << >>       (* read-only status bit: RCREG holds a byte    *)

(* Writing TXREG: the byte goes on to an idle shift register at once; into *)
(* a full TXREG it replaces the byte that was there.                       *)
WriteTXREG(b) ==
  IF tsr = 0 THEN tsr' = b /\ UNCHANGED hold
             ELSE hold' = b /\ UNCHANGED tsr

-----------------------------------------------------------------------------
(* Mutation of OnTx: the handler disarms TXIE after every byte.            *)
OnTxSingle ==
  \/ /\ txCount > 0
     /\ WriteTXREG(txBuf[txTail])
     /\ txTail' = Succ(txTail)
     /\ txCount' = Dec(txCount)
     /\ txie' = FALSE
     /\ UNCHANGED <<txBuf, txHead>>
  \/ /\ txCount = 0
     /\ txie' = FALSE
     /\ UNCHANGED <<txRing, txLine>>

(* The two callbacks, as the service routine runs them.                    *)
OnTx ==
  \/ /\ txCount > 0
     /\ WriteTXREG(txBuf[txTail])
     /\ txTail' = Succ(txTail)
     /\ txCount' = Dec(txCount)
     /\ UNCHANGED <<txBuf, txHead, txie>>
  \/ /\ txCount = 0
     /\ txie' = FALSE
     /\ UNCHANGED <<txRing, txLine>>

(* Mutation of OnRx: the full test is off by one.                          *)
OnRxOffByOne(data) ==
  \/ /\ rxCount <= SZ
     /\ rxBuf' = [rxBuf EXCEPT ![rxHead] = data]
     /\ rxHead' = Succ(rxHead)
     /\ rxCount' = Inc(rxCount)
     /\ UNCHANGED <<rxTail, rxDropped>>
  \/ /\ rxCount > SZ
     /\ rxDropped' = rxDropped + 1
     /\ UNCHANGED rxRing

OnRx(data) ==
  \/ /\ rxCount < SZ
     /\ rxBuf' = [rxBuf EXCEPT ![rxHead] = data]
     /\ rxHead' = Succ(rxHead)
     /\ rxCount' = Inc(rxCount)
     /\ UNCHANGED <<rxTail, rxDropped>>
  \/ /\ rxCount >= SZ
     /\ rxDropped' = rxDropped + 1
     /\ UNCHANGED rxRing

(* The service routine: the RX handler if RCIF, then the TX handler if     *)
(* TXIF and TXIE, as the dispatcher orders them.                           *)
IsrRx ==
  \/ /\ RCIF
     /\ OnRx(Head(rcreg))
     /\ rcreg' = Tail(rcreg)
  \/ ~RCIF /\ UNCHANGED <<rxRing, rcreg, rxDropped>>

(* Mutation of IsrTx: the TX handler runs whenever TXIE is set.            *)
IsrTxUngated ==
  \/ txie /\ OnTx
  \/ ~txie /\ UNCHANGED <<txRing, txLine, txie>>

IsrTx ==
  \/ TXIF /\ txie /\ OnTx
  \/ ~(TXIF /\ txie) /\ UNCHANGED <<txRing, txLine, txie>>

Pending == gie /\ ((RCIF /\ rcie) \/ (TXIF /\ txie))

Isr ==
  /\ Pending
  /\ IsrRx
  /\ IsrTx
  /\ lag' = 0
  /\ UNCHANGED <<control, gie, rcie, oerr, rxIn, txHist, rxOut, rxLast>>

-----------------------------------------------------------------------------
(* The hardware: the shift register finishes a byte and takes the next;    *)
(* a byte arrives, is latched, or overruns a full FIFO and stops the       *)
(* receiver (nothing in lib/serial clears OERR).                           *)
ShiftOut ==
  /\ tsr # 0
  /\ tsr' = hold
  /\ hold' = 0
  /\ wire' = wire + 1
  /\ wireLast' = tsr
  /\ UNCHANGED <<control, lag, enables, rxLine, txRing, rxRing, txIn, rxHist>>

Arrive ==
  /\ rcie /\ ~oerr /\ rxIn < MaxRx
  /\ \/ /\ Len(rcreg) < 2
        /\ rcreg' = Append(rcreg, rxIn + 1)
        /\ rxIn' = rxIn + 1
        /\ UNCHANGED oerr
     \/ /\ Len(rcreg) = 2
        /\ oerr' = TRUE
        /\ UNCHANGED <<rcreg, rxIn>>
  /\ UNCHANGED <<control, lag, enables, txLine, txRing, rxRing, txHist, rxHist>>

-----------------------------------------------------------------------------
(* Main line.  At(p, q): the step at p, going on to q.                     *)
At(p, q) == pc = p /\ pc' = q
Locals   == <<ret, todo, byte, txSnap, rcSnap>>
NoTx     == UNCHANGED <<txie, txLine, txRing, txHist>>
NoRx     == UNCHANGED <<rxLine, rxRing, rxHist>>

(* epic_serial_init: EPIC_USART_Init enables both sources, TXIE is taken   *)
(* back, then the rings are zeroed; a chained assignment stores its        *)
(* rightmost field first.                                                  *)
InitUsart ==
  /\ At("init", "initTxOff")
  /\ txie' = TRUE /\ rcie' = TRUE
  /\ UNCHANGED <<Locals, gie, txLine, txRing, txHist>> /\ NoRx

InitTxOff ==
  /\ At("initTxOff", "initTx")
  /\ txie' = FALSE
  /\ UNCHANGED <<Locals, gie, rcie, txLine, txRing, txHist>> /\ NoRx

InitTx ==
  /\ At("initTx", "initRxCount")
  /\ txCount' = 0 /\ txTail' = 0 /\ txHead' = 0
  /\ UNCHANGED <<Locals, enables, txLine, txBuf, txHist>> /\ NoRx

InitRxCount ==
  /\ At("initRxCount", "initRxTail")
  /\ rxCount' = 0
  /\ rxDropped' = rxDropped + rxCount
  /\ UNCHANGED <<Locals, enables, rxLine, rxBuf, rxHead, rxTail, rxOut, rxLast>>
  /\ UNCHANGED <<txLine, txRing, txHist>>

InitRxTail ==
  /\ At("initRxTail", "initRxHead")
  /\ rxTail' = 0
  /\ UNCHANGED <<Locals, enables, rxLine, rxBuf, rxHead, rxCount, rxHist>>
  /\ UNCHANGED <<txLine, txRing, txHist>>

InitRxHead ==
  /\ At("initRxHead", "idle")
  /\ rxHead' = 0
  /\ UNCHANGED <<Locals, enables, rxLine, rxBuf, rxTail, rxCount, rxHist>>
  /\ UNCHANGED <<txLine, txRing, txHist>>

(* EPIC_IRQ_Restore(1), which the header asks for after init.              *)
EnableGie ==
  /\ At("idle", "idle")
  /\ ~gie /\ gie' = TRUE
  /\ UNCHANGED <<Locals, txie, rcie, txLine, txRing, txHist>> /\ NoRx

-----------------------------------------------------------------------------
(* epic_serial_write.  A program that must not wait asks                   *)
(* epic_serial_tx_pending for room first.                                  *)
AppWrite(n) ==
  /\ At("idle", "wTest")
  /\ txIn + n <= MaxTx
  /\ AppWaits \/ ~gie \/ txCount + n <= SZ
  /\ todo' = n
  /\ UNCHANGED <<ret, byte, txSnap, rcSnap, gie, rcie>> /\ NoTx /\ NoRx

(* Mutation of WriteTest: the full test is off by one.                     *)
WriteTestOffByOne ==
  /\ pc = "wTest"
  /\ \/ todo = 0 /\ pc' = "idle" /\ UNCHANGED ret
     \/ todo > 0 /\ txCount > SZ /\ pc' = "dPir" /\ ret' = "wTest"
     \/ todo > 0 /\ txCount <= SZ /\ pc' = "wStore" /\ UNCHANGED ret
  /\ UNCHANGED <<todo, byte, txSnap, rcSnap, gie, rcie>> /\ NoTx /\ NoRx

WriteTest ==
  /\ pc = "wTest"
  /\ \/ todo = 0 /\ pc' = "idle" /\ UNCHANGED ret
     \/ todo > 0 /\ txCount >= SZ /\ pc' = "dPir" /\ ret' = "wTest"
     \/ todo > 0 /\ txCount < SZ /\ pc' = "wStore" /\ UNCHANGED ret
  /\ UNCHANGED <<todo, byte, txSnap, rcSnap, gie, rcie>> /\ NoTx /\ NoRx

WriteStore ==
  /\ At("wStore", "wHead")
  /\ txBuf' = [txBuf EXCEPT ![txHead] = txIn + 1]
  /\ txIn' = txIn + 1
  /\ UNCHANGED <<Locals, enables, txLine, txHead, txTail, txCount, wire, wireLast>>
  /\ NoRx

WriteHead ==
  /\ At("wHead", "wCount")
  /\ txHead' = Succ(txHead)
  /\ UNCHANGED <<Locals, enables, txLine, txBuf, txTail, txCount, txHist>> /\ NoRx

WriteCount ==
  /\ At("wCount", "wKick")
  /\ txCount' = Inc(txCount)
  /\ UNCHANGED <<Locals, enables, txLine, txBuf, txHead, txTail, txHist>> /\ NoRx

WriteKick ==
  /\ At("wKick", "wTest")
  /\ txie' = TRUE
  /\ todo' = todo - 1
  /\ UNCHANGED <<ret, byte, txSnap, rcSnap, gie, rcie, txLine, txRing, txHist>>
  /\ NoRx

-----------------------------------------------------------------------------
(* epic_dispatch_all_irqs on the main line: PIR1 is read once; the RX      *)
(* handler tests RCIF again and takes the byte; the TX handler runs when   *)
(* the copy, TXIE and TXIF itself agree.                                   *)
DispatchPir ==
  /\ At("dPir", "dRx")
  /\ txSnap' = TXIF /\ rcSnap' = RCIF
  /\ UNCHANGED <<ret, todo, byte, gie, rcie>> /\ NoTx /\ NoRx

DispatchRx ==
  /\ pc = "dRx"
  /\ \/ /\ rcSnap /\ RCIF
        /\ pc' = "dRxTest"
        /\ byte' = Head(rcreg) /\ rcreg' = Tail(rcreg)
     \/ /\ ~(rcSnap /\ RCIF)
        /\ pc' = "dTx"
        /\ UNCHANGED <<byte, rcreg>>
  /\ UNCHANGED <<ret, todo, txSnap, rcSnap, gie, rcie, oerr, rxIn, rxRing, rxHist>>
  /\ NoTx

DispatchRxTest ==
  /\ pc = "dRxTest"
  /\ \/ /\ rxCount < SZ
        /\ pc' = "dRxHead"
        /\ rxBuf' = [rxBuf EXCEPT ![rxHead] = byte]
        /\ UNCHANGED rxDropped
     \/ /\ rxCount >= SZ
        /\ pc' = "dTx"
        /\ rxDropped' = rxDropped + 1
        /\ UNCHANGED rxBuf
  /\ UNCHANGED <<Locals, gie, rcie, rxLine, rxHead, rxTail, rxCount, rxOut, rxLast>>
  /\ NoTx

DispatchRxHead ==
  /\ At("dRxHead", "dRxCount")
  /\ rxHead' = Succ(rxHead)
  /\ UNCHANGED <<Locals, gie, rcie, rxLine, rxBuf, rxTail, rxCount, rxHist>> /\ NoTx

DispatchRxCount ==
  /\ At("dRxCount", "dTx")
  /\ rxCount' = Inc(rxCount)
  /\ UNCHANGED <<Locals, gie, rcie, rxLine, rxBuf, rxHead, rxTail, rxHist>> /\ NoTx

DispatchTx ==
  /\ pc = "dTx"
  /\ \/ txSnap /\ txie /\ TXIF /\ pc' = "dTest"
     \/ ~(txSnap /\ txie /\ TXIF) /\ pc' = ret
  /\ UNCHANGED <<Locals, gie, rcie>> /\ NoTx /\ NoRx

DispatchTest ==
  /\ pc = "dTest"
  /\ \/ txCount > 0 /\ pc' = "dLoad" /\ UNCHANGED txie
     \/ txCount = 0 /\ pc' = ret /\ txie' = FALSE
  /\ UNCHANGED <<Locals, gie, rcie, txLine, txRing, txHist>> /\ NoRx

DispatchLoad ==
  /\ At("dLoad", "dTail")
  /\ byte' = txBuf[txTail]
  /\ UNCHANGED <<ret, todo, txSnap, rcSnap, gie, rcie>> /\ NoTx /\ NoRx

DispatchTail ==
  /\ At("dTail", "dCount")
  /\ txTail' = Succ(txTail)
  /\ UNCHANGED <<Locals, enables, txLine, txBuf, txHead, txCount, txHist>> /\ NoRx

DispatchCount ==
  /\ At("dCount", "dSend")
  /\ txCount' = Dec(txCount)
  /\ UNCHANGED <<Locals, enables, txLine, txBuf, txHead, txTail, txHist>> /\ NoRx

DispatchSend ==
  /\ pc = "dSend" /\ pc' = ret
  /\ WriteTXREG(byte)
  /\ UNCHANGED <<Locals, enables, txRing, txHist>> /\ NoRx

-----------------------------------------------------------------------------
(* epic_serial_flush: wait for the ring, then for TRMT.                    *)
AppFlush ==
  /\ At("idle", "fRing")
  /\ AppWaits \/ ~gie
  /\ UNCHANGED <<Locals, gie, rcie>> /\ NoTx /\ NoRx

(* Mutation of FlushRing: wait for the service routine, dispatch nothing.  *)
FlushRingSpin ==
  /\ pc = "fRing"
  /\ \/ txCount > 0 /\ pc' = "fRing"
     \/ txCount = 0 /\ pc' = "fShift"
  /\ UNCHANGED <<Locals, gie, rcie>> /\ NoTx /\ NoRx

(* Mutation of FlushRing: the shift register is not waited for.            *)
FlushRingOnly ==
  /\ pc = "fRing"
  /\ \/ txCount > 0 /\ pc' = "dPir" /\ ret' = "fRing"
     \/ txCount = 0 /\ pc' = "flushed" /\ UNCHANGED ret
  /\ UNCHANGED <<todo, byte, txSnap, rcSnap, gie, rcie>> /\ NoTx /\ NoRx

FlushRing ==
  /\ pc = "fRing"
  /\ \/ txCount > 0 /\ pc' = "dPir" /\ ret' = "fRing"
     \/ txCount = 0 /\ pc' = "fShift" /\ UNCHANGED ret
  /\ UNCHANGED <<todo, byte, txSnap, rcSnap, gie, rcie>> /\ NoTx /\ NoRx

FlushShift ==
  /\ pc = "fShift"
  /\ \/ tsr # 0 /\ pc' = "dPir" /\ ret' = "fShift"
     \/ tsr = 0 /\ pc' = "flushed" /\ UNCHANGED ret
  /\ UNCHANGED <<todo, byte, txSnap, rcSnap, gie, rcie>> /\ NoTx /\ NoRx

FlushReturn ==
  /\ At("flushed", "idle")
  /\ UNCHANGED <<Locals, gie, rcie>> /\ NoTx /\ NoRx

-----------------------------------------------------------------------------
(* epic_serial_read.                                                       *)
AppRead(n) ==
  /\ At("idle", "rTest")
  /\ todo' = n
  /\ UNCHANGED <<ret, byte, txSnap, rcSnap, gie, rcie>> /\ NoTx /\ NoRx

ReadTest ==
  /\ pc = "rTest"
  /\ \/ todo > 0 /\ rxCount > 0 /\ pc' = "rLoad"
     \/ ~(todo > 0 /\ rxCount > 0) /\ pc' = "idle"
  /\ UNCHANGED <<Locals, gie, rcie>> /\ NoTx /\ NoRx

ReadLoad ==
  /\ At("rLoad", "rTail")
  /\ rxLast' = rxBuf[rxTail]
  /\ rxOut' = rxOut + 1
  /\ todo' = todo - 1
  /\ UNCHANGED <<ret, byte, txSnap, rcSnap, gie, rcie, rxLine, rxRing, rxDropped>>
  /\ NoTx

ReadTail ==
  /\ At("rTail", "rCount")
  /\ rxTail' = Succ(rxTail)
  /\ UNCHANGED <<Locals, gie, rcie, rxLine, rxBuf, rxHead, rxCount, rxHist>> /\ NoTx

(* Mutation of ReadCount: the count is zeroed, not decremented.            *)
ReadCountClear ==
  /\ At("rCount", "rTest")
  /\ rxCount' = 0
  /\ UNCHANGED <<Locals, gie, rcie, rxLine, rxBuf, rxHead, rxTail, rxHist>> /\ NoTx

ReadCount ==
  /\ At("rCount", "rTest")
  /\ rxCount' = Dec(rxCount)
  /\ UNCHANGED <<Locals, gie, rcie, rxLine, rxBuf, rxHead, rxTail, rxHist>> /\ NoTx

-----------------------------------------------------------------------------
Init ==
  /\ lag = 0
  /\ pc = "init" /\ ret = "idle" /\ todo = 0 /\ byte = 0
  /\ txSnap = FALSE /\ rcSnap = FALSE
  /\ gie = GieBeforeInit /\ txie = FALSE /\ rcie = FALSE
  /\ hold = 0 /\ tsr = 0
  /\ rcreg = << >> /\ oerr = FALSE
  /\ txBuf = [i \in 0 .. SZ - 1 |-> 0] /\ txHead = 0 /\ txTail = 0 /\ txCount = 0
  /\ rxBuf = [i \in 0 .. SZ - 1 |-> 0] /\ rxHead = 0 /\ rxTail = 0 /\ rxCount = 0
  /\ txIn = 0 /\ wire = 0 /\ wireLast = 0
  /\ rxIn = 0 /\ rxOut = 0 /\ rxLast = 0 /\ rxDropped = 0

Initialise == \/ InitUsart \/ InitTxOff \/ InitTx
              \/ InitRxCount \/ InitRxTail \/ InitRxHead

App == \/ \E n \in 1 .. MaxLen : AppWrite(n) \/ AppRead(n)
       \/ AppFlush

Write == WriteTest \/ WriteStore \/ WriteHead \/ WriteCount \/ WriteKick

Dispatch == \/ DispatchPir
            \/ DispatchRx \/ DispatchRxTest \/ DispatchRxHead \/ DispatchRxCount
            \/ DispatchTx \/ DispatchTest \/ DispatchLoad \/ DispatchTail
            \/ DispatchCount \/ DispatchSend

Flush == FlushRing \/ FlushShift \/ FlushReturn

Read == ReadTest \/ ReadLoad \/ ReadTail \/ ReadCount

(* The code of the library, once called, and the program that calls it.    *)
(* A pending interrupt is taken after at most Latency more accesses.       *)
MainLine == Initialise \/ Write \/ Dispatch \/ Flush \/ Read
Program  == EnableGie \/ App

Preemptible(action) ==
  /\ Pending => lag < Latency
  /\ lag' = IF Pending THEN lag + 1 ELSE 0
  /\ action

Next ==
  \/ Preemptible(MainLine)
  \/ Preemptible(Program)
  \/ Isr
  \/ ShiftOut
  \/ Arrive

(* The core keeps executing, a pending enabled interrupt is taken, the     *)
(* shift register keeps shifting, and the program enables interrupts after *)
(* init as the header requires.  Nothing makes the program call or the     *)
(* line deliver.                                                           *)
Fairness == /\ WF_vars(Preemptible(MainLine))
            /\ WF_vars(Isr)
            /\ WF_vars(ShiftOut)
            /\ SF_vars(Preemptible(EnableGie))

Spec == Init /\ [][Next]_vars /\ Fairness
-----------------------------------------------------------------------------
Pcs == {"init", "initTxOff", "initTx", "initRxCount", "initRxTail", "initRxHead",
        "idle", "wTest", "wStore", "wHead", "wCount", "wKick",
        "dPir", "dRx", "dRxTest", "dRxHead", "dRxCount",
        "dTx", "dTest", "dLoad", "dTail", "dCount", "dSend",
        "fRing", "fShift", "flushed", "rTest", "rLoad", "rTail", "rCount"}

(* Types.  The counts never leave 0..SZ and the indices never leave the    *)
(* rings, so neither buffer is ever indexed outside its bounds.            *)
TypeOK ==
  /\ pc \in Pcs /\ ret \in {"idle", "wTest", "fRing", "fShift"}
  /\ lag \in 0 .. Latency
  /\ todo \in 0 .. MaxLen /\ byte \in Nat
  /\ txSnap \in BOOLEAN /\ rcSnap \in BOOLEAN
  /\ gie \in BOOLEAN /\ txie \in BOOLEAN /\ rcie \in BOOLEAN /\ oerr \in BOOLEAN
  /\ hold \in Nat /\ tsr \in Nat
  /\ rcreg \in Seq(Nat) /\ Len(rcreg) <= 2
  /\ txBuf \in [0 .. SZ - 1 -> Nat] /\ rxBuf \in [0 .. SZ - 1 -> Nat]
  /\ txHead \in 0 .. SZ - 1 /\ txTail \in 0 .. SZ - 1 /\ txCount \in 0 .. SZ
  /\ rxHead \in 0 .. SZ - 1 /\ rxTail \in 0 .. SZ - 1 /\ rxCount \in 0 .. SZ
  /\ txIn \in Nat /\ wire \in Nat /\ wireLast \in Nat
  /\ rxIn \in Nat /\ rxOut \in Nat /\ rxLast \in Nat /\ rxDropped \in Nat

(* The transmitter is a byte channel: what epic_serial_write stores leaves *)
(* on the line complete, in order and once, however the drain by the       *)
(* service routine, the drain by the main line and the hardware            *)
(* interleave; at most the ring, TXREG and the shift register are in use.  *)
Channel == INSTANCE ByteChannel WITH
             Cap <- SZ + 2, accepted <- txIn, delivered <- wire, last <- wireLast
TxFifo == Channel!Spec

(* Demand-driven TX loses no wakeup: a byte that was stored leaves on the  *)
(* line, though the handler disarms TXIE whenever it finds the ring empty  *)
(* and only the next write arms it again.                                  *)
TxDelivered == \A n \in 1 .. MaxTx : txIn >= n ~> wire >= n

(* No call hangs: write on a full ring, flush and read come back.          *)
CallsReturn == pc # "idle" ~> pc = "idle"

(* When epic_serial_flush returns, no byte is in the ring, in TXREG or in  *)
(* the shift register, and the line has seen everything written.           *)
FlushComplete ==
  pc = "flushed" => txCount = 0 /\ hold = 0 /\ tsr = 0 /\ wire = txIn

(* epic_serial_read hands bytes over in the order they arrived and never   *)
(* twice, although the RX handler may run between any two of its accesses. *)
RxInOrder == [][rxOut' # rxOut => rxLast' > rxLast]_<<rxOut, rxLast>>

(* A byte the receiver latched is in RCREG, in the ring, on its way into   *)
(* the ring on the main line, read, or was dropped because the ring was    *)
(* full: none vanishes, none is made up.                                   *)
InFlightRx == IF pc \in {"dRxTest", "dRxHead", "dRxCount"} THEN 1 ELSE 0
HalfRead   == IF pc \in {"rTail", "rCount"} THEN 1 ELSE 0
RxAccounted ==
  rxIn + HalfRead = rxOut + rxDropped + rxCount + Len(rcreg) + InFlightRx

=============================================================================
