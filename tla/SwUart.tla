------------------------------- MODULE SwUart -------------------------------
(***************************************************************************)
(* The software UART of lib/swuart: a transmitter driven by the compare    *)
(* events of CCP2, a receiver driven by the capture and compare events of  *)
(* CCP1, both against the free-running Timer1.  The transmitter's pin is   *)
(* wired to the receiver's, as it would be to a peer with the same clock.  *)
(*                                                                         *)
(* Time is counted in ticks, a fraction of a bit.  A compare match acts on *)
(* the pin in the tick it falls in; the service routine runs with GIE      *)
(* clear, one step, at most Latency ticks after a flag has risen.  The     *)
(* main line takes one step per access to a field the interrupt shares (an *)
(* index of its own goes with the access next to it), and a call lasts     *)
(* at most CallTime ticks; the locals of a call are reset when it ends.   *)
(* A byte is its own number, so it has Bits bits.                          *)
(***************************************************************************)
EXTENDS Naturals

CONSTANTS
  SZ,             (* EPIC_SWUART_RING_SZ                                   *)
  Bits,           (* data bits of a frame                                  *)
  Bit,            (* g_cycles_per_bit, in ticks                            *)
  Lead,           (* SWUART_LEAD_CYCLES, in ticks                          *)
  Correction,     (* RX_CAPTURE_OVERHEAD_CYCLES, in ticks                  *)
  Work,           (* ticks the fast path takes from its look at the pin to *)
                  (* its reading of Timer1                                 *)
  Paths,          (* may EPIC_SWUART_HAS_RX_FAST_PATH be FALSE, TRUE       *)
  Latency,        (* ticks until a pending event has been handled          *)
  CallTime,       (* ticks a call of the library may take                  *)
  Wrap,           (* Timer1 counts modulo Wrap                             *)
  MaxTx,          (* bound: bytes written in a session                     *)
  MaxFaults,      (* bound: breaks and spikes on the line in a session     *)
  WritesAnyTime   (* Write may be called while a stop bit is pending or    *)
                  (* on the line                                           *)

Half  == Bit \div 2
Frame == (Bits + 2) * Bit
Top   == 2 ^ (Bits - 1)             (* where a sampled bit comes in        *)
Bytes == 0 .. 2 * Top - 1

(* How late after the edge the fast path takes its look at the pin to be.  *)
Overhead == Correction - Work

ASSUME SwUartAssumption ==
  /\ SZ \in {1, 2, 4, 8, 16, 32, 64, 128}
  /\ Bits \in Nat \ {0} /\ Bit \in Nat \ {0} /\ Lead \in Nat
  /\ Correction \in Nat /\ Work \in 0 .. Correction
  /\ Latency \in Nat /\ CallTime \in Nat
  /\ Wrap \in Nat \ {0} /\ Correction <= Wrap
  /\ Paths \subseteq BOOLEAN
  /\ MaxTx \in Bytes
  /\ MaxFaults \in Nat
  /\ WritesAnyTime \in BOOLEAN

(* The margins the architecture notes of the library argue for: an event   *)
(* is handled within half a bit, before the next one is due, the lead      *)
(* outlasts the call, the first sample lies inside the first data bit, and *)
(* no deadline is set a turn of Timer1 ahead.  Not every build meets them: *)
(* the notes say so of 9600 baud on the families without the fast path.    *)
InMargins ==
  /\ Latency < Half /\ CallTime < Lead /\ Lead < Bit
  /\ Overhead <= Half /\ Half + 2 * Latency < Bit + Overhead
  /\ Bit + Half < Wrap

VARIABLES
  t, on,         (* Timer1 and TMR1ON                                      *)
  pin, brk,      (* the TX pin; the line is held low from outside          *)
  held,          (* ticks since the line's last event, capped             *)
  wait, spent,   (* ticks an event has been pending, ticks in this call    *)
  gie,
  ccp1, ccp2,    (* mode, CCPR, flag, interrupt enable, callback set       *)
  chan,          (* g_chan_a points to the handle                          *)
  fault,         (* a handler has run on a NULL channel                    *)
  fast,          (* EPIC_SWUART_HAS_RX_FAST_PATH                           *)
  tx, rx, errs,  (* the handle                                             *)
  pc, todo, some,     (* main line: next step, bytes left, written > 0     *)
  lo, first, from,    (* GetErrorCount: low byte, first read; history      *)
  txIn,               (* history: bytes stored by Write                    *)
  came, cameLast,     (* history: frames received, the last byte           *)
  rxOut, rxLast,      (* history: bytes read, the last one                 *)
  breaks, noise

clock  == <<t, on, pin, brk, held>>
ccps   == <<ccp1, ccp2, gie, chan, fault>>
locals == <<todo, some, lo, first, from>>
rxHist == <<came, cameLast>>
hist   == <<txIn, rxOut, rxLast>>
bounds == <<breaks, noise, fast>>
vars == <<clock, wait, spent, ccps, tx, rx, errs, pc, locals, rxHist, hist, bounds>>

Later(x, d) == (x + d) % Wrap      (* uint16_t sums of Timer1 counts       *)
Succ(i)     == (i + 1) % SZ
Inc(c)      == (c + 1) % 256
Dec(c)      == (c + 255) % 256
Level       == IF brk THEN 0 ELSE pin

-----------------------------------------------------------------------------
(* tx_compare_event: what the compare after this one does to the pin.      *)
ArmNext(s, mode) ==
  /\ tx' = s
  /\ ccp2' = [ccp2 EXCEPT !.flag = FALSE, !.reg = Later(ccp2.reg, Bit), !.mode = mode]

TxPop == [tx EXCEPT !.shift = tx.buf[tx.tail], !.tail = Succ(tx.tail),
                    !.count = Dec(tx.count), !.idx = 0, !.state = "DATA"]

TxIdleEvent ==
  /\ tx.state = "IDLE"
  /\ \/ /\ tx.count = 0
        /\ ccp2' = [ccp2 EXCEPT !.flag = FALSE, !.mode = "off"]
        /\ UNCHANGED tx
     \/ /\ tx.count > 0
        /\ ArmNext(TxPop, "clear")

ShiftOut(n) ==
  /\ tx.state = "DATA"
  /\ ArmNext([tx EXCEPT !.shift = tx.shift \div 2, !.idx = tx.idx + 1,
                        !.state = IF tx.idx + 1 >= n THEN "STOP" ELSE "DATA"],
             IF tx.shift % 2 = 1 THEN "set" ELSE "clear")

(* Mutation of TxDataEvent: one bit too few.                               *)
TxDataEventEarly == ShiftOut(Bits - 1)

TxDataEvent == ShiftOut(Bits)

TxStopEvent ==
  /\ tx.state = "STOP"
  /\ ArmNext([tx EXCEPT !.state = "IDLE"], "set")

-----------------------------------------------------------------------------
(* rx_capture_event and rx_capture_event_fast.                             *)
Arm1(when) == ccp1' = [ccp1 EXCEPT !.flag = FALSE, !.reg = when, !.mode = "soft"]
Listen     == ccp1' = [ccp1 EXCEPT !.flag = FALSE, !.mode = "capture"]
StartByte  == [rx EXCEPT !.shift = 0, !.idx = 0, !.state = "DATA"]

(* A start edge.  The fast path looks at the pin at once and counts from a *)
(* reading of Timer1 taken Work later: the sum below is t + Work + Bit +   *)
(* Half - Correction.  The generic path looks again half a bit after the   *)
(* edge, which is over if the handler is that late: the match is then a    *)
(* turn of Timer1 away.                                                    *)
RxEdge ==
  /\ rx.state = "IDLE"
  /\ \/ /\ fast /\ Level = 1
        /\ ccp1' = [ccp1 EXCEPT !.flag = FALSE]
        /\ UNCHANGED rx
     \/ /\ fast /\ Level = 0
        /\ rx' = StartByte
        /\ Arm1(Later(t, Bit + Half + Wrap - Overhead))
     \/ /\ ~fast
        /\ rx' = [rx EXCEPT !.state = "CONFIRM"]
        /\ Arm1(Later(ccp1.reg, Half))
  /\ UNCHANGED <<errs, rxHist>>

RxConfirm ==
  /\ rx.state = "CONFIRM"
  /\ \/ /\ Level = 1
        /\ rx' = [rx EXCEPT !.state = "IDLE"]
        /\ Listen
     \/ /\ Level = 0
        /\ rx' = StartByte
        /\ Arm1(Later(ccp1.reg, Bit))
  /\ UNCHANGED <<errs, rxHist>>

RxSample ==
  /\ rx.state = "DATA"
  /\ rx' = [rx EXCEPT !.shift = (rx.shift \div 2) + Level * Top,
                      !.idx = rx.idx + 1,
                      !.state = IF rx.idx + 1 < Bits THEN "DATA" ELSE "STOP"]
  /\ Arm1(Later(ccp1.reg, Bit))
  /\ UNCHANGED <<errs, rxHist>>

RxStore == [rx EXCEPT !.buf[rx.head] = rx.shift, !.head = Succ(rx.head),
                      !.count = Inc(rx.count), !.state = "IDLE"]

(* Mutation of RxStop: a byte that finds the ring full is not counted.     *)
RxStopSilent ==
  /\ rx.state = "STOP"
  /\ Listen
  /\ \/ Level = 1 /\ rx.count < SZ /\ rx' = RxStore
     \/ (Level = 0 \/ rx.count >= SZ) /\ rx' = [rx EXCEPT !.state = "IDLE"]
  /\ errs' = errs + (1 - Level)
  /\ came' = came + Level
  /\ cameLast' = IF Level = 1 THEN rx.shift ELSE cameLast

(* Mutation of RxStop: no room is looked for.                              *)
RxStopOverwrite ==
  /\ rx.state = "STOP"
  /\ Listen
  /\ \/ Level = 1 /\ rx' = RxStore /\ UNCHANGED errs
     \/ Level = 0 /\ rx' = [rx EXCEPT !.state = "IDLE"] /\ errs' = errs + 1
  /\ came' = came + Level
  /\ cameLast' = IF Level = 1 THEN rx.shift ELSE cameLast

(* The stop bit: rx_push, or an error.                                     *)
RxStop ==
  /\ rx.state = "STOP"
  /\ Listen
  /\ \/ /\ Level = 1 /\ rx.count < SZ
        /\ rx' = RxStore
        /\ UNCHANGED errs
     \/ /\ Level = 0 \/ rx.count >= SZ
        /\ rx' = [rx EXCEPT !.state = "IDLE"]
        /\ errs' = errs + 1
  /\ came' = came + Level
  /\ cameLast' = IF Level = 1 THEN rx.shift ELSE cameLast

-----------------------------------------------------------------------------
(* The service routine.  The dispatcher asks for the flag, not for the     *)
(* enable bit; the handler clears the flag and calls the callback, if any. *)
IsrRx ==
  \/ ccp1.flag /\ ccp1.cb /\ chan /\ (RxEdge \/ RxConfirm \/ RxSample \/ RxStop)
  \/ /\ ~(ccp1.flag /\ ccp1.cb /\ chan)
     /\ ccp1' = [ccp1 EXCEPT !.flag = FALSE]
     /\ UNCHANGED <<rx, errs, rxHist>>

IsrTx ==
  \/ ccp2.flag /\ ccp2.cb /\ chan /\ (TxIdleEvent \/ TxDataEvent \/ TxStopEvent)
  \/ /\ ~(ccp2.flag /\ ccp2.cb /\ chan)
     /\ ccp2' = [ccp2 EXCEPT !.flag = FALSE]
     /\ UNCHANGED tx

Pending == gie /\ ((ccp1.flag /\ ccp1.ie) \/ (ccp2.flag /\ ccp2.ie))

Isr ==
  /\ Pending
  /\ IsrRx /\ IsrTx
  /\ fault' = (fault \/ (~chan /\ ((ccp1.flag /\ ccp1.cb) \/ (ccp2.flag /\ ccp2.cb))))
  /\ wait' = 0
  /\ UNCHANGED <<clock, spent, gie, chan, pc, locals, hist, bounds>>

-----------------------------------------------------------------------------
(* The hardware: Timer1 counts; a compare match sets or clears the pin and *)
(* raises the flag; a falling edge is captured with its time.              *)
Matches(c, now) == c.mode \in {"set", "clear", "soft"} /\ c.reg = now

Tick ==
  /\ on
  /\ Pending => wait < Latency
  /\ pc # "idle" => spent < CallTime
  /\ UNCHANGED <<on, brk, gie, chan, fault, tx, rx, errs, pc, locals, rxHist, hist, bounds>>
  /\ t' = Later(t, 1)
  /\ pin' = IF ~Matches(ccp2, t') THEN pin ELSE IF ccp2.mode = "set" THEN 1 ELSE 0
  /\ ccp2' = [ccp2 EXCEPT !.flag = ccp2.flag \/ Matches(ccp2, t')]
  /\ LET falls == Level' < Level /\ ccp1.mode = "capture"
     IN  ccp1' = [ccp1 EXCEPT !.flag = ccp1.flag \/ falls \/ Matches(ccp1, t'),
                              !.reg = IF falls THEN t' ELSE ccp1.reg]
  /\ held' = IF Matches(ccp2, t') THEN 0
              ELSE IF held < IF brk THEN Frame ELSE Bit THEN held + 1 ELSE held
  /\ wait' = IF Pending THEN wait + 1 ELSE 0
  /\ spent' = IF pc = "idle" THEN 0 ELSE spent + 1

(* Nothing of a frame is left to send, and its stop bit is over.           *)
Quiet == /\ chan /\ pc = "idle" /\ ~brk /\ pin = 1
         /\ tx.state = "IDLE" /\ tx.count = 0 /\ ccp2.mode = "off" /\ ~ccp2.flag
         /\ rx.state = "IDLE" /\ ~ccp1.flag /\ ccp1.mode = "capture"
         /\ held >= Bit

Captured == ccp1' = [ccp1 EXCEPT !.flag = TRUE, !.reg = t]

(* A break: the line is held low for longer than a frame.                  *)
BreakOn ==
  /\ Quiet /\ breaks + noise < MaxFaults
  /\ brk' = TRUE /\ held' = 0
  /\ breaks' = breaks + 1
  /\ Captured
  /\ UNCHANGED <<t, on, pin, wait, spent, ccp2, gie, chan, fault, tx, rx, errs, pc,
                 locals, rxHist, hist, noise, fast>>

BreakOff ==
  /\ brk /\ held = Frame
  /\ brk' = FALSE /\ held' = 0
  /\ UNCHANGED <<t, on, pin, wait, spent, ccps, tx, rx, errs, pc, locals, rxHist,
                 hist, bounds>>

(* A spike: the edge is captured, the line is high again when anyone looks. *)
Spike ==
  /\ Quiet /\ breaks + noise < MaxFaults
  /\ noise' = noise + 1
  /\ Captured
  /\ UNCHANGED <<clock, wait, spent, ccp2, gie, chan, fault, tx, rx, errs, pc, locals,
                 rxHist, hist, breaks, fast>>

-----------------------------------------------------------------------------
(* Main line.  A call starts with its time unspent.                        *)
At(p, q)   == pc = p /\ pc' = q
Call(q)    == At("idle", q) /\ spent' = 0
Step(p, q) == At(p, q) /\ UNCHANGED spent
NoTime     == UNCHANGED <<clock, wait>>
Peripheral == UNCHANGED <<gie, chan, fault>>
Others     == NoTime /\ UNCHANGED <<fast, breaks, noise, came, cameLast>>

TxStep(p, q, new) ==
  /\ Step(p, q) /\ tx' = new
  /\ Others /\ UNCHANGED <<ccps, rx, errs, locals, hist>>

(* EPIC_SWUART_Write.  With WritesAnyTime false the program writes to a    *)
(* channel that has finished, stop bit and all, or to one that is not      *)
(* going to finish before the call returns.                                *)
AppWrite(n) ==
  /\ Call("wStore")
  /\ chan /\ ~brk /\ txIn + n <= MaxTx
  /\ WritesAnyTime \/ tx.state = "DATA" \/ Quiet
  /\ todo' = n /\ some' = FALSE
  /\ Others /\ UNCHANGED <<ccps, tx, rx, errs, lo, first, from, hist>>

(* Mutation of WriteStore: the full test is off by one.                    *)
WriteStoreOffByOne ==
  /\ pc = "wStore"
  /\ \/ /\ todo > 0 /\ tx.count <= SZ
        /\ pc' = "wCount"
        /\ tx' = [tx EXCEPT !.buf[tx.head] = txIn + 1, !.head = Succ(tx.head)]
        /\ txIn' = txIn + 1
     \/ /\ todo = 0 \/ tx.count > SZ
        /\ pc' = "wTest"
        /\ UNCHANGED <<tx, txIn>>
  /\ Others /\ UNCHANGED <<spent, ccps, rx, errs, locals, rxOut, rxLast>>

WriteStore ==
  /\ pc = "wStore"
  /\ \/ /\ todo > 0 /\ tx.count < SZ
        /\ pc' = "wCount"
        /\ tx' = [tx EXCEPT !.buf[tx.head] = txIn + 1, !.head = Succ(tx.head)]
        /\ txIn' = txIn + 1
     \/ /\ todo = 0 \/ tx.count >= SZ
        /\ pc' = "wTest"
        /\ UNCHANGED <<tx, txIn>>
  /\ Others /\ UNCHANGED <<spent, ccps, rx, errs, locals, rxOut, rxLast>>

WriteCount ==
  /\ Step("wCount", "wStore")
  /\ tx' = [tx EXCEPT !.count = Inc(tx.count)]
  /\ todo' = todo - 1 /\ some' = TRUE
  /\ Others /\ UNCHANGED <<ccps, rx, errs, lo, first, from, hist>>

(* Mutation of WriteTest: only the first byte in the ring starts it.       *)
WriteTestFirst ==
  /\ pc = "wTest"
  /\ pc' = IF some /\ tx.state = "IDLE" /\ tx.count = 1 THEN "aLoad" ELSE "idle"
  /\ todo' = 0 /\ some' = FALSE
  /\ Others /\ UNCHANGED <<spent, ccps, tx, rx, errs, lo, first, from, hist>>

WriteTest ==
  /\ pc = "wTest"
  /\ pc' = IF some /\ tx.state = "IDLE" THEN "aLoad" ELSE "idle"
  /\ todo' = 0 /\ some' = FALSE
  /\ Others /\ UNCHANGED <<spent, ccps, tx, rx, errs, lo, first, from, hist>>

ArmLoad  == TxStep("aLoad", "aTail", [tx EXCEPT !.shift = tx.buf[tx.tail]])
ArmTail  == TxStep("aTail", "aCount", [tx EXCEPT !.tail = Succ(tx.tail)])
ArmCount == TxStep("aCount", "aIndex", [tx EXCEPT !.count = Dec(tx.count)])
ArmIndex == TxStep("aIndex", "aState", [tx EXCEPT !.idx = 0])
ArmState == TxStep("aState", "aTime", [tx EXCEPT !.state = "DATA"])

Ccp2Step(p, q, new) ==
  /\ Step(p, q) /\ ccp2' = new
  /\ Others /\ Peripheral /\ UNCHANGED <<ccp1, tx, rx, errs, locals, hist>>

ArmTime == Ccp2Step("aTime", "aMode", [ccp2 EXCEPT !.reg = Later(t, Lead)])
ArmMode == Ccp2Step("aMode", "idle", [ccp2 EXCEPT !.mode = "clear"])

-----------------------------------------------------------------------------
(* EPIC_SWUART_Read, with room for a full ring.                            *)
AppRead ==
  /\ Call("rTest") /\ chan
  /\ todo' = SZ
  /\ Others /\ UNCHANGED <<ccps, tx, rx, errs, some, lo, first, from, hist>>

ReadTest ==
  /\ \/ todo > 0 /\ rx.count > 0 /\ At("rTest", "rLoad") /\ UNCHANGED todo
     \/ (todo = 0 \/ rx.count = 0) /\ At("rTest", "idle") /\ todo' = 0
  /\ Others /\ UNCHANGED <<spent, ccps, tx, rx, errs, some, lo, first, from, hist>>

ReadLoad ==
  /\ Step("rLoad", "rCount")
  /\ rxOut' = rxOut + 1 /\ rxLast' = rx.buf[rx.tail]
  /\ rx' = [rx EXCEPT !.tail = Succ(rx.tail)]
  /\ todo' = todo - 1
  /\ Others /\ UNCHANGED <<ccps, tx, errs, some, lo, first, from, txIn>>

ReadCount ==
  /\ Step("rCount", "rTest")
  /\ rx' = [rx EXCEPT !.count = Dec(rx.count)]
  /\ Others /\ UNCHANGED <<ccps, tx, errs, locals, hist>>

(* EPIC_SWUART_GetErrorCount: two bytes, read twice until they agree.  A   *)
(* byte of the counter is one bit here.                                    *)
AppErrors ==
  /\ Call("eHi") /\ chan
  /\ from' = errs /\ lo' = errs % 2
  /\ Others /\ UNCHANGED <<ccps, tx, rx, errs, todo, some, first, hist>>

ErrLo(p, q) ==
  /\ Step(p, q)
  /\ lo' = errs % 2
  /\ Others /\ UNCHANGED <<ccps, tx, rx, errs, todo, some, first, from, hist>>

ErrFirst ==
  /\ Step("eHi", "eLo2")
  /\ first' = lo + 2 * (errs \div 2)
  /\ Others /\ UNCHANGED <<ccps, tx, rx, errs, todo, some, lo, from, hist>>

(* Mutation of ErrSecond: the first read is returned.                      *)
ErrSecondOnce ==
  /\ Step("eHi2", "idle")
  /\ lo' = 0 /\ first' = 0 /\ from' = 0
  /\ Others /\ UNCHANGED <<ccps, tx, rx, errs, todo, some, hist>>

ErrSecond ==
  /\ LET second == lo + 2 * (errs \div 2) IN
     \/ second = first /\ Step("eHi2", "idle") /\ lo' = 0 /\ first' = 0 /\ from' = 0
     \/ second # first /\ Step("eHi2", "eLo") /\ UNCHANGED <<lo, first, from>>
  /\ Others /\ UNCHANGED <<ccps, tx, rx, errs, todo, some, hist>>

-----------------------------------------------------------------------------
Unset   == [mode |-> "off", reg |-> 0, flag |-> FALSE, ie |-> FALSE, cb |-> FALSE]
Nothing == [i \in 0 .. SZ - 1 |-> 0]
Handle  == [state |-> "IDLE", shift |-> 0, idx |-> 0, buf |-> Nothing,
            head |-> 0, tail |-> 0, count |-> 0]

(* EPIC_SWUART_Init: the handle, the pins and Timer1; the two CCP modules; *)
(* GIE; and last the channel.  Nothing arrives before it returns.          *)
InitHandle ==
  /\ Call("iRx") /\ ~chan
  /\ tx' = Handle /\ rx' = Handle /\ errs' = 0
  /\ pin' = 1 /\ t' = 0 /\ on' = TRUE /\ held' = Bit
  /\ txIn' = 0 /\ came' = 0 /\ cameLast' = 0 /\ rxOut' = 0 /\ rxLast' = 0
  /\ breaks' = 0 /\ noise' = 0
  /\ UNCHANGED <<wait, brk, ccps, locals, fast>>

SetUp(mode) == [mode |-> mode, reg |-> 0, flag |-> FALSE, ie |-> TRUE, cb |-> TRUE]

CcpStep(p, q, new1, new2) ==
  /\ Step(p, q) /\ ccp1' = new1 /\ ccp2' = new2
  /\ Others /\ Peripheral /\ UNCHANGED <<tx, rx, errs, locals, hist>>

InitRx  == CcpStep("iRx", "iTx", SetUp("capture"), ccp2)
InitTx  == CcpStep("iTx", "iGie", ccp1, SetUp("off"))

InitGie ==
  /\ Step("iGie", "iChan")
  /\ gie' = TRUE
  /\ Others /\ UNCHANGED <<ccp1, ccp2, chan, fault, tx, rx, errs, locals, hist>>

ChanStep(p, q, new) ==
  /\ Step(p, q) /\ chan' = new
  /\ Others /\ UNCHANGED <<ccp1, ccp2, gie, fault, tx, rx, errs, locals, hist>>

InitChan == ChanStep("iChan", "idle", TRUE)

(* EPIC_SWUART_DeInit, at any time: EPIC_CCP_DeInit of either module (the  *)
(* interrupt, then the module and its callback), the channel, the pin,     *)
(* Timer1.                                                                 *)
Mute(c) == [c EXCEPT !.ie = FALSE, !.flag = FALSE]
Drop(c) == [c EXCEPT !.mode = "off", !.cb = FALSE]

(* Mutation of AppDeInit: the channel is taken away first.                 *)
AppDeInitChan ==
  /\ Call("dDrop1") /\ chan /\ ~brk
  /\ ccp1' = Mute(ccp1) /\ chan' = FALSE
  /\ Others /\ UNCHANGED <<ccp2, gie, fault, tx, rx, errs, locals, hist>>

AppDeInit ==
  /\ Call("dDrop1") /\ chan /\ ~brk
  /\ ccp1' = Mute(ccp1)
  /\ Others /\ Peripheral /\ UNCHANGED <<ccp2, tx, rx, errs, locals, hist>>

DeInitDrop1 == CcpStep("dDrop1", "dMute2", Drop(ccp1), ccp2)
DeInitMute2 == CcpStep("dMute2", "dDrop2", ccp1, Mute(ccp2))
DeInitDrop2 == CcpStep("dDrop2", "dChan", ccp1, Drop(ccp2))
DeInitChan  == ChanStep("dChan", "dPin", FALSE)

DeInitPin ==
  /\ Step("dPin", "idle")
  /\ pin' = 1 /\ on' = FALSE /\ t' = 0 /\ held' = 0
  /\ UNCHANGED <<brk, wait, fast, breaks, noise, ccps, tx, rx, errs,
                 locals, rxHist, hist>>

-----------------------------------------------------------------------------
Init ==
  /\ t = 0 /\ on = FALSE /\ pin = 1 /\ brk = FALSE /\ held = 0 /\ wait = 0 /\ spent = 0
  /\ gie = FALSE /\ ccp1 = Unset /\ ccp2 = Unset
  /\ chan = FALSE /\ fault = FALSE /\ fast \in Paths
  /\ tx = Handle /\ rx = Handle /\ errs = 0
  /\ pc = "idle" /\ todo = 0 /\ some = FALSE
  /\ lo = 0 /\ first = 0 /\ from = 0
  /\ txIn = 0 /\ came = 0 /\ cameLast = 0 /\ rxOut = 0 /\ rxLast = 0
  /\ breaks = 0 /\ noise = 0

App == \/ InitHandle \/ AppDeInit \/ AppErrors \/ AppRead
       \/ \E n \in 1 .. MaxTx : AppWrite(n)

MainLine ==
  \/ WriteStore \/ WriteCount \/ WriteTest
  \/ ArmLoad \/ ArmTail \/ ArmCount \/ ArmIndex \/ ArmState \/ ArmTime \/ ArmMode
  \/ ReadTest \/ ReadLoad \/ ReadCount
  \/ ErrLo("eLo", "eHi") \/ ErrFirst \/ ErrLo("eLo2", "eHi2") \/ ErrSecond
  \/ InitRx \/ InitTx \/ InitGie \/ InitChan
  \/ DeInitDrop1 \/ DeInitMute2 \/ DeInitDrop2 \/ DeInitChan \/ DeInitPin

Next == App \/ MainLine \/ Isr \/ Tick \/ BreakOn \/ BreakOff \/ Spike

(* The core executes, a pending interrupt is taken, time passes.  Nothing  *)
(* makes the program call or the line misbehave.                           *)
Fairness == WF_vars(MainLine) /\ WF_vars(Isr) /\ WF_vars(Tick)

Spec == Init /\ [][Next]_vars /\ Fairness
-----------------------------------------------------------------------------
HandleType(states) ==
  [state : states, shift : Bytes, idx : 0 .. Bits,
   buf : [0 .. SZ - 1 -> Bytes], head : 0 .. SZ - 1, tail : 0 .. SZ - 1,
   count : 0 .. SZ]
CcpType(modes) ==
  [mode : modes, reg : 0 .. Wrap - 1, flag : BOOLEAN, ie : BOOLEAN, cb : BOOLEAN]

(* Types.  Neither count leaves 0..SZ, neither bit index leaves its byte.  *)
TypeOK ==
  /\ t \in 0 .. Wrap - 1 /\ on \in BOOLEAN /\ pin \in {0, 1} /\ brk \in BOOLEAN
  /\ held \in 0 .. Frame /\ wait \in 0 .. Latency /\ spent \in 0 .. CallTime
  /\ gie \in BOOLEAN /\ chan \in BOOLEAN /\ fault \in BOOLEAN /\ fast \in BOOLEAN
  /\ ccp1 \in CcpType({"off", "capture", "soft"})
  /\ ccp2 \in CcpType({"off", "set", "clear"})
  /\ tx \in HandleType({"IDLE", "DATA", "STOP"})
  /\ rx \in HandleType({"IDLE", "CONFIRM", "DATA", "STOP"})
  /\ errs \in Nat /\ lo \in {0, 1} /\ first \in Nat /\ from \in Nat
  /\ todo \in 0 .. MaxTx + SZ /\ some \in BOOLEAN
  /\ txIn \in 0 .. MaxTx /\ came \in Nat /\ rxOut \in Nat
  /\ cameLast \in Bytes /\ rxLast \in Bytes
  /\ breaks \in 0 .. MaxFaults /\ noise \in 0 .. MaxFaults

(* Transmitter and receiver together are a byte channel: what Write stores *)
(* comes in at the other end complete, with the bits it went out with, in  *)
(* order and once, and no byte is made up, with every event as late as the *)
(* margins let it be, spikes and breaks before a frame, and the wrap of    *)
(* Timer1.  Past the margins it is false, though the comments of the       *)
(* capture handler call it immune to how late it runs.                     *)
Channel == INSTANCE ByteChannel WITH
             Cap <- SZ + 2, accepted <- txIn, delivered <- came, last <- cameLast
Restart == pc' = "iRx"
EndToEnd == Channel!Init /\ [][Channel!Next \/ Restart]_(Channel!channel)

(* Every byte written while the channel stays open comes in: the event     *)
(* that finds the ring empty turns the module off, and a Write at any      *)
(* moment allowed starts it again or is seen by the events still to come.  *)
AllArrive == txIn > came ~> (txIn = came \/ ~chan)

(* Read hands bytes over in the order they came and never twice, though    *)
(* the receiver may push between any two of its accesses.                  *)
ReadInOrder == [][rxOut' = rxOut + 1 => rxLast' > rxLast]_<<rxOut, rxLast>>

(* Nothing is lost silently: with the line at rest, what was written and   *)
(* the breaks there were are the bytes read, the bytes still in the ring,  *)
(* and the errors counted.                                                 *)
LossCounted == Quiet => txIn + breaks = rxOut + rx.count + errs

(* GetErrorCount returns a value the counter had during the call, though   *)
(* the receiver may count between the reads of its two bytes.              *)
ErrorCountReal ==
  [][pc = "eHi2" /\ pc' = "idle" => first \in from .. errs]_<<pc, first, from, errs>>

(* No handler runs without a channel while DeInit takes it down in the     *)
(* middle of frames in both directions.  (Init would need a quiet line, as *)
(* assumed above, whatever it did: it enables its events first.)           *)
NoNullChannel == ~fault

=============================================================================
