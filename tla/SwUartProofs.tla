---------------------------- MODULE SwUartProofs ----------------------------
(***************************************************************************)
(* Proofs about the software UART for every bit time, ring size, latency   *)
(* and number of bytes, whatever the main line does and when.              *)
(***************************************************************************)
EXTENDS SwUart, FiniteSetTheorems, TLAPS

InInit   == {"iRx", "iTx", "iGie", "iChan"}
InDeInit == {"dDrop1", "dMute2", "dDrop2", "dChan"}

Modes ==
  /\ ccp1 \in [mode : {"off", "capture", "soft"}, reg : Nat, flag : BOOLEAN,
               ie : BOOLEAN, cb : BOOLEAN]
  /\ ccp2 \in [mode : {"off", "set", "clear"}, reg : Nat, flag : BOOLEAN,
               ie : BOOLEAN, cb : BOOLEAN]
  /\ t \in Nat

(* The channel is there from the end of Init to near the end of DeInit, and *)
(* a break on the line only while nothing takes it down.                   *)
Open ==
  /\ pc \in InInit \cup {"dPin"} => ~chan
  /\ pc \notin InInit \cup {"dPin", "idle"} => chan
  /\ brk => chan /\ pc \notin InDeInit

(* DeInit takes the callbacks away before the channel.                     *)
Unhooked ==
  /\ pc \in {"dMute2", "dDrop2", "dChan"} => ~ccp1.cb /\ ccp1.mode = "off"
  /\ pc = "dChan" => ~ccp2.cb /\ ccp2.mode = "off"

(* Without a channel a callback is set only inside Init, on a module that  *)
(* has nothing to report: the line is at rest, and no compare is armed.    *)
Silence ==
  ~chan => /\ ccp1.cb => pc \in {"iTx", "iGie", "iChan"} /\ ~ccp1.flag
           /\ ccp1.mode # "soft"
           /\ ccp2.cb => pc \in {"iGie", "iChan"} /\ ~ccp2.flag
           /\ ccp2.mode = "off"

NInv == Modes /\ Open /\ Unhooked /\ Silence /\ ~fault

-----------------------------------------------------------------------------
LEMMA WrapPos == Wrap \in Nat \ {0} /\ Half \in Nat /\ Bit \in Nat /\ Lead \in Nat
                 /\ Overhead \in Nat /\ Overhead <= Wrap
BY SwUartAssumption DEF Half, Overhead

LEMMA LaterNat ==
  ASSUME NEW x \in Nat, NEW d \in Nat
  PROVE  Later(x, d) \in Nat
BY WrapPos DEF Later

(* The capture and compare events of an open channel.                      *)
LEMMA IsrModes ==
  ASSUME Modes, Isr
  PROVE  Modes'
<1> DEFINE R1 == [mode : {"off", "capture", "soft"}, reg : Nat, flag : BOOLEAN,
                  ie : BOOLEAN, cb : BOOLEAN]
           R2 == [mode : {"off", "set", "clear"}, reg : Nat, flag : BOOLEAN,
                  ie : BOOLEAN, cb : BOOLEAN]
<1>0. ccp1 \in R1 /\ ccp2 \in R2 /\ t \in Nat
  BY DEF Modes
<1>1. ccp1' \in R1
  <2>1. \A w \in Nat : Arm1(w) => ccp1' \in R1
    BY <1>0 DEF Arm1
  <2>2. Listen => ccp1' \in R1
    BY <1>0 DEF Listen
  <2>3. CASE RxEdge
    <3>1. /\ Later(t, Bit + Half + Wrap - Overhead) \in Nat
          /\ Later(ccp1.reg, Half) \in Nat
      <4>1. Bit + Half + Wrap - Overhead \in Nat
        BY WrapPos
      <4> QED BY <1>0, <4>1, LaterNat, WrapPos
    <3> HIDE DEF R1
    <3>2. ccp1' = [ccp1 EXCEPT !.flag = FALSE] => ccp1' \in R1
      BY <1>0 DEF R1
    <3> QED BY <2>1, <2>3, <3>1, <3>2 DEF RxEdge
  <2>4. CASE RxConfirm \/ RxSample
    <3>1. Later(ccp1.reg, Bit) \in Nat
      BY <1>0, LaterNat, WrapPos
    <3> QED BY <2>1, <2>2, <2>4, <3>1 DEF RxConfirm, RxSample
  <2>5. CASE RxStop
    BY <2>2, <2>5 DEF RxStop
  <2>6. CASE ccp1' = [ccp1 EXCEPT !.flag = FALSE]
    BY <1>0, <2>6
  <2> QED BY <2>3, <2>4, <2>5, <2>6 DEF Isr, IsrRx
<1>2. ccp2' \in R2
  <2>1. Later(ccp2.reg, Bit) \in Nat
    BY <1>0, LaterNat, WrapPos
  <2>2. ASSUME NEW s, NEW mode \in {"set", "clear"}, ArmNext(s, mode)
        PROVE  ccp2' \in R2
    BY <1>0, <2>1, <2>2 DEF ArmNext
  <2>3. CASE TxIdleEvent
    <3>1. ccp2' = [ccp2 EXCEPT !.flag = FALSE, !.mode = "off"] => ccp2' \in R2
      BY <1>0
    <3> HIDE DEF R2
    <3> QED BY <2>2, <2>3, <3>1 DEF TxIdleEvent
  <2>4. CASE TxDataEvent
    <3> HIDE DEF R2
    <3> QED BY <2>2, <2>4 DEF TxDataEvent, ShiftOut
  <2>5. CASE TxStopEvent
    <3> HIDE DEF R2
    <3> QED BY <2>2, <2>5 DEF TxStopEvent
  <2>6. CASE ccp2' = [ccp2 EXCEPT !.flag = FALSE]
    BY <1>0, <2>6
  <2> QED BY <2>3, <2>4, <2>5, <2>6 DEF Isr, IsrTx
<1> QED BY <1>0, <1>1, <1>2 DEF Isr, clock, Modes

(* A handler runs on a channel, or there is nothing to handle.             *)
LEMMA IsrSilent ==
  ASSUME NInv, Isr
  PROVE  Open' /\ Unhooked' /\ Silence' /\ ~fault'
<1>1. UNCHANGED <<pc, chan, brk>>
  BY DEF Isr, clock
<1>2. Open'
  BY <1>1 DEF NInv, Open
<1>3. ~ccp1.cb \/ ~chan => ccp1' = [ccp1 EXCEPT !.flag = FALSE]
  BY DEF Isr, IsrRx
<1>4. ~ccp2.cb \/ ~chan => ccp2' = [ccp2 EXCEPT !.flag = FALSE]
  BY DEF Isr, IsrTx
<1>5. Unhooked'
  BY <1>1, <1>3, <1>4 DEF NInv, Modes, Unhooked
<1>6. Silence'
  BY <1>1, <1>3, <1>4 DEF NInv, Modes, Silence
<1>7. ~fault'
  BY DEF Isr, NInv, Silence
<1> QED BY <1>2, <1>5, <1>6, <1>7

LEMMA TickSilent ==
  ASSUME NInv, Tick
  PROVE  NInv'
<1>1. UNCHANGED <<pc, chan, brk, fault>>
  BY DEF Tick
<1> DEFINE raise1 == \/ Level' < Level /\ ccp1.mode = "capture"
                     \/ Matches(ccp1, t')
<1>2. PICK r : ccp1' = [ccp1 EXCEPT !.flag = ccp1.flag \/ raise1, !.reg = r]
               /\ r \in {t', ccp1.reg}
  BY DEF Tick
<1>3. ccp2' = [ccp2 EXCEPT !.flag = ccp2.flag \/ Matches(ccp2, t')]
  BY DEF Tick
<1>4. t' \in Nat
  BY LaterNat DEF Tick, NInv, Modes
<1>5. Modes'
  <2>1. (ccp1.flag \/ raise1) \in BOOLEAN /\ (ccp2.flag \/ Matches(ccp2, t')) \in BOOLEAN
    OBVIOUS
  <2> HIDE DEF raise1
  <2> QED BY <1>2, <1>3, <1>4, <2>1 DEF NInv, Modes
<1>6. Open'
  BY <1>1 DEF NInv, Open
<1>7. Unhooked'
  BY <1>1, <1>2, <1>3 DEF NInv, Modes, Unhooked
<1>8. Silence'
  <2>1. CASE ~chan
    <3>1. ccp2.mode = "off" /\ ~brk /\ ccp1.mode # "soft"
      BY <2>1 DEF NInv, Silence, Open
    <3>2. ~Matches(ccp2, t') /\ ~Matches(ccp1, t')
      BY <3>1 DEF Matches, NInv, Modes
    <3>3. pin' = pin
      BY <3>2 DEF Tick
    <3>4. Level' = Level /\ Level \in {0, pin}
      BY <1>1, <3>3 DEF Level
    <3>5. ~raise1
      BY <3>2, <3>4
    <3> QED BY <1>1, <1>2, <1>3, <3>2, <3>5 DEF NInv, Modes, Silence
  <2> QED BY <1>1, <2>1 DEF Silence
<1> QED BY <1>1, <1>5, <1>6, <1>7, <1>8 DEF NInv

(* Steps of the main line that leave the two modules and the channel.      *)
LEMMA QuietSteps ==
  ASSUME NInv, UNCHANGED <<t, brk, ccp1, ccp2, chan, fault>>,
         \/ pc' = pc
         \/ /\ pc \notin InInit \cup InDeInit \cup {"dPin"}
            /\ pc' \notin InInit \cup InDeInit \cup {"dPin"}
            /\ chan
  PROVE  NInv'
<1>1. Modes' /\ ~fault'
  BY DEF NInv, Modes
<1>2. Open'
  BY DEF NInv, Open, InInit, InDeInit
<1>3. Unhooked' /\ Silence'
  BY DEF NInv, Unhooked, Silence, InInit, InDeInit
<1> QED BY <1>1, <1>2, <1>3 DEF NInv

LEMMA CallSteps ==
  ASSUME NInv,
         \/ WriteStore \/ WriteCount \/ WriteTest \/ ReadTest \/ ReadLoad \/ ReadCount
         \/ AppErrors \/ AppRead \/ \E n \in 1 .. MaxTx : AppWrite(n)
         \/ ErrLo("eLo", "eHi") \/ ErrFirst \/ ErrLo("eLo2", "eHi2") \/ ErrSecond
         \/ ArmLoad \/ ArmTail \/ ArmCount \/ ArmIndex \/ ArmState
  PROVE  NInv'
<1> USE DEF Others, NoTime, clock, ccps, Call, Step, At
<1>1. CASE WriteStore \/ WriteCount \/ WriteTest \/ ReadTest \/ ReadLoad \/ ReadCount
  <2>1. pc \in {"wStore", "wCount", "wTest", "rTest", "rLoad", "rCount"}
        /\ pc' \in {"wStore", "wCount", "wTest", "aLoad", "rTest", "rLoad", "rCount", "idle"}
    BY <1>1 DEF WriteStore, WriteCount, WriteTest, ReadTest, ReadLoad, ReadCount
  <2>2. UNCHANGED <<t, brk, ccp1, ccp2, chan, fault>>
    BY <1>1 DEF WriteStore, WriteCount, WriteTest, ReadTest, ReadLoad, ReadCount
  <2> QED BY <2>1, <2>2, QuietSteps DEF NInv, Open, InInit, InDeInit
<1>2. CASE AppErrors \/ AppRead \/ \E n \in 1 .. MaxTx : AppWrite(n)
  <2>1. chan /\ pc = "idle" /\ pc' \in {"eHi", "rTest", "wStore"}
    BY <1>2 DEF AppErrors, AppRead, AppWrite
  <2>2. UNCHANGED <<t, brk, ccp1, ccp2, chan, fault>>
    BY <1>2 DEF AppErrors, AppRead, AppWrite
  <2> QED BY <2>1, <2>2, QuietSteps DEF InInit, InDeInit
<1>3. CASE ErrLo("eLo", "eHi") \/ ErrFirst \/ ErrLo("eLo2", "eHi2") \/ ErrSecond
  <2>1. pc \in {"eLo", "eHi", "eLo2", "eHi2"} /\ pc' \in {"eLo", "eHi", "eLo2", "eHi2", "idle"}
    BY <1>3 DEF ErrLo, ErrFirst, ErrSecond
  <2>2. UNCHANGED <<t, brk, ccp1, ccp2, chan, fault>>
    BY <1>3 DEF ErrLo, ErrFirst, ErrSecond
  <2> QED BY <2>1, <2>2, QuietSteps DEF NInv, Open, InInit, InDeInit
<1>4. CASE ArmLoad \/ ArmTail \/ ArmCount \/ ArmIndex \/ ArmState
  <2>1. pc \in {"aLoad", "aTail", "aCount", "aIndex", "aState"}
        /\ pc' \in {"aTail", "aCount", "aIndex", "aState", "aTime"}
    BY <1>4 DEF ArmLoad, ArmTail, ArmCount, ArmIndex, ArmState, TxStep
  <2>2. UNCHANGED <<t, brk, ccp1, ccp2, chan, fault>>
    BY <1>4 DEF ArmLoad, ArmTail, ArmCount, ArmIndex, ArmState, TxStep
  <2> QED BY <2>1, <2>2, QuietSteps DEF NInv, Open, InInit, InDeInit
<1> QED BY <1>1, <1>2, <1>3, <1>4

LEMMA ArmSteps ==
  ASSUME NInv, ArmTime \/ ArmMode
  PROVE  NInv'
<1> USE DEF Others, NoTime, Peripheral, clock, Step, At, ArmTime, ArmMode, Ccp2Step
<1>1. /\ pc \in {"aTime", "aMode"} /\ pc' \in {"aMode", "idle"} /\ chan
      /\ UNCHANGED <<t, brk, ccp1, chan, fault>>
  BY DEF NInv, Open, InInit
<1>2. \/ ccp2' = [ccp2 EXCEPT !.reg = Later(t, Lead)]
      \/ ccp2' = [ccp2 EXCEPT !.mode = "clear"]
  OBVIOUS
<1>3. Modes'
  BY <1>1, <1>2, LaterNat, WrapPos DEF NInv, Modes
<1> QED BY <1>1, <1>3 DEF NInv, Open, Unhooked, Silence, InInit, InDeInit

LEMMA InitSteps ==
  ASSUME NInv, InitHandle \/ InitRx \/ InitTx \/ InitGie \/ InitChan
  PROVE  NInv'
<1> USE DEF Others, NoTime, Peripheral, clock, ccps, Call, Step, At, CcpStep, ChanStep, SetUp
<1>1. CASE InitHandle
  BY <1>1 DEF InitHandle, NInv, Modes, Open, Unhooked, Silence, InInit, InDeInit
<1>2. CASE InitRx
  BY <1>2 DEF InitRx, NInv, Modes, Open, Unhooked, Silence, InInit, InDeInit
<1>3. CASE InitTx
  BY <1>3 DEF InitTx, NInv, Modes, Open, Unhooked, Silence, InInit, InDeInit
<1>4. CASE InitGie
  BY <1>4 DEF InitGie, NInv, Modes, Open, Unhooked, Silence, InInit, InDeInit
<1>5. CASE InitChan
  BY <1>5 DEF InitChan, NInv, Modes, Open, Unhooked, Silence, InInit, InDeInit
<1> QED BY <1>1, <1>2, <1>3, <1>4, <1>5

LEMMA DeInitSteps ==
  ASSUME NInv, \/ AppDeInit \/ DeInitDrop1 \/ DeInitMute2 \/ DeInitDrop2 \/ DeInitChan
               \/ DeInitPin
  PROVE  NInv'
<1> USE DEF Others, NoTime, Peripheral, clock, ccps, Call, Step, At, CcpStep, ChanStep,
    Mute, Drop
<1>1. CASE AppDeInit
  BY <1>1 DEF AppDeInit, NInv, Modes, Open, Unhooked, Silence, InInit, InDeInit
<1>2. CASE DeInitDrop1
  BY <1>2 DEF DeInitDrop1, NInv, Modes, Open, Unhooked, Silence, InInit, InDeInit
<1>3. CASE DeInitMute2
  BY <1>3 DEF DeInitMute2, NInv, Modes, Open, Unhooked, Silence, InInit, InDeInit
<1>4. CASE DeInitDrop2
  BY <1>4 DEF DeInitDrop2, NInv, Modes, Open, Unhooked, Silence, InInit, InDeInit
<1>5. CASE DeInitChan
  BY <1>5 DEF DeInitChan, NInv, Modes, Open, Unhooked, Silence, InInit, InDeInit
<1>6. CASE DeInitPin
  BY <1>6 DEF DeInitPin, NInv, Modes, Open, Unhooked, Silence, InInit, InDeInit
<1> QED BY <1>1, <1>2, <1>3, <1>4, <1>5, <1>6

LEMMA FaultSteps ==
  ASSUME NInv, BreakOn \/ BreakOff \/ Spike
  PROVE  NInv'
<1> USE DEF Quiet, clock, ccps
<1>1. CASE BreakOn
  BY <1>1 DEF BreakOn, Captured, NInv, Modes, Open, Unhooked, Silence, InInit, InDeInit
<1>2. CASE BreakOff
  BY <1>2 DEF BreakOff, NInv, Modes, Open, Unhooked, Silence, InInit, InDeInit
<1>3. CASE Spike
  BY <1>3 DEF Spike, Captured, NInv, Modes, Open, Unhooked, Silence, InInit, InDeInit
<1> QED BY <1>1, <1>2, <1>3

LEMMA NInvInit == Init => NInv
BY DEF Init, NInv, Modes, Open, Unhooked, Silence, InInit, InDeInit, Unset

LEMMA NInvSteps == NInv /\ [Next]_vars => NInv'
<1> SUFFICES ASSUME NInv, [Next]_vars PROVE NInv'
  OBVIOUS
<1>1. CASE UNCHANGED vars
  BY <1>1, QuietSteps DEF vars, clock, ccps
<1>2. CASE App
  BY <1>2, CallSteps, InitSteps, DeInitSteps DEF App
<1>3. CASE MainLine
  BY <1>3, CallSteps, ArmSteps, InitSteps, DeInitSteps DEF MainLine
<1>4. CASE Isr
  BY <1>4, IsrModes, IsrSilent DEF NInv
<1> QED BY <1>1, <1>2, <1>3, <1>4, TickSilent, FaultSteps DEF Next

(* No handler runs without a channel while DeInit takes it down in the     *)
(* middle of frames in both directions.                                    *)
THEOREM SwUartNoNullChannel == Spec => []NoNullChannel
<1>1. NInv => NoNullChannel
  BY DEF NInv, NoNullChannel
<1> QED BY <1>1, NInvInit, NInvSteps, PTL DEF Spec

-----------------------------------------------------------------------------
(* GetErrorCount: what has been read so far, against what the counter is.  *)
(* The counter only grows; a low byte read twice belongs to a value it had *)
(* when the high byte agrees with one read after it and one before.        *)
ErrorsRead ==
  /\ errs \in Nat /\ lo \in {0, 1} /\ first \in Nat /\ from \in Nat
  /\ pc \in {"eLo", "eHi", "eLo2", "eHi2"} => from <= errs
  /\ pc = "eLo2" => first \div 2 <= errs \div 2
  /\ pc = "eHi2" => \E e \in from .. errs : lo = e % 2 /\ first \div 2 <= e \div 2

InErrors == {"eLo", "eHi", "eLo2", "eHi2"}

LEMMA Halves ==
  ASSUME NEW e \in Nat
  PROVE  /\ e % 2 \in {0, 1} /\ e \div 2 \in Nat /\ e = (e % 2) + 2 * (e \div 2)
         /\ \A d \in Nat : d <= e => d \div 2 <= e \div 2
         /\ \A b \in {0, 1} : (b + 2 * e) \div 2 = e /\ (b + 2 * e) % 2 = b
OBVIOUS

LEMMA ErrorsKept ==
  ASSUME ErrorsRead, UNCHANGED <<lo, first, from>>, errs' \in Nat, errs' >= errs,
         pc' = pc \/ pc' \notin InErrors
  PROVE  ErrorsRead'
<1>1. errs \div 2 <= errs' \div 2
  BY Halves DEF ErrorsRead
<1>2. pc' = "eHi2" => \E e \in from .. errs' : lo = e % 2 /\ first \div 2 <= e \div 2
  BY DEF ErrorsRead, InErrors
<1> DEFINE low == errs \div 2  high == errs' \div 2  read == first \div 2
<1>3. first \div 2 \in Nat /\ errs \div 2 \in Nat /\ errs' \div 2 \in Nat
  BY Halves DEF ErrorsRead
<1>4. pc' = "eLo2" => read <= high
  <2>1. pc' = "eLo2" => read <= low
    BY DEF ErrorsRead, InErrors
  <2> HIDE DEF read, low, high
  <2>2. low <= high /\ read \in Nat /\ low \in Nat /\ high \in Nat
    BY <1>1, <1>3 DEF read, low, high
  <2> QED BY <2>1, <2>2
<1>5. pc' \in {"eLo", "eHi", "eLo2", "eHi2"} => from <= errs'
  BY DEF ErrorsRead, InErrors
<1> QED BY <1>2, <1>4, <1>5 DEF ErrorsRead

LEMMA ErrorsStep ==
  ASSUME ErrorsRead, [Next]_vars
  PROVE  ErrorsRead' /\ (pc = "eHi2" /\ pc' = "idle" => first \in from .. errs)
<1> USE DEF Call, Step, At
<1>1. CASE AppErrors
  BY <1>1, Halves DEF AppErrors, ErrorsRead
<1>2. CASE ErrLo("eLo", "eHi")
  BY <1>2, Halves DEF ErrLo, ErrorsRead
<1>3. CASE ErrFirst
  <2>1. first' \div 2 = errs \div 2 /\ first' \in Nat
    BY <1>3, Halves DEF ErrFirst, ErrorsRead
  <2> QED BY <1>3, <2>1, Halves DEF ErrFirst, ErrorsRead
<1>4. CASE ErrLo("eLo2", "eHi2")
  <2>1. errs \in from .. errs /\ lo' = errs % 2 /\ first \div 2 <= errs \div 2
    BY <1>4 DEF ErrLo, ErrorsRead
  <2> QED BY <1>4, <2>1, Halves DEF ErrLo, ErrorsRead
<1>5. CASE ErrSecond
  <2>1. ErrorsRead'
    BY <1>5 DEF ErrSecond, ErrorsRead
  <2>2. ASSUME pc' = "idle" PROVE first \in from .. errs
    <3>1. first = lo + 2 * (errs \div 2) /\ pc = "eHi2"
      BY <1>5, <2>2 DEF ErrSecond
    <3>2. PICK e \in from .. errs : lo = e % 2 /\ first \div 2 <= e \div 2
      BY <3>1 DEF ErrorsRead
    <3>3. e \in Nat /\ errs \in Nat /\ e <= errs
      BY DEF ErrorsRead
    <3>4. first \div 2 = errs \div 2
      BY <3>1, <3>3, Halves DEF ErrorsRead
    <3>5. e \div 2 = errs \div 2
      BY <3>2, <3>3, <3>4, Halves
    <3> QED BY <3>1, <3>2, <3>3, <3>5, Halves
  <2> QED BY <2>1, <2>2
<1>6. CASE Isr
  <2>1. errs' \in {errs, errs + 1} /\ UNCHANGED <<pc, lo, first, from>>
    BY <1>6 DEF Isr, IsrRx, RxEdge, RxConfirm, RxSample, RxStop, locals
  <2> QED BY <2>1, ErrorsKept DEF ErrorsRead
<1>7. CASE InitHandle
  BY <1>7 DEF InitHandle, locals, ErrorsRead
<1>8. CASE Tick \/ BreakOn \/ BreakOff \/ Spike \/ UNCHANGED vars
  <2>1. UNCHANGED <<errs, pc, lo, first, from>>
    BY <1>8 DEF Tick, BreakOn, BreakOff, Spike, vars, locals
  <2> QED BY <2>1, ErrorsKept DEF ErrorsRead
<1>9. CASE AppDeInit \/ AppRead \/ \E n \in 1 .. MaxTx : AppWrite(n)
  <2>1. UNCHANGED <<errs, lo, first, from>> /\ pc = "idle" /\ pc' \notin InErrors
    BY <1>9 DEF AppDeInit, AppRead, AppWrite, locals, InErrors
  <2> QED BY <2>1, ErrorsKept DEF ErrorsRead
<1>10. CASE \/ WriteStore \/ WriteCount \/ WriteTest \/ ReadTest \/ ReadLoad \/ ReadCount
            \/ ArmLoad \/ ArmTail \/ ArmCount \/ ArmIndex \/ ArmState \/ ArmTime \/ ArmMode
  <2>1. UNCHANGED <<errs, lo, first, from>> /\ pc \notin InErrors /\ pc' \notin InErrors
    BY <1>10 DEF WriteStore, WriteCount, WriteTest, ReadTest, ReadLoad, ReadCount, ArmLoad,
       ArmTail, ArmCount, ArmIndex, ArmState, ArmTime, ArmMode, TxStep, Ccp2Step, locals,
       InErrors
  <2> QED BY <2>1, ErrorsKept DEF ErrorsRead, InErrors
<1>11. CASE \/ InitRx \/ InitTx \/ InitGie \/ InitChan
            \/ DeInitDrop1 \/ DeInitMute2 \/ DeInitDrop2 \/ DeInitChan \/ DeInitPin
  <2>1. UNCHANGED <<errs, lo, first, from>> /\ pc \notin InErrors /\ pc' \notin InErrors
    BY <1>11 DEF InitRx, InitTx, InitGie, InitChan, DeInitDrop1, DeInitMute2, DeInitDrop2,
       DeInitChan, DeInitPin, CcpStep, ChanStep, locals, InErrors
  <2> QED BY <2>1, ErrorsKept DEF ErrorsRead, InErrors
<1> QED BY <1>1, <1>2, <1>3, <1>4, <1>5, <1>6, <1>7, <1>8, <1>9, <1>10, <1>11
        DEF Next, App, MainLine

(* GetErrorCount returns a value the counter had during the call, however  *)
(* much the receiver counts between the reads of its two bytes.            *)
THEOREM SwUartErrorCountReal == Spec => ErrorCountReal
<1>1. Init => ErrorsRead
  BY DEF Init, ErrorsRead
<1>2. ErrorsRead /\ [Next]_vars => ErrorsRead'
  BY ErrorsStep
<1>3. ErrorsRead /\ [Next]_vars =>
        [pc = "eHi2" /\ pc' = "idle" => first \in from .. errs]_<<pc, first, from, errs>>
  BY ErrorsStep
<1> QED BY <1>1, <1>2, <1>3, PTL DEF Spec, ErrorCountReal

-----------------------------------------------------------------------------
(* Types.  The transmitter's part needs the timing: see Clear below.       *)
Names1  == {"off", "capture", "soft"}
Names2  == {"off", "set", "clear"}
RxNames == {"IDLE", "CONFIRM", "DATA", "STOP"}
TxNames == {"IDLE", "DATA", "STOP"}
Places == 0 .. SZ - 1
Levels == 0 .. SZ

Clocks ==
  /\ t \in 0 .. Wrap - 1 /\ on \in BOOLEAN /\ pin \in {0, 1} /\ brk \in BOOLEAN
  /\ held \in 0 .. Frame /\ wait \in 0 .. Latency /\ spent \in 0 .. CallTime
  /\ gie \in BOOLEAN /\ chan \in BOOLEAN /\ fault \in BOOLEAN /\ fast \in BOOLEAN
  /\ breaks \in Nat /\ noise \in Nat /\ breaks + noise <= MaxFaults

Ccps == ccp1 \in CcpType(Names1) /\ ccp2 \in CcpType(Names2)

(* The receiver, and Read's hold on the ring.                              *)
Receiver ==
  /\ rx \in HandleType(RxNames)
  /\ rx.state = "DATA" => rx.idx < Bits
  /\ pc \in {"rLoad", "rCount"} => rx.count > 0
  /\ came \in Nat /\ rxOut \in Nat /\ cameLast \in Bytes /\ rxLast \in Bytes

(* What a call of Write or Read has left to do.                            *)
Calls ==
  /\ todo \in 0 .. MaxTx + SZ /\ some \in BOOLEAN /\ txIn \in 0 .. MaxTx
  /\ pc = "wStore" => txIn + todo <= MaxTx
  /\ pc = "wCount" => txIn + todo <= MaxTx + 1 /\ todo > 0
  /\ pc = "rLoad" => todo > 0

-----------------------------------------------------------------------------
(* A power of two counts the subsets of a set.                             *)
LEMMA Powers ==
  ASSUME NEW b \in Nat
  PROVE  2 ^ b \in Nat
<1>1. IsFiniteSet(1 .. b) /\ Cardinality(1 .. b) = b
  BY FS_Interval
<1>2. IsFiniteSet(SUBSET (1 .. b)) /\ Cardinality(SUBSET (1 .. b)) = 2 ^ b
  BY <1>1, FS_SUBSET
<1> QED BY <1>2, FS_CardinalityType

LEMMA Sizes ==
  /\ Top \in Nat /\ Bits \in Nat \ {0} /\ SZ \in 1 .. 128 /\ MaxTx \in Bytes /\ MaxTx \in Nat
  /\ MaxFaults \in Nat
<1>1. Bits - 1 \in Nat
  BY SwUartAssumption
<1>2. Top \in Nat
  BY <1>1, Powers DEF Top
<1> QED BY <1>2, SwUartAssumption DEF Bytes

LEMMA Times ==
  ASSUME InMargins
  PROVE  /\ Bit \in Nat \ {0} /\ Lead \in Nat /\ Latency \in Nat /\ CallTime \in Nat
         /\ 2 * Latency < Bit /\ CallTime < Lead /\ Lead < Bit /\ Bit < Wrap
         /\ Wrap \in Nat \ {0} /\ Frame \in Nat /\ Bit <= Frame
<1>1. Bit <= Frame /\ Frame \in Nat
  BY SwUartAssumption DEF Frame
<1> QED BY <1>1, SwUartAssumption DEF InMargins, Half

LEMMA LaterType ==
  ASSUME InMargins, NEW x \in Nat, NEW d \in Nat
  PROVE  Later(x, d) \in 0 .. Wrap - 1
BY Times DEF Later

(* A shift in either direction leaves a byte.                              *)
LEMMA Shifts ==
  ASSUME NEW b \in Bytes
  PROVE  b \div 2 \in Bytes /\ \A l \in {0, 1} : (b \div 2) + l * Top \in Bytes
<1>1. Top \in Nat /\ b \in Nat /\ b < 2 * Top
  BY Sizes DEF Bytes
<1> DEFINE h == b \div 2
<1>2. h \in Nat /\ h < Top
  BY <1>1
<1> HIDE DEF h
<1>3. h \in Bytes /\ h + 0 * Top \in Bytes /\ h + 1 * Top \in Bytes
  BY <1>1, <1>2 DEF Bytes
<1> QED BY <1>3 DEF h

LEMMA Indices ==
  /\ \A i \in Places : Succ(i) \in Places
  /\ \A c \in Levels : c < SZ => Inc(c) \in Levels /\ Inc(c) = c + 1
  /\ \A c \in Levels : c > 0 => Dec(c) \in Levels /\ Dec(c) = c - 1
  /\ 0 \in Places /\ 0 \in Levels /\ 0 \in Bytes
<1>1. \A i \in Places : Succ(i) \in Places
  BY Sizes DEF Places, Succ
<1>2. \A c \in Levels : c < SZ => Inc(c) \in Levels /\ Inc(c) = c + 1
  BY Sizes DEF Levels, Inc
<1>3. \A c \in Levels : c > 0 => Dec(c) \in Levels /\ Dec(c) = c - 1
  BY Sizes DEF Levels, Dec
<1> QED BY <1>1, <1>2, <1>3, Sizes DEF Places, Levels, Bytes

-----------------------------------------------------------------------------
(* Steps of the main line and of the line that leave the clocks alone.     *)
LEMMA ClocksKept ==
  ASSUME InMargins, Clocks, UNCHANGED <<t, on, pin, brk, held, wait, fast, breaks, noise>>,
         spent' = 0 \/ spent' = spent, gie' \in BOOLEAN, chan' \in BOOLEAN,
         fault' \in BOOLEAN
  PROVE  Clocks'
<1>1. spent' \in 0 .. CallTime
  BY Times DEF Clocks
<1> QED BY <1>1 DEF Clocks

LEMMA IsrClocks ==
  ASSUME InMargins
  PROVE  Clocks /\ Isr => Clocks'
<1> SUFFICES ASSUME Clocks, Isr PROVE Clocks'
  OBVIOUS
<1>1. wait' \in 0 .. Latency /\ fault' \in BOOLEAN
  BY Times DEF Isr
<1>2. UNCHANGED <<t, on, pin, brk, held, spent, gie, chan, fast, breaks, noise>>
  BY DEF Isr, clock, bounds
<1> QED BY <1>1, <1>2 DEF Clocks

LEMMA TickClocks ==
  ASSUME InMargins
  PROVE  Clocks /\ Tick => Clocks'
<1> SUFFICES ASSUME Clocks, Tick PROVE Clocks'
  OBVIOUS
<1>1. UNCHANGED <<on, brk, gie, chan, fault, fast, breaks, noise>>
  BY DEF Tick, bounds
<1>2. t' \in 0 .. Wrap - 1
  BY Times, LaterType DEF Tick, Clocks
<1>3. pin' \in {0, 1}
  BY DEF Tick, Clocks
<1>4. held' \in 0 .. Frame
  <2>1. held' \in {0, held, held + 1} /\ (held' = held + 1 => held < Frame)
    BY Times DEF Tick, Clocks
  <2> QED BY <2>1, Times DEF Clocks
<1>5. wait' \in 0 .. Latency
  BY Times DEF Tick, Clocks
<1>6. spent' \in 0 .. CallTime
  BY Times DEF Tick, Clocks
<1> QED BY <1>1, <1>2, <1>3, <1>4, <1>5, <1>6 DEF Clocks

LEMMA FaultClocks ==
  ASSUME InMargins
  PROVE  Clocks /\ (BreakOn \/ BreakOff \/ Spike) => Clocks'
<1> SUFFICES ASSUME Clocks, BreakOn \/ BreakOff \/ Spike PROVE Clocks'
  OBVIOUS
<1>1. /\ UNCHANGED <<t, on, pin, wait, spent, gie, chan, fault, fast>>
      /\ brk' \in BOOLEAN /\ (held' = 0 \/ held' = held)
  BY DEF BreakOn, BreakOff, Spike, ccps, clock, bounds, Clocks
<1>2. \/ UNCHANGED <<breaks, noise>>
      \/ breaks + noise < MaxFaults /\ breaks' = breaks + 1 /\ noise' = noise
      \/ breaks + noise < MaxFaults /\ breaks' = breaks /\ noise' = noise + 1
  BY DEF BreakOn, BreakOff, Spike, bounds
<1>3. breaks' \in Nat /\ noise' \in Nat /\ breaks' + noise' <= MaxFaults
  BY <1>2, Sizes DEF Clocks
<1>4. held' \in 0 .. Frame
  BY <1>1, Times DEF Clocks
<1> QED BY <1>1, <1>3, <1>4 DEF Clocks

LEMMA MainClocks ==
  ASSUME InMargins
  PROVE  Clocks /\ (App \/ MainLine) => Clocks'
<1> SUFFICES ASSUME Clocks, App \/ MainLine PROVE Clocks'
  OBVIOUS
<1>1. CASE InitHandle
  <2>1. /\ spent' = 0 /\ pin' = 1 /\ t' = 0 /\ on' = TRUE /\ held' = Bit
        /\ breaks' = 0 /\ noise' = 0
        /\ UNCHANGED <<wait, brk, gie, chan, fault, fast>>
    BY <1>1 DEF InitHandle, Call, ccps
  <2>2. /\ 0 \in 0 .. CallTime /\ 0 \in 0 .. Wrap - 1 /\ Bit \in 0 .. Frame
        /\ 0 + 0 <= MaxFaults
    BY Times, Sizes
  <2> QED BY <2>1, <2>2 DEF Clocks
<1>2. CASE DeInitPin
  <2>1. /\ pin' = 1 /\ t' = 0 /\ on' = FALSE /\ held' = 0
        /\ UNCHANGED <<spent, wait, brk, breaks, noise, gie, chan, fault, fast>>
    BY <1>2 DEF DeInitPin, Step, ccps
  <2>2. 0 \in 0 .. Wrap - 1 /\ 0 \in 0 .. Frame
    BY Times
  <2> QED BY <2>1, <2>2 DEF Clocks
<1> DEFINE kept == /\ UNCHANGED <<t, on, pin, brk, held, wait, fast, breaks, noise>>
                   /\ spent' = 0 \/ spent' = spent
                   /\ gie' \in BOOLEAN /\ chan' \in BOOLEAN /\ fault' \in BOOLEAN
<1>3. kept => Clocks'
  BY ClocksKept
<1>4. CASE \/ AppDeInit \/ AppErrors \/ AppRead \/ \E n \in 1 .. MaxTx : AppWrite(n)
  <2>1. kept
    BY <1>4 DEF AppDeInit, AppErrors, AppRead, AppWrite, Call, Others, NoTime, clock, ccps,
       Peripheral, Clocks
  <2> QED BY <1>3, <2>1
<1>5. CASE WriteStore \/ WriteCount \/ WriteTest \/ ReadTest \/ ReadLoad \/ ReadCount
  <2>1. kept
    BY <1>5 DEF WriteStore, WriteCount, WriteTest, ReadTest, ReadLoad, ReadCount, Step,
       Others, NoTime, clock, ccps, Clocks
  <2> QED BY <1>3, <2>1
<1>6. CASE \/ ArmLoad \/ ArmTail \/ ArmCount \/ ArmIndex \/ ArmState \/ ArmTime \/ ArmMode
  <2>1. kept
    BY <1>6 DEF ArmLoad, ArmTail, ArmCount, ArmIndex, ArmState, ArmTime, ArmMode, TxStep,
       Ccp2Step, Step, Others, NoTime, clock, ccps, Peripheral, Clocks
  <2> QED BY <1>3, <2>1
<1>7. CASE ErrLo("eLo", "eHi") \/ ErrFirst \/ ErrLo("eLo2", "eHi2") \/ ErrSecond
  <2>1. kept
    BY <1>7 DEF ErrLo, ErrFirst, ErrSecond, Step, Others, NoTime, clock, ccps, Clocks
  <2> QED BY <1>3, <2>1
<1>8. CASE \/ InitRx \/ InitTx \/ InitGie \/ InitChan
           \/ DeInitDrop1 \/ DeInitMute2 \/ DeInitDrop2 \/ DeInitChan
  <2>1. kept
    BY <1>8 DEF InitRx, InitTx, InitGie, InitChan, DeInitDrop1, DeInitMute2, DeInitDrop2,
       DeInitChan, CcpStep, ChanStep, Step, Others, NoTime, clock, Peripheral, Clocks
  <2> QED BY <1>3, <2>1
<1> QED BY <1>1, <1>2, <1>4, <1>5, <1>6, <1>7, <1>8 DEF App, MainLine

-----------------------------------------------------------------------------
(* The two CCP modules, their registers counts of Timer1.                  *)
LEMMA CcpFields ==
  ASSUME InMargins, Ccps
  PROVE  /\ ccp1.reg \in 0 .. Wrap - 1 /\ ccp2.reg \in 0 .. Wrap - 1
         /\ ccp1.reg \in Nat /\ ccp2.reg \in Nat
BY Times DEF Ccps, CcpType

LEMMA Set1 ==
  ASSUME Ccps, NEW m \in Names1, NEW r \in 0 .. Wrap - 1, NEW f \in BOOLEAN
  PROVE  /\ [ccp1 EXCEPT !.mode = m, !.reg = r, !.flag = f] \in CcpType(Names1)
         /\ [ccp1 EXCEPT !.flag = f, !.reg = r, !.mode = m] \in CcpType(Names1)
         /\ [ccp1 EXCEPT !.flag = f, !.mode = m] \in CcpType(Names1)
         /\ [ccp1 EXCEPT !.flag = f, !.reg = r] \in CcpType(Names1)
         /\ [ccp1 EXCEPT !.flag = f] \in CcpType(Names1)
         /\ [ccp1 EXCEPT !.flag = TRUE, !.reg = r] \in CcpType(Names1)
<1>1. ccp1 \in [mode : Names1, reg : 0 .. Wrap - 1, flag : BOOLEAN, ie : BOOLEAN, cb : BOOLEAN]
  BY DEF Ccps, CcpType
<1> QED BY <1>1, Zenon DEF CcpType

LEMMA Set2 ==
  ASSUME Ccps, NEW m \in Names2, NEW r \in 0 .. Wrap - 1, NEW f \in BOOLEAN
  PROVE  /\ [ccp2 EXCEPT !.flag = f, !.reg = r, !.mode = m] \in CcpType(Names2)
         /\ [ccp2 EXCEPT !.flag = f, !.mode = m] \in CcpType(Names2)
         /\ [ccp2 EXCEPT !.flag = f] \in CcpType(Names2)
         /\ [ccp2 EXCEPT !.reg = r] \in CcpType(Names2)
         /\ [ccp2 EXCEPT !.mode = m] \in CcpType(Names2)
<1>1. ccp2 \in [mode : Names2, reg : 0 .. Wrap - 1, flag : BOOLEAN, ie : BOOLEAN, cb : BOOLEAN]
  BY DEF Ccps, CcpType
<1> QED BY <1>1, Zenon DEF CcpType

LEMMA IsrCcps ==
  ASSUME InMargins
  PROVE  Ccps /\ Clocks /\ Isr => Ccps'
<1> SUFFICES ASSUME Ccps, Clocks, Isr PROVE Ccps'
  OBVIOUS
<1> DEFINE R1 == CcpType(Names1)  R2 == CcpType(Names2)
<1>0. /\ "off" \in Names1 /\ "capture" \in Names1 /\ "soft" \in Names1
      /\ "off" \in Names2 /\ "set" \in Names2 /\ "clear" \in Names2
      /\ t \in Nat /\ FALSE \in BOOLEAN
  BY Times DEF Names1, Names2, Clocks
<1>1. ccp1' \in R1
  <2> HIDE DEF R1
  <2>1. \A w \in 0 .. Wrap - 1 : Arm1(w) => ccp1' \in R1
    <3> SUFFICES ASSUME NEW w \in 0 .. Wrap - 1, Arm1(w) PROVE ccp1' \in R1
      OBVIOUS
    <3>1. ccp1' = [ccp1 EXCEPT !.flag = FALSE, !.reg = w, !.mode = "soft"]
      BY DEF Arm1
    <3>2. [ccp1 EXCEPT !.flag = FALSE, !.reg = w, !.mode = "soft"] \in CcpType(Names1)
      BY <1>0, Set1, Zenon
    <3> QED BY <3>1, <3>2 DEF R1
  <2>2. Listen => ccp1' \in R1
    BY <1>0, Set1, CcpFields, Zenon DEF Listen, R1
  <2>3. ccp1' = [ccp1 EXCEPT !.flag = FALSE] => ccp1' \in R1
    BY <1>0, Set1, CcpFields, Zenon DEF R1
  <2>4. CASE RxEdge
    <3>1. Bit + Half + Wrap - Overhead \in Nat /\ Half \in Nat
      BY WrapPos
    <3>2. /\ Later(t, Bit + Half + Wrap - Overhead) \in 0 .. Wrap - 1
          /\ Later(ccp1.reg, Half) \in 0 .. Wrap - 1
      BY <1>0, <3>1, LaterType, CcpFields
    <3> QED BY <2>1, <2>3, <2>4, <3>2 DEF RxEdge
  <2>5. CASE RxConfirm \/ RxSample
    <3>1. Later(ccp1.reg, Bit) \in 0 .. Wrap - 1
      BY LaterType, CcpFields, Times
    <3> QED BY <2>1, <2>2, <2>5, <3>1 DEF RxConfirm, RxSample
  <2>6. CASE RxStop
    BY <2>2, <2>6 DEF RxStop
  <2> QED BY <2>3, <2>4, <2>5, <2>6 DEF Isr, IsrRx
<1>2. ccp2' \in R2
  <2> HIDE DEF R2
  <2>1. Later(ccp2.reg, Bit) \in 0 .. Wrap - 1
    BY LaterType, CcpFields, Times
  <2>2. ASSUME NEW s, NEW mode \in Names2, ArmNext(s, mode)
        PROVE  ccp2' \in R2
    BY <1>0, <2>1, <2>2, Set2 DEF ArmNext, R2
  <2>3. ccp2' = [ccp2 EXCEPT !.flag = FALSE, !.mode = "off"] => ccp2' \in R2
    BY <1>0, Set2, CcpFields DEF R2
  <2>4. ccp2' = [ccp2 EXCEPT !.flag = FALSE] => ccp2' \in R2
    BY <1>0, Set2, CcpFields DEF R2
  <2>5. CASE TxIdleEvent
    BY <1>0, <2>2, <2>3, <2>5 DEF TxIdleEvent
  <2>6. CASE TxDataEvent
    BY <1>0, <2>2, <2>6 DEF TxDataEvent, ShiftOut
  <2>7. CASE TxStopEvent
    <3>1. ArmNext([tx EXCEPT !.state = "IDLE"], "set")
      BY <2>7 DEF TxStopEvent
    <3> QED BY <1>0, <2>2, <3>1, Zenon
  <2> QED BY <2>4, <2>5, <2>6, <2>7 DEF Isr, IsrTx
<1> QED BY <1>1, <1>2 DEF Ccps

LEMMA TickCcps ==
  ASSUME InMargins
  PROVE  Ccps /\ Clocks /\ Tick => Ccps'
<1> SUFFICES ASSUME Ccps, Clocks, Tick PROVE Ccps'
  OBVIOUS
<1>1. t' \in 0 .. Wrap - 1
  BY Times, LaterType DEF Tick, Clocks
<1>2. PICK f1 \in BOOLEAN, r \in {t', ccp1.reg} :
        ccp1' = [ccp1 EXCEPT !.flag = f1, !.reg = r]
  <2>1. PICK r : ccp1' = [ccp1 EXCEPT
                   !.flag = ccp1.flag \/ (Level' < Level /\ ccp1.mode = "capture")
                            \/ Matches(ccp1, t'), !.reg = r] /\ r \in {t', ccp1.reg}
    BY DEF Tick
  <2> QED BY <2>1
<1>3. PICK f2 \in BOOLEAN : ccp2' = [ccp2 EXCEPT !.flag = f2]
  BY DEF Tick
<1>4. r \in 0 .. Wrap - 1 /\ "off" \in Names1 /\ "off" \in Names2
  BY <1>1, CcpFields DEF Names1, Names2
<1> QED BY <1>2, <1>3, <1>4, Set1, Set2, Zenon DEF Ccps

LEMMA MainCcps ==
  ASSUME InMargins
  PROVE  Ccps /\ Clocks /\ (App \/ MainLine \/ BreakOn \/ BreakOff \/ Spike) => Ccps'
<1> SUFFICES ASSUME Ccps, Clocks, App \/ MainLine \/ BreakOn \/ BreakOff \/ Spike PROVE Ccps'
  OBVIOUS
<1>1. CASE ArmTime \/ ArmMode
  <2>1. Later(t, Lead) \in 0 .. Wrap - 1 /\ "clear" \in Names2
    BY LaterType, Times DEF Clocks, Names2
  <2> QED BY <1>1, <2>1, Set2, CcpFields DEF Ccps, ArmTime, ArmMode, Ccp2Step
<1>2. CASE BreakOn \/ Spike
  <2>1. ccp1' = [ccp1 EXCEPT !.flag = TRUE, !.reg = t] /\ ccp2' = ccp2
    BY <1>2 DEF BreakOn, Spike, Captured
  <2> QED BY <2>1 DEF Ccps, CcpType, Clocks
<1>3. CASE InitRx \/ InitTx
  <2>1. SetUp("capture") \in CcpType(Names1) /\ SetUp("off") \in CcpType(Names2)
    BY Times DEF SetUp, CcpType, Names1, Names2
  <2> QED BY <1>3, <2>1 DEF Ccps, InitRx, InitTx, CcpStep
<1>4. CASE AppDeInit \/ DeInitDrop1 \/ DeInitMute2 \/ DeInitDrop2
  <2>1. /\ Mute(ccp1) \in CcpType(Names1) /\ Mute(ccp2) \in CcpType(Names2)
        /\ Drop(ccp1) \in CcpType(Names1) /\ Drop(ccp2) \in CcpType(Names2)
    BY DEF Mute, Drop, Ccps, CcpType, Names1, Names2
  <2> QED BY <1>4, <2>1 DEF Ccps, AppDeInit, DeInitDrop1, DeInitMute2, DeInitDrop2, CcpStep
<1>5. CASE UNCHANGED <<ccp1, ccp2>>
  BY <1>5 DEF Ccps
<1>6. CASE \/ AppErrors \/ AppRead \/ (\E n \in 1 .. MaxTx : AppWrite(n)) \/ WriteStore
           \/ WriteCount \/ WriteTest \/ ReadTest \/ ReadLoad \/ ReadCount \/ InitHandle
           \/ ErrLo("eLo", "eHi") \/ ErrFirst \/ ErrLo("eLo2", "eHi2") \/ ErrSecond
  BY <1>5, <1>6 DEF AppErrors, AppRead, AppWrite, WriteStore, WriteCount, WriteTest, ReadTest,
     ReadLoad, ReadCount, InitHandle, ErrLo, ErrFirst, ErrSecond, ccps
<1>7. CASE \/ ArmLoad \/ ArmTail \/ ArmCount \/ ArmIndex \/ ArmState \/ InitGie \/ InitChan
           \/ DeInitChan \/ DeInitPin \/ BreakOff
  BY <1>5, <1>7 DEF ArmLoad, ArmTail, ArmCount, ArmIndex, ArmState, InitGie, InitChan,
     DeInitChan, DeInitPin, BreakOff, TxStep, ChanStep, ccps
<1> QED BY <1>1, <1>2, <1>3, <1>4, <1>6, <1>7 DEF App, MainLine
-----------------------------------------------------------------------------
(* The receiver: the service routine at one end of the ring, Read at the   *)
(* other.                                                                  *)

LEMMA HandleIs ==
  ASSUME NEW S, NEW h
  PROVE  h \in HandleType(S) <=>
           h \in [state : S, shift : Bytes, idx : 0 .. Bits, buf : [Places -> Bytes],
                  head : Places, tail : Places, count : Levels]
BY DEF HandleType, Places, Levels

LEMMA HandleOK == Handle \in HandleType(RxNames) /\ Handle \in HandleType(TxNames)
<1>1. 0 \in 0 .. Bits /\ 0 \in Bytes /\ 0 \in Places /\ 0 \in Levels
  BY Sizes, Indices
<1>2. [i \in 0 .. SZ - 1 |-> 0] \in [Places -> Bytes]
  BY <1>1 DEF Places
<1> QED BY <1>1, <1>2, HandleIs DEF Handle, Nothing, RxNames, TxNames

(* The fields of a handle can be set one by one.                           *)
LEMMA RecordFields ==
  ASSUME NEW A, NEW B, NEW C, NEW D, NEW E, NEW F,
         NEW h \in [state : A, shift : B, idx : C, buf : D, head : E, tail : E, count : F]
  PROVE  /\ h.state \in A /\ h.shift \in B /\ h.idx \in C /\ h.buf \in D
         /\ h.head \in E /\ h.tail \in E /\ h.count \in F
OBVIOUS

LEMMA Fields ==
  ASSUME NEW S, NEW h \in HandleType(S)
  PROVE  /\ h.state \in S /\ h.shift \in Bytes /\ h.idx \in 0 .. Bits
         /\ h.buf \in [Places -> Bytes] /\ h.head \in Places /\ h.tail \in Places
         /\ h.count \in Levels
<1>1. h \in [state : S, shift : Bytes, idx : 0 .. Bits, buf : [Places -> Bytes],
             head : Places, tail : Places, count : Levels]
  BY HandleIs
<1> QED BY <1>1, RecordFields

LEMMA FieldSet ==
  ASSUME NEW S, NEW h \in HandleType(S)
  PROVE  /\ \A x \in S : [h EXCEPT !.state = x] \in HandleType(S)
         /\ \A x \in Bytes : [h EXCEPT !.shift = x] \in HandleType(S)
         /\ \A x \in 0 .. Bits : [h EXCEPT !.idx = x] \in HandleType(S)
         /\ \A x \in Places : [h EXCEPT !.tail = x] \in HandleType(S)
         /\ \A x \in Levels : [h EXCEPT !.count = x] \in HandleType(S)
         /\ \A x \in Bytes, i \in 0 .. Bits, y \in S :
              [h EXCEPT !.shift = x, !.idx = i, !.state = y] \in HandleType(S)
<1> DEFINE I == 0 .. Bits
           H == [state : S, shift : Bytes, idx : I, buf : [Places -> Bytes],
                 head : Places, tail : Places, count : Levels]
<1>1. h \in H
  BY HandleIs
<1> HIDE DEF I
<1>2. \A x \in S : [h EXCEPT !.state = x] \in H
  BY <1>1
<1>3. \A x \in Bytes : [h EXCEPT !.shift = x] \in H
  BY <1>1
<1>4. \A x \in I : [h EXCEPT !.idx = x] \in H
  BY <1>1
<1>5. \A x \in Places : [h EXCEPT !.tail = x] \in H
  BY <1>1
<1>6. \A x \in Levels : [h EXCEPT !.count = x] \in H
  BY <1>1
<1>7. ASSUME NEW x \in Bytes, NEW i \in I, NEW y \in S
      PROVE  [h EXCEPT !.shift = x, !.idx = i, !.state = y] \in H
  BY <1>1
<1>8. \A g : g \in HandleType(S) <=> g \in H
  BY HandleIs DEF I
<1> HIDE DEF H
<1> QED BY <1>2, <1>3, <1>4, <1>5, <1>6, <1>7, <1>8 DEF I

LEMMA Pushed ==
  ASSUME NEW S, NEW h \in HandleType(S), NEW b \in Bytes, NEW i \in Places,
         NEW j \in Places, NEW c \in Levels, NEW y \in S
  PROVE  /\ [h EXCEPT !.buf[i] = b, !.head = j] \in HandleType(S)
         /\ [h EXCEPT !.buf[i] = b, !.head = j, !.count = c, !.state = y] \in HandleType(S)
<1> DEFINE I == 0 .. Bits
           H == [state : S, shift : Bytes, idx : I, buf : [Places -> Bytes],
                 head : Places, tail : Places, count : Levels]
<1>1. h \in H
  BY HandleIs
<1> HIDE DEF I
<1>2. /\ [h EXCEPT !.buf[i] = b, !.head = j] \in H
      /\ [h EXCEPT !.buf[i] = b, !.head = j, !.count = c, !.state = y] \in H
  BY <1>1
<1> QED BY <1>2, HandleIs DEF I

LEMMA Popped ==
  ASSUME NEW S, NEW h \in HandleType(S), NEW b \in Bytes, NEW j \in Places,
         NEW c \in Levels, NEW i \in 0 .. Bits, NEW y \in S
  PROVE  [h EXCEPT !.shift = b, !.tail = j, !.count = c, !.idx = i, !.state = y]
           \in HandleType(S)
<1> DEFINE I == 0 .. Bits
           H == [state : S, shift : Bytes, idx : I, buf : [Places -> Bytes],
                 head : Places, tail : Places, count : Levels]
<1>1. h \in H
  BY HandleIs
<1>2. i \in I
  OBVIOUS
<1> HIDE DEF I
<1>3. [h EXCEPT !.shift = b, !.tail = j, !.count = c, !.idx = i, !.state = y] \in H
  BY <1>1, <1>2
<1> QED BY <1>3, HandleIs DEF I

LEMMA IsrReceiver == Receiver /\ Clocks /\ Isr => Receiver'
<1> SUFFICES ASSUME Receiver, Clocks, Isr PROVE Receiver'
  OBVIOUS
<1> DEFINE H == HandleType(RxNames)
<1>1. pc' = pc /\ UNCHANGED <<rxOut, rxLast>>
  BY DEF Isr, hist
<1>2. Level \in {0, 1}
  BY DEF Level, Clocks
<1>3. /\ rx \in H /\ rx.state \in RxNames /\ rx.shift \in Bytes /\ rx.idx \in 0 .. Bits
      /\ rx.head \in Places /\ rx.count \in Levels
  BY Fields DEF Receiver
<1>4. {"IDLE", "CONFIRM", "DATA", "STOP"} \subseteq RxNames /\ 0 \in Bytes /\ 0 \in 0 .. Bits
      /\ 0 < Bits
  BY Indices, Sizes DEF RxNames
<1> DEFINE good == /\ rx' \in H
                   /\ rx'.state = "DATA" => rx'.idx < Bits
                   /\ rx'.count >= rx.count
<1>5. good /\ came' \in Nat /\ cameLast' \in Bytes => Receiver'
  <2> SUFFICES ASSUME good, came' \in Nat, cameLast' \in Bytes PROVE Receiver'
    OBVIOUS
  <2>1. ASSUME pc \in {"rLoad", "rCount"} PROVE rx'.count > 0
    <3>1. rx'.count \in Levels
      BY Fields
    <3>2. rx.count > 0
      BY <2>1 DEF Receiver
    <3> QED BY <1>3, <3>1, <3>2, Sizes DEF Levels
  <2>2. rxOut' \in Nat /\ rxLast' \in Bytes /\ pc' = pc
    BY <1>1 DEF Receiver
  <2>3. rx' \in HandleType(RxNames) /\ (rx'.state = "DATA" => rx'.idx < Bits)
    OBVIOUS
  <2> QED BY <2>1, <2>2, <2>3 DEF Receiver
<1>6. UNCHANGED <<rx, came, cameLast>> => Receiver'
  BY <1>1 DEF Receiver
<1>7. CASE \E x \in RxNames \ {"DATA"} : rx' = [rx EXCEPT !.state = x] /\ came' \in Nat
                                         /\ cameLast' \in Bytes
  <2>1. PICK x \in RxNames \ {"DATA"} : rx' = [rx EXCEPT !.state = x]
    BY <1>7
  <2>2. rx' \in H
    BY <1>3, <2>1, FieldSet
  <2>3. rx'.state = x /\ rx'.count = rx.count
    BY <1>3, <2>1 DEF HandleType
  <2>4. rx'.count >= rx.count
    BY <1>3, <2>3, Sizes DEF Levels
  <2> QED BY <1>5, <1>7, <2>2, <2>3, <2>4
<1>8. CASE rx' = StartByte /\ UNCHANGED <<came, cameLast>>
  <2>1. rx' \in H
    BY <1>3, <1>4, <1>8, FieldSet DEF StartByte
  <2>2. rx'.idx = 0 /\ rx'.count = rx.count
    BY <1>3, <1>8 DEF StartByte, HandleType
  <2>3. rx'.count >= rx.count
    BY <1>3, <2>2, Sizes DEF Levels
  <2> QED BY <1>4, <1>5, <1>8, <2>1, <2>2, <2>3 DEF Receiver
<1>9. CASE RxSample
  <2> DEFINE b == (rx.shift \div 2) + Level * Top
             n == IF rx.idx + 1 < Bits THEN "DATA" ELSE "STOP"
  <2>1. b \in Bytes /\ n \in RxNames
    BY <1>2, <1>3, <1>4, Shifts
  <2>2. rx.idx + 1 \in 0 .. Bits
    BY <1>3, <1>9, Sizes DEF RxSample, Receiver
  <2>3. rx' = [rx EXCEPT !.shift = b, !.idx = rx.idx + 1, !.state = n]
    BY <1>9 DEF RxSample
  <2> HIDE DEF b
  <2>4. rx' \in H
    BY <1>3, <2>1, <2>2, <2>3, FieldSet
  <2>5. rx'.state = n /\ rx'.idx = rx.idx + 1 /\ rx'.count = rx.count
    BY <1>3, <2>3 DEF HandleType
  <2>6. rx'.count >= rx.count
    BY <1>3, <2>5, Sizes DEF Levels
  <2> QED BY <1>5, <1>9, <2>4, <2>5, <2>6 DEF Receiver, RxSample, rxHist
<1>10. CASE RxStop
  <2>1. came' \in Nat /\ cameLast' \in Bytes
    BY <1>2, <1>3, <1>10 DEF RxStop, Receiver
  <2>2. CASE rx' = [rx EXCEPT !.state = "IDLE"]
    BY <1>4, <1>7, <2>1, <2>2
  <2>3. CASE rx.count < SZ /\ rx' = RxStore
    <3>1. Succ(rx.head) \in Places /\ Inc(rx.count) \in Levels /\ Inc(rx.count) = rx.count + 1
      BY <1>3, <2>3, Indices
    <3>2. rx' \in H
      BY <1>3, <1>4, <2>3, <3>1, Pushed DEF RxStore
    <3>3. rx'.state = "IDLE" /\ rx'.count = Inc(rx.count)
      BY <1>3, <2>3 DEF RxStore, HandleType
    <3>4. rx'.count >= rx.count
      BY <1>3, <3>1, <3>3, Sizes DEF Levels
    <3> QED BY <1>5, <2>1, <3>2, <3>3, <3>4
  <2> QED BY <1>10, <2>2, <2>3 DEF RxStop
<1>11. CASE RxEdge
  BY <1>4, <1>6, <1>7, <1>8, <1>11 DEF RxEdge, rxHist, Receiver
<1>12. CASE RxConfirm
  BY <1>4, <1>6, <1>7, <1>8, <1>12 DEF RxConfirm, rxHist, Receiver
<1> QED BY <1>6, <1>9, <1>10, <1>11, <1>12 DEF Isr, IsrRx, rxHist

(* Steps that leave the receiver alone.                                    *)
LEMMA ReceiverKept ==
  ASSUME Receiver, UNCHANGED <<rx, came, cameLast, rxOut, rxLast>>,
         pc' = pc \/ pc' \notin {"rLoad", "rCount"}
  PROVE  Receiver'
BY DEF Receiver

LEMMA ReadReceiver == Receiver /\ (ReadTest \/ ReadLoad \/ ReadCount) => Receiver'
<1> SUFFICES ASSUME Receiver, ReadTest \/ ReadLoad \/ ReadCount PROVE Receiver'
  OBVIOUS
<1> USE DEF Step, At, Others
<1> DEFINE H == HandleType(RxNames)
<1>1. /\ rx \in H /\ rx.buf \in [Places -> Bytes] /\ rx.tail \in Places /\ rx.count \in Levels
  BY Fields DEF Receiver
<1>2. CASE ReadTest
  BY <1>2 DEF ReadTest, Receiver, hist
<1>3. CASE ReadLoad
  <2>1. rx' = [rx EXCEPT !.tail = Succ(rx.tail)] /\ pc = "rLoad"
    BY <1>3 DEF ReadLoad
  <2>2. rx' \in H
    BY <1>1, <2>1, Indices, FieldSet
  <2>3. rx'.state = rx.state /\ rx'.idx = rx.idx /\ rx'.count = rx.count
    BY <1>1, <2>1 DEF HandleType
  <2>4. rxOut' \in Nat /\ rxLast' \in Bytes
    BY <1>1, <1>3 DEF ReadLoad, Receiver
  <2> QED BY <1>3, <2>1, <2>2, <2>3, <2>4 DEF ReadLoad, Receiver
<1>4. CASE ReadCount
  <2>1. rx' = [rx EXCEPT !.count = Dec(rx.count)] /\ rx.count > 0
    BY <1>4 DEF ReadCount, Receiver
  <2>2. rx' \in H
    BY <1>1, <2>1, Indices, FieldSet
  <2>3. rx'.state = rx.state /\ rx'.idx = rx.idx
    BY <1>1, <2>1 DEF HandleType
  <2> QED BY <1>4, <2>2, <2>3 DEF ReadCount, Receiver, hist
<1> QED BY <1>2, <1>3, <1>4

LEMMA ReceiverSteps == Receiver /\ Clocks /\ [Next]_vars => Receiver'
<1> SUFFICES ASSUME Receiver, Clocks, [Next]_vars PROVE Receiver'
  OBVIOUS
<1> USE DEF Call, Step, At
<1>1. CASE InitHandle
  <2>1. rx' = Handle /\ rx' \in HandleType(RxNames) /\ 0 \in Bytes
    BY <1>1, HandleOK, Indices DEF InitHandle
  <2>2. rx'.state = "IDLE"
    BY <2>1 DEF Handle
  <2> QED BY <1>1, <2>1, <2>2 DEF InitHandle, Receiver
<1> DEFINE kept == /\ UNCHANGED <<rx, came, cameLast, rxOut, rxLast>>
                   /\ pc' = pc \/ pc' \notin {"rLoad", "rCount"}
<1>2. kept => Receiver'
  BY ReceiverKept
<1>3. CASE Tick \/ BreakOn \/ BreakOff \/ Spike \/ UNCHANGED vars
  <2>1. kept
    BY <1>3 DEF Tick, BreakOn, BreakOff, Spike, vars, rxHist, hist
  <2> QED BY <1>2, <2>1
<1>4. CASE AppDeInit \/ AppErrors \/ AppRead \/ \E n \in 1 .. MaxTx : AppWrite(n)
  <2>1. kept
    BY <1>4 DEF AppDeInit, AppErrors, AppRead, AppWrite, Others, hist
  <2> QED BY <1>2, <2>1
<1>5. CASE WriteStore \/ WriteCount \/ WriteTest
  <2>1. kept
    BY <1>5 DEF WriteStore, WriteCount, WriteTest, Others, hist
  <2> QED BY <1>2, <2>1
<1>6. CASE \/ ArmLoad \/ ArmTail \/ ArmCount \/ ArmIndex \/ ArmState \/ ArmTime \/ ArmMode
  <2>1. kept
    BY <1>6 DEF ArmLoad, ArmTail, ArmCount, ArmIndex, ArmState, ArmTime, ArmMode, TxStep,
       Ccp2Step, Others, hist
  <2> QED BY <1>2, <2>1
<1>7. CASE ErrLo("eLo", "eHi") \/ ErrFirst \/ ErrLo("eLo2", "eHi2") \/ ErrSecond
  <2>1. kept
    BY <1>7 DEF ErrLo, ErrFirst, ErrSecond, Others, hist
  <2> QED BY <1>2, <2>1
<1>8. CASE \/ InitRx \/ InitTx \/ InitGie \/ InitChan
           \/ DeInitDrop1 \/ DeInitMute2 \/ DeInitDrop2 \/ DeInitChan \/ DeInitPin
  <2>1. kept
    BY <1>8 DEF InitRx, InitTx, InitGie, InitChan, DeInitDrop1, DeInitMute2, DeInitDrop2,
       DeInitChan, DeInitPin, CcpStep, ChanStep, Others, hist, rxHist
  <2> QED BY <1>2, <2>1
<1> QED BY <1>1, <1>3, <1>4, <1>5, <1>6, <1>7, <1>8, IsrReceiver, ReadReceiver
        DEF Next, App, MainLine

-----------------------------------------------------------------------------
(* What a call has left to do.                                             *)
LEMMA CallCounts == Calls /\ [Next]_vars => Calls'
<1> SUFFICES ASSUME Calls, [Next]_vars PROVE Calls'
  OBVIOUS
<1> USE DEF Call, Step, At
<1>1. MaxTx \in Nat /\ SZ \in Nat
  BY Sizes
<1>2. CASE \E n \in 1 .. MaxTx : AppWrite(n)
  <2>1. PICK n \in 1 .. MaxTx : AppWrite(n)
    BY <1>2
  <2>2. todo' = n /\ some' = FALSE /\ txIn' = txIn /\ txIn + n <= MaxTx /\ pc' = "wStore"
    BY <2>1 DEF AppWrite, hist
  <2>3. todo' \in 0 .. MaxTx + SZ
    BY <1>1, <2>2
  <2> QED BY <2>2, <2>3 DEF Calls
<1>3. CASE WriteStore
  BY <1>1, <1>3 DEF WriteStore, Calls, locals
<1>4. CASE WriteCount
  BY <1>1, <1>4 DEF WriteCount, Calls, hist
<1>5. CASE WriteTest
  <2>1. todo' = 0 /\ some' = FALSE /\ txIn' = txIn /\ pc' \in {"aLoad", "idle"}
    BY <1>5 DEF WriteTest, hist
  <2>2. todo' \in 0 .. MaxTx + SZ
    BY <1>1, <2>1
  <2> QED BY <2>1, <2>2 DEF Calls
<1>6. CASE AppRead
  BY <1>1, <1>6 DEF AppRead, Calls, hist
<1>7. CASE ReadTest
  BY <1>1, <1>7 DEF ReadTest, Calls, hist
<1>8. CASE ReadLoad
  BY <1>1, <1>8 DEF ReadLoad, Calls
<1>9. CASE InitHandle
  BY <1>1, <1>9 DEF InitHandle, Calls, locals
<1> DEFINE kept == /\ UNCHANGED <<todo, some, txIn>>
                   /\ pc' = pc \/ pc' \notin {"wStore", "wCount", "rLoad"}
<1>10. kept => Calls'
  BY DEF Calls
<1>11. CASE Tick \/ BreakOn \/ BreakOff \/ Spike \/ Isr \/ UNCHANGED vars
  <2>1. kept
    BY <1>11 DEF Tick, BreakOn, BreakOff, Spike, Isr, vars, locals, hist
  <2> QED BY <1>10, <2>1
<1>12. CASE AppDeInit \/ AppErrors \/ ReadCount
  <2>1. kept
    BY <1>12 DEF AppDeInit, AppErrors, ReadCount, locals, hist
  <2> QED BY <1>10, <2>1
<1>13. CASE \/ ArmLoad \/ ArmTail \/ ArmCount \/ ArmIndex \/ ArmState \/ ArmTime \/ ArmMode
  <2>1. kept
    BY <1>13 DEF ArmLoad, ArmTail, ArmCount, ArmIndex, ArmState, ArmTime, ArmMode, TxStep,
       Ccp2Step, locals, hist
  <2> QED BY <1>10, <2>1
<1>14. CASE ErrLo("eLo", "eHi") \/ ErrFirst \/ ErrLo("eLo2", "eHi2") \/ ErrSecond
  <2>1. kept
    BY <1>14 DEF ErrLo, ErrFirst, ErrSecond, hist
  <2> QED BY <1>10, <2>1
<1>15. CASE \/ InitRx \/ InitTx \/ InitGie \/ InitChan
            \/ DeInitDrop1 \/ DeInitMute2 \/ DeInitDrop2 \/ DeInitChan \/ DeInitPin
  <2>1. kept
    BY <1>15 DEF InitRx, InitTx, InitGie, InitChan, DeInitDrop1, DeInitMute2, DeInitDrop2,
       DeInitChan, DeInitPin, CcpStep, ChanStep, hist, locals
  <2> QED BY <1>10, <2>1
<1> QED BY <1>2, <1>3, <1>4, <1>5, <1>6, <1>7, <1>8, <1>9, <1>11, <1>12, <1>13, <1>14, <1>15
        DEF Next, App, MainLine

-----------------------------------------------------------------------------
(* The transmitter against Timer1: ticks until its next match, ticks since *)
(* the last one.                                                           *)
Ahead(a, b) == IF a >= b THEN a - b ELSE a + Wrap - b
Due   == Ahead(ccp2.reg, t)
Over  == Ahead(t, ccp2.reg)
Armed == ccp2.mode # "off"

Writing  == pc \in {"wStore", "wCount", "wTest"}
Starting == pc \in {"aLoad", "aTail", "aCount", "aIndex", "aState"}
Live     == chan /\ pc \notin InDeInit

(* The events of an open channel are enabled, ...                          *)
EventsOn ==
  /\ Live => gie /\ ccp2.ie
  /\ pc \in {"iGie", "iChan"} => ccp2.ie /\ ccp2.cb
  /\ pc = "iChan" => gie

(* ... so one that is pending has not been for longer than wait says.      *)
Course == Live /\ ccp2.flag => Armed /\ Over <= wait

(* While a call looks at the transmitter or starts it, the event that      *)
(* would take a byte out of the ring is not due before the call is over.   *)
Clear ==
  /\ Writing /\ tx.state = "STOP" /\ ccp2.flag => Over + CallTime < Bit + spent
  /\ (Writing \/ Starting) /\ tx.state = "IDLE" =>
       ~ccp2.flag /\ (Armed => CallTime < Due + spent)
  /\ pc = "aTime" => ~ccp2.flag /\ (Armed => CallTime < Due + spent)
  /\ pc = "aMode" => ~ccp2.flag /\ CallTime < Due + spent

(* The handle, and what a call has found out about it.                     *)
Sender ==
  /\ tx \in HandleType(TxNames)
  /\ tx.state = "DATA" => tx.idx < Bits
  /\ pc = "aState" => tx.idx = 0
  /\ Starting => tx.state = "IDLE"
  /\ pc \in {"aLoad", "aTail", "aCount"} => tx.count > 0
  /\ Writing /\ some => tx.count > 0
  /\ pc = "wCount" => tx.count < SZ

TInv == NInv /\ Clocks /\ Ccps /\ Calls /\ EventsOn /\ Course /\ Clear /\ Sender

LEMMA AheadTick ==
  ASSUME InMargins, NEW r \in 0 .. Wrap - 1, NEW x \in 0 .. Wrap - 1
  PROVE  /\ Ahead(r, x) \in Nat /\ Ahead(x, r) \in Nat
         /\ Ahead(r, x) >= 2 => Later(x, 1) # r /\ Ahead(r, Later(x, 1)) = Ahead(r, x) - 1
         /\ Ahead(Later(x, 1), r) <= Ahead(x, r) + 1
         /\ Later(x, 1) = r => Ahead(Later(x, 1), r) = 0
<1>1. Later(x, 1) = IF x + 1 < Wrap THEN x + 1 ELSE 0
  BY Times DEF Later
<1> QED BY <1>1, Times DEF Ahead

LEMMA AheadLater ==
  ASSUME InMargins, NEW r \in 0 .. Wrap - 1, NEW x \in 0 .. Wrap - 1
  PROVE  /\ Ahead(x, r) <= Latency => Ahead(Later(r, Bit), x) = Bit - Ahead(x, r)
         /\ Ahead(Later(x, Lead), x) = Lead
<1>1. \A y \in 0 .. Wrap - 1, d \in 0 .. Wrap - 1 :
        Later(y, d) = IF y + d < Wrap THEN y + d ELSE y + d - Wrap
  BY Times DEF Later
<1>2. Bit \in 0 .. Wrap - 1 /\ Lead \in 0 .. Wrap - 1
  BY Times
<1> QED BY <1>1, <1>2, Times DEF Ahead

(* What the properties of the transmitter need to know of a state.         *)
LEMMA SenderFields ==
  ASSUME InMargins, TInv
  PROVE  /\ ccp2.reg \in 0 .. Wrap - 1 /\ t \in 0 .. Wrap - 1 /\ Due \in Nat /\ Over \in Nat
         /\ wait \in 0 .. Latency /\ spent \in 0 .. CallTime
         /\ tx.state \in TxNames /\ tx.shift \in Bytes /\ tx.idx \in 0 .. Bits
         /\ tx.buf \in [Places -> Bytes] /\ tx.head \in Places /\ tx.tail \in Places
         /\ tx.count \in Levels
<1>1. ccp2.reg \in 0 .. Wrap - 1 /\ t \in 0 .. Wrap - 1
  BY CcpFields DEF TInv, Clocks
<1>2. Due \in Nat /\ Over \in Nat
  BY <1>1, AheadTick DEF Due, Over
<1> QED BY <1>1, <1>2, Fields DEF TInv, Clocks, Sender

LEMMA TickSender ==
  ASSUME InMargins, TInv, Tick
  PROVE  EventsOn' /\ Course' /\ Clear' /\ Sender'
<1>1. UNCHANGED <<pc, chan, gie, tx, some>> /\ t' = Later(t, 1)
  BY DEF Tick, locals
<1>2. ccp2' = [ccp2 EXCEPT !.flag = ccp2.flag \/ Matches(ccp2, t')]
  BY DEF Tick
<1>3. /\ UNCHANGED <<ccp2.reg, ccp2.mode, ccp2.ie, ccp2.cb>>
      /\ ccp2'.flag = (ccp2.flag \/ Matches(ccp2, t'))
  BY <1>2 DEF TInv, Ccps, CcpType
<1>4. EventsOn' /\ Sender'
  BY <1>1, <1>3 DEF EventsOn, Sender, TInv, Live, Starting, Writing
<1>5. /\ Due >= 2 => ~Matches(ccp2, t') /\ Due' = Due - 1
      /\ Over' <= Over + 1
      /\ Matches(ccp2, t') => Over' = 0
      /\ Due \in Nat /\ Over \in Nat /\ Over' \in Nat
  <2>1. ccp2.reg \in 0 .. Wrap - 1 /\ t \in 0 .. Wrap - 1 /\ t' \in 0 .. Wrap - 1
    BY <1>1, SenderFields, LaterType, Times
  <2>2. Due' = Ahead(ccp2.reg, t') /\ Over' = Ahead(t', ccp2.reg)
    BY <1>3 DEF Due, Over
  <2> QED BY <1>1, <2>1, <2>2, AheadTick DEF Due, Over, Matches
<1>6. ~Armed => ~Matches(ccp2, t')
  BY DEF Armed, Matches
<1>7. (Armed' <=> Armed) /\ (Live' <=> Live) /\ (Writing' <=> Writing)
      /\ (Starting' <=> Starting)
  BY <1>1, <1>3 DEF Armed, Live, Writing, Starting
<1>8. Course'
  <2> SUFFICES ASSUME Live, ccp2'.flag PROVE Armed /\ Over' <= wait'
    BY <1>7 DEF Course
  <2>1. CASE ccp2.flag
    <3>1. Pending
      BY <2>1 DEF Pending, TInv, EventsOn
    <3>2. wait' = wait + 1 /\ Over <= wait /\ Armed /\ wait \in Nat
      BY <2>1, <3>1, SenderFields, Times DEF Tick, TInv, Course
    <3> QED BY <1>5, <3>2
  <2>2. CASE ~ccp2.flag
    <3>1. Matches(ccp2, t')
      BY <1>3, <2>2
    <3>2. wait' \in Nat
      BY SenderFields, Times DEF Tick
    <3> QED BY <1>5, <1>6, <3>1, <3>2
  <2> QED BY <2>1, <2>2
<1>9. Clear'
  <2>1. CASE pc = "idle"
    BY <1>1, <2>1 DEF Clear, Writing, Starting
  <2>2. CASE pc # "idle"
    <3>1. spent' = spent + 1 /\ spent < CallTime /\ spent \in Nat
      BY <2>2, SenderFields, Times DEF Tick
    <3>2. CallTime < Due + spent => ~Matches(ccp2, t') /\ CallTime < Due' + spent'
      BY <1>5, <3>1, Times
    <3>3. ASSUME Writing, tx.state = "STOP", ccp2'.flag
          PROVE  Over' + CallTime < Bit + spent'
      <4>1. CASE ccp2.flag
        <5>1. Over + CallTime < Bit + spent
          BY <3>3, <4>1 DEF TInv, Clear
        <5>2. Over \in Nat /\ Over' \in Nat /\ Over' <= Over + 1
          BY <1>5
        <5>3. CallTime \in Nat /\ Bit \in Nat
          BY Times
        <5>4. \A a, b \in Nat : /\ a <= b + 1
                               /\ b + CallTime < Bit + spent
                               => a + CallTime < Bit + (spent + 1)
          BY <3>1, <5>3
        <5> QED BY <3>1, <5>1, <5>2, <5>4
      <4>2. CASE ~ccp2.flag
        <5>1. Over' = 0
          BY <1>3, <1>5, <3>3, <4>2
        <5> QED BY <3>1, <5>1, Times
      <4> QED BY <4>1, <4>2
    <3>4. ASSUME ~ccp2.flag, Armed => CallTime < Due + spent
          PROVE  ~ccp2'.flag /\ (Armed => CallTime < Due' + spent')
      BY <1>3, <1>6, <3>2, <3>4
    <3>5. pc = "aMode" => ~ccp2'.flag /\ CallTime < Due' + spent'
      BY <1>3, <3>2 DEF TInv, Clear
    <3> QED BY <1>1, <1>7, <3>3, <3>4, <3>5 DEF TInv, Clear
  <2> QED BY <2>1, <2>2
<1> QED BY <1>4, <1>8, <1>9

(* The service routine takes a byte out of the ring only while no call is  *)
(* looking at it.                                                          *)
LEMMA IsrSender ==
  ASSUME InMargins, TInv, Isr
  PROVE  EventsOn' /\ Course' /\ Clear' /\ Sender'
<1> DEFINE H == HandleType(TxNames)
<1>1. UNCHANGED <<pc, chan, gie, some, t, spent>>
  BY DEF Isr, locals, clock
<1>2. UNCHANGED <<ccp2.ie, ccp2.cb>> /\ ccp2'.flag = FALSE
  BY DEF Isr, IsrTx, TxIdleEvent, TxDataEvent, TxStopEvent, ShiftOut, ArmNext, TInv, Ccps,
     CcpType
<1>3. EventsOn' /\ Course'
  BY <1>1, <1>2 DEF EventsOn, Course, TInv, Live
<1>4. Due \in Nat /\ Over \in Nat /\ wait \in 0 .. Latency /\ tx.state \in TxNames
  BY SenderFields
<1>5. (Writing' <=> Writing) /\ (Starting' <=> Starting)
  BY <1>1 DEF Writing, Starting
<1>6. "IDLE" \in TxNames /\ "DATA" \in TxNames /\ "STOP" \in TxNames
  BY DEF TxNames
<1>7. CASE UNCHANGED tx /\ UNCHANGED <<ccp2.reg, ccp2.mode>>
  <2>1. Due' = Due /\ (Armed' <=> Armed)
    BY <1>1, <1>7 DEF Due, Armed
  <2>2. Clear'
    BY <1>1, <1>2, <1>5, <1>7, <2>1 DEF TInv, Clear
  <2>3. Sender'
    BY <1>1, <1>5, <1>7 DEF TInv, Sender
  <2> QED BY <1>3, <2>2, <2>3
<1>8. CASE ccp2.flag /\ chan /\ (TxIdleEvent \/ TxDataEvent \/ TxStopEvent)
  <2>1. /\ pc \notin {"aTime", "aMode"}
        /\ ~Starting
        /\ Writing => tx.state # "IDLE"
    BY <1>8 DEF TInv, Clear, Sender
  <2>2. pc \notin {"aLoad", "aTail", "aCount", "aState"} /\ ~(pc = "wCount" /\ ~Writing)
    BY <2>1 DEF Starting, Writing
  <2>3. CASE TxIdleEvent
    <3>1. ~Writing
      BY <2>1, <2>3 DEF TxIdleEvent
    <3>2. Clear'
      BY <1>1, <1>5, <2>1, <3>1 DEF Clear
    <3>3. CASE UNCHANGED tx
      BY <1>1, <1>3, <1>5, <3>2, <3>3 DEF TInv, Sender
    <3>4. CASE tx.count > 0 /\ tx' = TxPop
      <4> DEFINE b == tx.buf[tx.tail]
      <4>1. b \in Bytes /\ Succ(tx.tail) \in Places /\ Dec(tx.count) \in Levels
            /\ 0 \in 0 .. Bits
        BY <3>4, SenderFields, Indices, Sizes
      <4>2. tx \in H
        BY DEF TInv, Sender
      <4> HIDE DEF b
      <4>3. tx' = [tx EXCEPT !.shift = b, !.tail = Succ(tx.tail), !.count = Dec(tx.count),
                             !.idx = 0, !.state = "DATA"]
        BY <3>4 DEF TxPop, b
      <4>4. tx' \in H
        BY <1>6, <4>1, <4>2, <4>3, Popped
      <4>5. tx'.idx = 0
        BY <4>2, <4>3 DEF HandleType
      <4>6. Sender'
        BY <1>1, <1>5, <2>1, <2>2, <3>1, <4>4, <4>5, Sizes DEF Sender, Writing
      <4> QED BY <1>3, <3>2, <4>6
    <3> QED BY <2>3, <3>3, <3>4 DEF TxIdleEvent, ArmNext
  <2>4. CASE TxDataEvent
    <3> DEFINE s == IF tx.idx + 1 >= Bits THEN "STOP" ELSE "DATA"
               h == tx.shift \div 2
               k == tx.idx + 1
    <3>1. /\ tx \in H /\ tx.state = "DATA" /\ tx.idx < Bits /\ tx.idx \in 0 .. Bits
          /\ tx.shift \in Bytes
      BY <2>4, SenderFields DEF TInv, Sender, TxDataEvent, ShiftOut
    <3>2. tx' = [tx EXCEPT !.shift = h, !.idx = k, !.state = s]
      BY <2>4 DEF TxDataEvent, ShiftOut, ArmNext
    <3>3. h \in Bytes
      BY <3>1, Shifts
    <3>4. k \in 0 .. Bits /\ s \in TxNames /\ (s = "DATA" => k < Bits)
      BY <1>6, <3>1, Sizes
    <3>5. s # "IDLE"
      OBVIOUS
    <3> HIDE DEF h, k, s
    <3>6. tx' \in H
      BY <3>1, <3>2, <3>3, <3>4, FieldSet
    <3>7. tx'.state = s /\ tx'.idx = k /\ tx'.count = tx.count
      BY <3>1, <3>2 DEF HandleType
    <3>8. Sender'
      BY <1>1, <1>5, <2>1, <2>2, <3>4, <3>6, <3>7 DEF TInv, Sender
    <3>9. Clear'
      BY <1>1, <1>2, <1>5, <2>1, <3>5, <3>7 DEF Clear
    <3> QED BY <1>3, <3>8, <3>9
  <2>5. CASE TxStopEvent
    <3>1. tx \in H /\ tx' = [tx EXCEPT !.state = "IDLE"] /\ tx.state = "STOP"
      BY <2>5 DEF TInv, Sender, TxStopEvent, ArmNext
    <3>2. tx' \in H
      BY <1>6, <3>1, FieldSet
    <3>3. tx'.state = "IDLE" /\ tx'.count = tx.count
      BY <3>1 DEF HandleType
    <3>4. Sender'
      BY <1>1, <1>5, <2>1, <2>2, <3>2, <3>3 DEF TInv, Sender
    <3>5. ASSUME Writing PROVE CallTime < Due' + spent'
      <4>1. ccp2.reg \in 0 .. Wrap - 1 /\ t \in 0 .. Wrap - 1 /\ spent \in 0 .. CallTime
        BY SenderFields
      <4>2. ccp2'.reg = Later(ccp2.reg, Bit)
        BY <2>5 DEF TxStopEvent, ArmNext, TInv, Ccps, CcpType
      <4>3. Over + CallTime < Bit + spent
        BY <1>8, <3>1, <3>5 DEF TInv, Clear
      <4>4. Live
        BY <1>8, <3>5 DEF Live, Writing, InDeInit
      <4>5. Over <= Latency
        BY <1>4, <1>8, <4>4, Times DEF TInv, Course
      <4>6. Due' = Bit - Over
        BY <1>1, <4>1, <4>2, <4>5, AheadLater DEF Due, Over
      <4> QED BY <1>1, <1>4, <4>1, <4>3, <4>6, Times
    <3>6. Clear'
      BY <1>1, <1>2, <1>5, <2>1, <3>3, <3>5 DEF Clear
    <3> QED BY <1>3, <3>4, <3>6
  <2> QED BY <1>8, <2>3, <2>4, <2>5
<1> QED
  <2>1. \/ ccp2.flag /\ chan /\ (TxIdleEvent \/ TxDataEvent \/ TxStopEvent)
        \/ ccp2' = [ccp2 EXCEPT !.flag = FALSE] /\ UNCHANGED tx
    BY DEF Isr, IsrTx
  <2>2. ccp2' = [ccp2 EXCEPT !.flag = FALSE] => UNCHANGED <<ccp2.reg, ccp2.mode>>
    BY DEF TInv, Ccps, CcpType
  <2> QED BY <1>7, <1>8, <2>1, <2>2

(* Steps that neither look at the transmitter nor touch its events.        *)
Busy == {"wStore", "wCount", "wTest", "aLoad", "aTail", "aCount", "aIndex", "aState",
         "aTime", "aMode"}

LEMMA SenderKept ==
  ASSUME TInv, UNCHANGED <<t, wait, ccp2, tx, gie, chan>>,
         \/ UNCHANGED <<pc, spent, some>>
         \/ /\ pc \notin InInit \cup InDeInit \cup {"dPin"}
            /\ pc' \notin InInit \cup InDeInit \cup Busy \cup {"dPin"}
  PROVE  EventsOn' /\ Course' /\ Clear' /\ Sender'
<1>1. Due' = Due /\ Over' = Over /\ (Armed' <=> Armed)
  BY DEF Due, Over, Armed
<1>2. CASE UNCHANGED <<pc, spent, some>>
  <2>1. (Live' <=> Live) /\ (Writing' <=> Writing) /\ (Starting' <=> Starting)
    BY <1>2 DEF Live, Writing, Starting
  <2>2. EventsOn' /\ Course'
    BY <1>1, <1>2, <2>1 DEF TInv, EventsOn, Course
  <2>3. Clear'
    BY <1>1, <1>2, <2>1 DEF TInv, Clear
  <2>4. Sender'
    BY <1>2, <2>1 DEF TInv, Sender
  <2> QED BY <2>2, <2>3, <2>4
<1>3. CASE /\ pc \notin InInit \cup InDeInit \cup {"dPin"}
           /\ pc' \notin InInit \cup InDeInit \cup Busy \cup {"dPin"}
  <2>1. (Live' <=> Live) /\ ~Writing' /\ ~Starting' /\ pc' \notin Busy
        /\ pc' \notin {"iGie", "iChan"}
    BY <1>3 DEF Live, Writing, Starting, Busy, InInit
  <2>2. EventsOn' /\ Course'
    BY <1>1, <2>1 DEF TInv, EventsOn, Course
  <2>3. Clear'
    BY <2>1 DEF Clear, Busy
  <2>4. Sender'
    BY <2>1 DEF TInv, Sender, Busy
  <2> QED BY <2>2, <2>3, <2>4
<1> QED BY <1>2, <1>3

(* A call of Write begins on a transmitter that is shifting, or off.       *)
LEMMA BeginSender ==
  ASSUME TInv, ~WritesAnyTime, NEW n \in 1 .. MaxTx, AppWrite(n)
  PROVE  EventsOn' /\ Course' /\ Clear' /\ Sender'
<1>1. /\ pc = "idle" /\ pc' = "wStore" /\ chan /\ some' = FALSE
      /\ UNCHANGED <<t, wait, ccp2, tx, gie, chan>>
      /\ tx.state = "DATA" \/ (ccp2.mode = "off" /\ ~ccp2.flag)
  BY DEF AppWrite, Call, At, Others, NoTime, clock, ccps, Quiet
<1>2. Over' = Over /\ (Armed' <=> Armed) /\ (Live' <=> Live)
  BY <1>1 DEF Over, Armed, Live, InDeInit
<1>3. EventsOn' /\ Course'
  BY <1>1, <1>2 DEF TInv, EventsOn, Course
<1>4. Clear'
  BY <1>1, <1>2 DEF Clear, Armed
<1>5. Sender'
  BY <1>1 DEF TInv, Sender, Starting, Writing
<1> QED BY <1>3, <1>4, <1>5

(* The steps of Write up to the start of the compare module.               *)
LEMMA ClearKept ==
  ASSUME TInv, UNCHANGED <<t, wait, spent, ccp2, gie, chan>>, UNCHANGED tx.state,
         \/ Writing /\ Writing'
         \/ Writing /\ Starting' /\ tx.state = "IDLE"
         \/ Starting /\ Starting'
  PROVE  EventsOn' /\ Course' /\ Clear'
<1>1. Due' = Due /\ Over' = Over /\ (Armed' <=> Armed)
  BY DEF Due, Over, Armed
<1>2. /\ Live' /\ Live /\ pc \notin {"iGie", "iChan"}
      /\ pc' \notin {"iGie", "iChan", "aTime", "aMode"}
  BY DEF TInv, NInv, Open, Live, Writing, Starting, InInit, InDeInit
<1>3. EventsOn' /\ Course'
  BY <1>1, <1>2 DEF TInv, EventsOn, Course
<1>4. Starting' => ~Writing'
  BY DEF Starting, Writing
<1>5. Clear'
  BY <1>1, <1>2, <1>4 DEF TInv, Clear
<1> QED BY <1>3, <1>5

LEMMA WriteSender ==
  ASSUME InMargins, TInv, WriteStore \/ WriteCount \/ WriteTest
  PROVE  EventsOn' /\ Course' /\ Clear' /\ Sender'
<1> USE DEF Step, At, Others, NoTime, clock, ccps
<1> DEFINE H == HandleType(TxNames)
<1>0. /\ tx \in H /\ tx.head \in Places /\ tx.count \in Levels /\ tx.state \in TxNames
  BY SenderFields DEF TInv, Sender
<1>1. CASE WriteStore
  <2>1. /\ pc = "wStore" /\ pc' \in {"wCount", "wTest"}
        /\ UNCHANGED <<t, wait, spent, ccp2, gie, chan, some>>
    BY <1>1 DEF WriteStore, locals
  <2>2. CASE pc' = "wTest" /\ UNCHANGED tx
    <3>1. Sender'
      BY <2>1, <2>2 DEF TInv, Sender, Writing, Starting
    <3> QED BY <2>1, <2>2, <3>1, ClearKept DEF Writing
  <2>3. CASE /\ todo > 0 /\ tx.count < SZ /\ pc' = "wCount"
             /\ tx' = [tx EXCEPT !.buf[tx.head] = txIn + 1, !.head = Succ(tx.head)]
    <3>1. txIn + 1 \in Bytes
      <4>1. txIn \in Nat /\ txIn + 1 <= MaxTx
        BY <2>1, <2>3, Sizes DEF TInv, Calls
      <4> QED BY <4>1, Sizes DEF Bytes
    <3>2. tx' \in H
      <4>1. Succ(tx.head) \in Places
        BY <1>0, Indices
      <4> QED BY <1>0, <2>3, <3>1, <4>1, Pushed
    <3>3. tx'.state = tx.state /\ tx'.idx = tx.idx /\ tx'.count = tx.count
      BY <1>0, <2>3 DEF HandleType
    <3>4. Sender'
      BY <2>1, <2>3, <3>2, <3>3 DEF TInv, Sender, Writing, Starting
    <3> QED BY <2>1, <3>3, <3>4, ClearKept DEF Writing
  <2> QED BY <1>1, <2>2, <2>3 DEF WriteStore
<1>2. CASE WriteCount
  <2>1. /\ pc = "wCount" /\ pc' = "wStore" /\ tx.count < SZ
        /\ tx' = [tx EXCEPT !.count = Inc(tx.count)]
        /\ UNCHANGED <<t, wait, spent, ccp2, gie, chan>>
    BY <1>2 DEF WriteCount, TInv, Sender
  <2>2. Inc(tx.count) \in Levels /\ Inc(tx.count) > 0
    BY <1>0, <2>1, Indices, Sizes DEF Levels
  <2>3. tx' \in H
    BY <1>0, <2>1, <2>2, FieldSet
  <2>4. tx'.state = tx.state /\ tx'.idx = tx.idx /\ tx'.count = Inc(tx.count)
    BY <1>0, <2>1 DEF HandleType
  <2>5. Sender'
    BY <2>1, <2>2, <2>3, <2>4 DEF TInv, Sender, Writing, Starting
  <2> QED BY <2>1, <2>4, <2>5, ClearKept DEF Writing
<1>3. CASE WriteTest
  <2>1. pc = "wTest" /\ some' = FALSE /\ UNCHANGED <<t, wait, spent, ccp2, tx, gie, chan>>
    BY <1>3 DEF WriteTest
  <2>2. CASE pc' = "idle"
    BY <2>1, <2>2, SenderKept DEF InInit, InDeInit, Busy
  <2>3. CASE pc' = "aLoad" /\ some /\ tx.state = "IDLE"
    <3>1. Sender'
      BY <2>1, <2>3 DEF TInv, Sender, Writing, Starting
    <3> QED BY <2>1, <2>3, <3>1, ClearKept DEF Writing, Starting
  <2> QED BY <1>3, <2>2, <2>3 DEF WriteTest
<1> QED BY <1>1, <1>2, <1>3

LEMMA StartSender ==
  ASSUME InMargins, TInv, ArmLoad \/ ArmTail \/ ArmCount \/ ArmIndex
  PROVE  EventsOn' /\ Course' /\ Clear' /\ Sender'
<1> USE DEF Step, At, Others, NoTime, clock, ccps, TxStep
<1> DEFINE H == HandleType(TxNames)
<1>1. /\ tx \in H /\ tx.tail \in Places /\ tx.count \in Levels /\ tx.buf \in [Places -> Bytes]
      /\ tx.state \in TxNames
  BY SenderFields DEF TInv, Sender
<1>2. /\ pc \in {"aLoad", "aTail", "aCount", "aIndex"}
      /\ pc' \in {"aTail", "aCount", "aIndex", "aState"}
      /\ UNCHANGED <<t, wait, spent, ccp2, gie, chan, some>>
  BY DEF ArmLoad, ArmTail, ArmCount, ArmIndex, locals
<1>3. Starting /\ Starting' /\ ~Writing' /\ tx.state = "IDLE"
  BY <1>2 DEF Starting, Writing, TInv, Sender
<1>4. CASE ArmLoad
  <2>1. tx' = [tx EXCEPT !.shift = tx.buf[tx.tail]] /\ pc' = "aTail" /\ pc = "aLoad"
    BY <1>4 DEF ArmLoad
  <2>2. tx' \in H
    BY <1>1, <2>1, FieldSet
  <2>3. tx'.state = tx.state /\ tx'.count = tx.count
    BY <1>1, <2>1 DEF HandleType
  <2>4. Sender'
    BY <1>3, <2>1, <2>2, <2>3 DEF TInv, Sender
  <2> QED BY <1>2, <1>3, <2>3, <2>4, ClearKept
<1>5. CASE ArmTail
  <2>1. tx' = [tx EXCEPT !.tail = Succ(tx.tail)] /\ pc' = "aCount" /\ pc = "aTail"
    BY <1>5 DEF ArmTail
  <2>2. tx' \in H
    BY <1>1, <2>1, Indices, FieldSet
  <2>3. tx'.state = tx.state /\ tx'.count = tx.count
    BY <1>1, <2>1 DEF HandleType
  <2>4. Sender'
    BY <1>3, <2>1, <2>2, <2>3 DEF TInv, Sender
  <2> QED BY <1>2, <1>3, <2>3, <2>4, ClearKept
<1>6. CASE ArmCount
  <2>1. tx' = [tx EXCEPT !.count = Dec(tx.count)] /\ pc' = "aIndex" /\ tx.count > 0
    BY <1>6 DEF ArmCount, TInv, Sender
  <2>2. tx' \in H
    BY <1>1, <2>1, Indices, FieldSet
  <2>3. tx'.state = tx.state
    BY <1>1, <2>1 DEF HandleType
  <2>4. Sender'
    BY <1>3, <2>1, <2>2, <2>3 DEF TInv, Sender
  <2> QED BY <1>2, <1>3, <2>3, <2>4, ClearKept
<1>7. CASE ArmIndex
  <2>1. tx' = [tx EXCEPT !.idx = 0] /\ pc' = "aState"
    BY <1>7 DEF ArmIndex
  <2>2. tx' \in H
    <3>1. 0 \in 0 .. Bits
      BY Sizes
    <3> QED BY <1>1, <2>1, <3>1, FieldSet
  <2>3. tx'.state = tx.state /\ tx'.idx = 0
    BY <1>1, <2>1 DEF HandleType
  <2>4. Sender'
    BY <1>3, <2>1, <2>2, <2>3 DEF TInv, Sender
  <2> QED BY <1>2, <1>3, <2>3, <2>4, ClearKept
<1> QED BY <1>4, <1>5, <1>6, <1>7

(* The compare module is set going: the lead outlasts the call.            *)
LEMMA ArmSender ==
  ASSUME InMargins, TInv, ArmState \/ ArmTime \/ ArmMode
  PROVE  EventsOn' /\ Course' /\ Clear' /\ Sender'
<1> USE DEF Step, At, Others, NoTime, Peripheral, clock, ccps, TxStep, Ccp2Step
<1> DEFINE H == HandleType(TxNames)
<1>1. /\ tx \in H /\ tx.state \in TxNames /\ t \in 0 .. Wrap - 1 /\ spent \in 0 .. CallTime
      /\ "DATA" \in TxNames
  BY SenderFields DEF TInv, Sender, TxNames
<1>2. CASE ArmState
  <2>1. /\ tx' = [tx EXCEPT !.state = "DATA"] /\ pc = "aState" /\ pc' = "aTime"
        /\ UNCHANGED <<t, wait, spent, ccp2, gie, chan>>
    BY <1>2 DEF ArmState
  <2>2. tx' \in H
    BY <1>1, <2>1, FieldSet
  <2>3. tx'.idx = tx.idx /\ tx.idx = 0 /\ 0 < Bits
    BY <1>1, <2>1, Sizes DEF HandleType, TInv, Sender
  <2>4. Sender'
    BY <2>1, <2>2, <2>3 DEF Sender, Starting, Writing
  <2>5. Due' = Due /\ Over' = Over /\ (Armed' <=> Armed) /\ (Live' <=> Live)
    BY <2>1 DEF Due, Over, Armed, Live, InDeInit
  <2>6. EventsOn' /\ Course'
    BY <2>1, <2>5 DEF TInv, EventsOn, Course
  <2>7. Clear'
    BY <2>1, <2>5 DEF TInv, Clear, Sender, Starting, Writing
  <2> QED BY <2>4, <2>6, <2>7
<1>3. CASE ArmTime
  <2>1. /\ pc = "aTime" /\ pc' = "aMode" /\ UNCHANGED <<t, wait, spent, tx, gie, chan>>
        /\ ccp2' = [ccp2 EXCEPT !.reg = Later(t, Lead)]
    BY <1>3 DEF ArmTime
  <2>2. /\ ccp2'.reg = Later(t, Lead)
        /\ UNCHANGED <<ccp2.mode, ccp2.flag, ccp2.ie, ccp2.cb>> /\ ~ccp2.flag
    BY <2>1 DEF TInv, Ccps, CcpType, Clear
  <2>3. Due' = Lead
    BY <1>1, <2>1, <2>2, AheadLater DEF Due
  <2>4. Sender'
    BY <2>1 DEF TInv, Sender, Starting, Writing
  <2>5. EventsOn' /\ Course'
    BY <2>1, <2>2 DEF TInv, EventsOn, Course, Live, InDeInit
  <2>6. CallTime < Due' + spent'
    BY <1>1, <2>1, <2>3, Times
  <2>7. Clear'
    BY <2>1, <2>2, <2>6 DEF Clear, Starting, Writing
  <2> QED BY <2>4, <2>5, <2>7
<1>4. CASE ArmMode
  <2>1. /\ pc = "aMode" /\ pc' = "idle" /\ UNCHANGED <<t, wait, spent, tx, gie, chan>>
        /\ ccp2' = [ccp2 EXCEPT !.mode = "clear"]
    BY <1>4 DEF ArmMode
  <2>2. UNCHANGED <<ccp2.reg, ccp2.flag, ccp2.ie, ccp2.cb>> /\ ~ccp2.flag
    BY <2>1 DEF TInv, Ccps, CcpType, Clear
  <2>3. Sender'
    BY <2>1 DEF TInv, Sender, Starting, Writing
  <2>4. EventsOn' /\ Course'
    BY <2>1, <2>2 DEF TInv, EventsOn, Course, Live, InDeInit
  <2>5. Clear'
    BY <2>1 DEF Clear, Starting, Writing
  <2> QED BY <2>3, <2>4, <2>5
<1> QED BY <1>2, <1>3, <1>4

LEMMA SetUpSender ==
  ASSUME TInv, \/ InitHandle \/ InitRx \/ InitTx \/ InitGie \/ InitChan \/ AppDeInit
               \/ DeInitDrop1 \/ DeInitMute2 \/ DeInitDrop2 \/ DeInitChan \/ DeInitPin
  PROVE  EventsOn' /\ Course' /\ Clear' /\ Sender'
<1> USE DEF Call, Step, At, Others, NoTime, Peripheral, clock, ccps, CcpStep, ChanStep
<1>1. CASE InitHandle
  <2>1. pc' = "iRx" /\ ~chan' /\ tx' = Handle
    BY <1>1 DEF InitHandle
  <2>2. tx'.state = "IDLE" /\ tx' \in HandleType(TxNames)
    BY <2>1, HandleOK DEF Handle
  <2> QED BY <2>1, <2>2 DEF EventsOn, Course, Clear, Sender, Live, Starting, Writing
<1>2. pc' \notin Busy
  BY DEF InitHandle, InitRx, InitTx, InitGie, InitChan, AppDeInit, DeInitDrop1, DeInitMute2,
     DeInitDrop2, DeInitChan, DeInitPin, Busy
<1>3. Clear'
  BY <1>2 DEF Clear, Starting, Writing, Busy
<1>4. ~InitHandle => Sender'
  <2>1. ~InitHandle => UNCHANGED tx
    BY DEF InitRx, InitTx, InitGie, InitChan, AppDeInit, DeInitDrop1, DeInitMute2,
       DeInitDrop2, DeInitChan, DeInitPin
  <2> QED BY <1>2, <2>1 DEF TInv, Sender, Starting, Writing, Busy
<1>5. CASE InitRx \/ InitTx \/ InitGie
  <2>1. ~chan /\ ~chan'
    BY <1>5 DEF InitRx, InitTx, InitGie, TInv, NInv, Open, InInit
  <2>2. EventsOn' /\ Course'
    BY <1>5, <2>1 DEF InitRx, InitTx, InitGie, SetUp, TInv, EventsOn, Course, Live
  <2> QED BY <1>3, <1>4, <1>5, <2>2 DEF InitRx, InitTx, InitGie, InitHandle
<1>6. CASE InitChan
  <2>1. pc = "iChan" /\ ~chan /\ gie' /\ ccp2' = ccp2 /\ ccp2.ie /\ ccp2.cb /\ pc' = "idle"
    BY <1>6 DEF InitChan, TInv, NInv, Open, InInit, EventsOn
  <2>2. ~ccp2.flag
    BY <2>1 DEF TInv, NInv, Silence
  <2> QED BY <1>3, <1>4, <2>1, <2>2 DEF InitHandle, EventsOn, Course
<1>7. CASE \/ AppDeInit \/ DeInitDrop1 \/ DeInitMute2 \/ DeInitDrop2 \/ DeInitChan
  <2>1. pc' \in InDeInit \/ (pc' = "dPin" /\ ~chan')
    BY <1>7 DEF AppDeInit, DeInitDrop1, DeInitMute2, DeInitDrop2, DeInitChan, InDeInit
  <2>2. ~InitHandle
    BY <2>1 DEF InitHandle, InDeInit
  <2> QED BY <1>3, <1>4, <2>1, <2>2 DEF EventsOn, Course, Live, InDeInit
<1>8. CASE DeInitPin
  <2>1. pc = "dPin" /\ pc' = "idle" /\ ~chan'
    BY <1>8 DEF DeInitPin, TInv, NInv, Open
  <2> QED BY <1>3, <1>4, <2>1 DEF EventsOn, Course, Live, InitHandle
<1> QED BY <1>1, <1>5, <1>6, <1>7, <1>8

LEMMA OtherSender ==
  ASSUME TInv,
         \/ BreakOn \/ BreakOff \/ Spike \/ UNCHANGED vars
         \/ AppErrors \/ AppRead \/ ReadTest \/ ReadLoad \/ ReadCount
         \/ ErrLo("eLo", "eHi") \/ ErrFirst \/ ErrLo("eLo2", "eHi2") \/ ErrSecond
  PROVE  EventsOn' /\ Course' /\ Clear' /\ Sender'
<1>1. CASE BreakOn \/ BreakOff \/ Spike \/ UNCHANGED vars
  <2>1. UNCHANGED <<t, wait, ccp2, tx, gie, chan, pc, spent, some>>
    BY <1>1 DEF BreakOn, BreakOff, Spike, vars, clock, ccps, locals
  <2> QED BY <2>1, SenderKept
<1>2. CASE \/ AppErrors \/ AppRead \/ ReadTest \/ ReadLoad \/ ReadCount
           \/ ErrLo("eLo", "eHi") \/ ErrFirst \/ ErrLo("eLo2", "eHi2") \/ ErrSecond
  <2> USE DEF Call, Step, At, Others, NoTime, clock, ccps
  <2>1. UNCHANGED <<t, wait, ccp2, tx, gie, chan>>
    BY <1>2 DEF AppErrors, AppRead, ReadTest, ReadLoad, ReadCount, ErrLo, ErrFirst, ErrSecond
  <2>2. /\ pc \in {"idle", "rTest", "rLoad", "rCount"} \cup InErrors
        /\ pc' \in {"idle", "rTest", "rLoad", "rCount"} \cup InErrors
    BY <1>2 DEF AppErrors, AppRead, ReadTest, ReadLoad, ReadCount, ErrLo, ErrFirst, ErrSecond,
       InErrors
  <2> QED BY <2>1, <2>2, SenderKept DEF InInit, InDeInit, Busy, InErrors
<1> QED BY <1>1, <1>2

LEMMA SenderSteps ==
  ASSUME InMargins, TInv, ~WritesAnyTime, [Next]_vars
  PROVE  EventsOn' /\ Course' /\ Clear' /\ Sender'
BY TickSender, IsrSender, BeginSender, WriteSender, StartSender, ArmSender, SetUpSender,
   OtherSender DEF Next, App, MainLine

-----------------------------------------------------------------------------
LEMMA TInvInit ==
  ASSUME InMargins
  PROVE  Init => TInv
<1> SUFFICES ASSUME Init PROVE TInv
  OBVIOUS
<1>1. NInv
  BY NInvInit
<1>2. Clocks
  <2>1. /\ 0 \in 0 .. CallTime /\ 0 \in 0 .. Wrap - 1 /\ 0 \in 0 .. Frame
        /\ 0 \in 0 .. Latency /\ 0 + 0 <= MaxFaults
    BY Times, Sizes
  <2>2. Init => fast \in BOOLEAN
    BY SwUartAssumption DEF Init
  <2> QED BY <2>1, <2>2 DEF Init, Clocks
<1>3. Ccps
  BY Times DEF Init, Ccps, CcpType, Unset, Names1, Names2
<1>4. Calls
  <2>1. 0 \in 0 .. MaxTx + SZ /\ 0 \in 0 .. MaxTx
    BY Sizes
  <2> QED BY <2>1 DEF Init, Calls
<1>5. EventsOn /\ Course /\ Clear
  BY DEF Init, EventsOn, Course, Clear, Live, Starting, Writing
<1>6. Sender
  BY HandleOK DEF Init, Sender, Handle, Starting, Writing
<1> QED BY <1>1, <1>2, <1>3, <1>4, <1>5, <1>6 DEF TInv

LEMMA TInvSteps ==
  ASSUME InMargins, ~WritesAnyTime, TInv, [Next]_vars
  PROVE  TInv'
<1>1. NInv' /\ Calls'
  BY NInvSteps, CallCounts DEF TInv
<1>2. Clocks'
  BY IsrClocks, TickClocks, FaultClocks, MainClocks, ClocksKept
     DEF TInv, Next, vars, clock, ccps, bounds, Clocks
<1>3. Ccps'
  <2>1. CASE UNCHANGED vars
    BY <2>1 DEF TInv, Ccps, vars, ccps
  <2> QED BY <2>1, IsrCcps, TickCcps, MainCcps DEF TInv, Next
<1>4. EventsOn' /\ Course' /\ Clear' /\ Sender'
  BY SenderSteps
<1> QED BY <1>1, <1>2, <1>3, <1>4 DEF TInv

LEMMA ReceiverInit == Init => Receiver
BY HandleOK, Indices DEF Init, Receiver, Handle

(* Types: with writes to a transmitter that is sending or has finished,    *)
(* neither ring overflows nor gives a byte it does not have, and neither   *)
(* bit index leaves its byte, for every ring size, bit time, latency and   *)
(* length of a call within the margins the library argues for.             *)
THEOREM SwUartTypes ==
  ASSUME InMargins, ~WritesAnyTime
  PROVE  Spec => []TypeOK
<1>1. Init => TInv /\ Receiver /\ ErrorsRead
  <2>1. Init => ErrorsRead
    BY DEF Init, ErrorsRead
  <2> QED BY <2>1, TInvInit, ReceiverInit
<1>2. TInv /\ [Next]_vars => TInv'
  BY TInvSteps
<1>3. TInv /\ Receiver /\ [Next]_vars => Receiver'
  BY ReceiverSteps DEF TInv
<1>4. ErrorsRead /\ [Next]_vars => ErrorsRead'
  BY ErrorsStep
<1>5. TInv /\ Receiver /\ ErrorsRead => TypeOK
  <2> SUFFICES ASSUME TInv, Receiver, ErrorsRead PROVE TypeOK
    OBVIOUS
  <2>1. breaks \in 0 .. MaxFaults /\ noise \in 0 .. MaxFaults
    BY Sizes DEF TInv, Clocks
  <2> QED BY <2>1 DEF TypeOK, TInv, Clocks, Ccps, Receiver, Calls, Sender, ErrorsRead,
         Names1, Names2, RxNames, TxNames
<1> QED BY <1>1, <1>2, <1>3, <1>4, <1>5, PTL DEF Spec

=============================================================================
