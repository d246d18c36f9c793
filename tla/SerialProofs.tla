---------------------------- MODULE SerialProofs ----------------------------
(***************************************************************************)
(* Proofs about the serial library for every ring size, every number of    *)
(* bytes and every latency, in the regime the tests drive it in: the       *)
(* program waits inside write and flush only with interrupts off, and      *)
(* enables them after epic_serial_init.                                    *)
(***************************************************************************)
EXTENDS Serial, TLAPS, SequenceTheorems

Regime == ~AppWaits /\ ~GieBeforeInit

InitPcs     == {"init", "initTxOff", "initTx",
                "initRxCount", "initRxTail", "initRxHead"}
DispatchPcs == {"dPir", "dRx", "dRxTest", "dRxHead", "dRxCount",
                "dTx", "dTest", "dLoad", "dTail", "dCount", "dSend"}
FlushPcs    == {"fRing", "fShift", "flushed"}
StorePcs    == {"wStore", "wHead", "wCount"}

(* Control.  The waiting code runs with GIE clear, so the service routine  *)
(* never runs under it; a write with GIE set was asked for with room for   *)
(* all of it; and each guard still holds at the access it was made for.    *)
CtlInv ==
  /\ pc \in InitPcs => /\ txCount = 0 /\ txHead = 0 /\ txTail = 0
                       /\ txIn = 0 /\ wire = 0 /\ tsr = 0 /\ hold = 0
                       /\ rxCount = 0 /\ rxHead = 0 /\ rxTail = 0
  /\ pc \in InitPcs \cup DispatchPcs \cup FlushPcs => ~gie
  /\ gie /\ pc \in {"wTest"} \cup StorePcs => txCount + todo <= SZ
  /\ gie /\ pc = "wKick" => txCount + todo <= SZ + 1
  /\ pc \in StorePcs => txCount < SZ
  /\ pc \in StorePcs \cup {"wKick"} => todo > 0
  /\ pc = "rLoad" => todo > 0
  /\ pc \in {"rLoad", "rTail", "rCount"} => rxCount > 0
  /\ pc \in {"dRxHead", "dRxCount"} => rxCount < SZ
  /\ pc \in {"dTest", "dLoad", "dTail", "dCount", "dSend"} => hold = 0
  /\ pc \in {"dLoad", "dTail", "dCount"} => txCount > 0

(* The transmit ring, in the middle of any update of it: where its oldest  *)
(* byte not yet taken is, how many bytes it holds, and how many went       *)
(* before them.                                                            *)
Idx(t, n) == IF t + n >= SZ THEN t + n - SZ ELSE t + n
One(cond) == IF cond THEN 1 ELSE 0
Taken     == pc \in {"dTail", "dCount", "dSend"}
TxFirst   == IF pc = "dTail" THEN Succ(txTail) ELSE txTail
TxStored  == IF pc \in {"wHead", "wCount"} THEN txCount + 1
             ELSE IF pc \in {"dTail", "dCount"} THEN txCount - 1
             ELSE txCount
TxNext    == IF pc = "wHead" THEN TxStored - 1 ELSE TxStored
OnLine    == wire + One(tsr # 0) + One(hold # 0)
TxAhead   == OnLine + One(Taken)

TxQueue ==
  /\ txIn = TxAhead + TxStored
  /\ \A n \in 0 .. SZ - 1 : n < TxStored => txBuf[Idx(TxFirst, n)] = TxAhead + n + 1
  /\ txHead = Idx(TxFirst, TxNext)

TxWire ==
  /\ tsr # 0 => tsr = wire + 1
  /\ hold # 0 => tsr # 0 /\ hold = wire + 2
  /\ Taken => byte = OnLine + 1
  /\ wireLast = wire

TxInv == TxQueue /\ TxWire

IInv == TypeOK /\ CtlInv /\ TxInv

(* The flush waits for the ring first and never sees it fill again.        *)
FlushInv ==
  /\ pc \in {"fShift", "flushed"} => txCount = 0
  /\ pc \in DispatchPcs /\ ret = "fShift" => txCount = 0 /\ pc # "dSend"
  /\ pc = "flushed" => tsr = 0

-----------------------------------------------------------------------------
(* Ring arithmetic without the modulus.                                    *)
LEMMA SizeType ==
  /\ SZ \in Nat /\ SZ > 0 /\ SZ < 255
  /\ Latency \in Nat /\ MaxLen \in Nat /\ MaxTx \in Nat /\ MaxRx \in Nat
BY SerialAssumption

LEMMA RingStep ==
  ASSUME NEW j \in 0 .. SZ - 1
  PROVE  /\ Succ(j) = IF j + 1 = SZ THEN 0 ELSE j + 1
         /\ Succ(j) \in 0 .. SZ - 1
<1>. CASE SZ = 1   BY DEF Succ
<1>. CASE SZ = 2   BY DEF Succ
<1>. CASE SZ = 4   BY DEF Succ
<1>. CASE SZ = 8   BY DEF Succ
<1>. CASE SZ = 16  BY DEF Succ
<1>. CASE SZ = 32  BY DEF Succ
<1>. CASE SZ = 64  BY DEF Succ
<1>. CASE SZ = 128 BY DEF Succ
<1>. QED BY SerialAssumption

LEMMA CountUp ==
  ASSUME NEW c \in Nat, c < SZ
  PROVE  Inc(c) = c + 1
BY SizeType DEF Inc

LEMMA CountDown ==
  ASSUME NEW c \in Nat, 0 < c, c <= SZ
  PROVE  Dec(c) = c - 1
BY SizeType DEF Dec

(* The n-th place after t of a ring: inside it, a different one for each   *)
(* n, and one step of t or of n is one step round the ring.                *)
LEMMA RingPlace ==
  ASSUME NEW t \in 0 .. SZ - 1, NEW n \in 0 .. SZ - 1
  PROVE  /\ Idx(t, n) \in 0 .. SZ - 1
         /\ Idx(t, 0) = t
         /\ Succ(Idx(t, n)) = Idx(t, n + 1)
         /\ Idx(Succ(t), n) = Idx(t, n + 1)
<1>1. Idx(t, n) \in 0 .. SZ - 1
  BY SizeType DEF Idx
<1>2. Succ(Idx(t, n)) = IF Idx(t, n) + 1 = SZ THEN 0 ELSE Idx(t, n) + 1
  BY <1>1, RingStep
<1>3. Succ(t) = IF t + 1 = SZ THEN 0 ELSE t + 1
  BY RingStep
<1>. QED BY <1>1, <1>2, <1>3, SizeType DEF Idx

LEMMA RingPlaceDiffers ==
  ASSUME NEW t \in 0 .. SZ - 1, NEW m \in 0 .. SZ - 1, NEW n \in 0 .. SZ - 1, m # n
  PROVE  Idx(t, m) # Idx(t, n)
BY SizeType DEF Idx

-----------------------------------------------------------------------------
(* The invariant holds before epic_serial_init.                            *)
LEMMA InitInv == ASSUME Regime, Init PROVE IInv
<1>1. TypeOK
  BY SizeType DEF Regime, Init, TypeOK, Pcs
<1>2. CtlInv
  BY <1>1, SizeType DEF Regime, Init, CtlInv, InitPcs, DispatchPcs, FlushPcs, StorePcs
<1>3. TxInv
  BY <1>1, SizeType
     DEF Init, TxInv, TxQueue, TxWire, Idx, One, Taken, TxFirst, TxStored, TxNext, OnLine, TxAhead
<1>. QED BY <1>1, <1>2, <1>3 DEF IInv

-----------------------------------------------------------------------------
(* What the invariant says of the ring as a step finds it.                 *)
LEMMA TypeFacts ==
  ASSUME TypeOK
  PROVE  /\ todo \in 0 .. MaxLen /\ todo \in Nat /\ byte \in Nat
         /\ txTail \in 0 .. SZ - 1 /\ txHead \in 0 .. SZ - 1
         /\ rxTail \in 0 .. SZ - 1 /\ rxHead \in 0 .. SZ - 1
         /\ txCount \in Nat /\ txCount <= SZ /\ rxCount \in Nat /\ rxCount <= SZ
         /\ txIn \in Nat /\ wire \in Nat
         /\ txBuf \in [0 .. SZ - 1 -> Nat] /\ txBuf[txTail] \in Nat
         /\ rxBuf \in [0 .. SZ - 1 -> Nat] /\ rxBuf[rxTail] \in Nat
BY SizeType DEF TypeOK

LEMMA Fifo ==
  ASSUME NEW q \in Seq(Nat), q # << >>
  PROVE  Head(q) \in Nat /\ Tail(q) \in Seq(Nat) /\ Len(Tail(q)) = Len(q) - 1
BY HeadTailProperties

-----------------------------------------------------------------------------
(* Every step of the library and of the program keeps the types and the    *)
(* control invariant.                                                      *)
LEMMA MainType ==
  ASSUME Regime, IInv, MainLine \/ Program, lag' \in 0 .. Latency
  PROVE  TypeOK'
<1>. USE SizeType DEF IInv, TypeOK, Pcs, At, Locals, NoTx, NoRx, enables,
       txLine, txRing, txHist, rxLine, rxRing, rxHist, Regime
<1>1. CASE InitUsart       BY <1>1 DEF InitUsart
<1>2. CASE InitTxOff       BY <1>2 DEF InitTxOff
<1>3. CASE InitTx          BY <1>3 DEF InitTx
<1>4. CASE InitRxCount
  <2>1. rxDropped + rxCount \in Nat  OBVIOUS
  <2>. QED BY <1>4, <2>1 DEF InitRxCount
<1>5. CASE InitRxTail      BY <1>5 DEF InitRxTail
<1>6. CASE InitRxHead      BY <1>6 DEF InitRxHead
<1>7. CASE WriteTest       BY <1>7 DEF WriteTest
<1>8. CASE WriteStore
  <2>1. txIn + 1 \in Nat  OBVIOUS
  <2>2. [txBuf EXCEPT ![txHead] = txIn + 1] \in [0 .. SZ - 1 -> Nat]  BY <2>1
  <2>. QED BY <1>8, <2>1, <2>2 DEF WriteStore
<1>9. CASE WriteHead       BY <1>9, RingStep DEF WriteHead
<1>10. CASE WriteCount
  <2>1. txCount < SZ  BY <1>10 DEF WriteCount, CtlInv, StorePcs
  <2>2. txCount' = txCount + 1  BY <1>10, <2>1, CountUp DEF WriteCount
  <2>. QED BY <1>10, <2>1, <2>2 DEF WriteCount
<1>11. CASE WriteKick
  <2>1. todo > 0  BY <1>11 DEF WriteKick, CtlInv
  <2>. QED BY <1>11, <2>1 DEF WriteKick
<1>12. CASE DispatchPir    BY <1>12 DEF DispatchPir, TXIF, RCIF
<1>13. CASE DispatchRx
  <2>1. CASE rcSnap /\ RCIF
    <3>1. rcreg # << >>  BY <2>1 DEF RCIF
    <3>2. Head(rcreg) \in Nat /\ Tail(rcreg) \in Seq(Nat) /\ Len(Tail(rcreg)) = Len(rcreg) - 1
      BY <3>1, Fifo
    <3>3. byte' = Head(rcreg) /\ rcreg' = Tail(rcreg) /\ pc' = "dRxTest"
      BY <1>13, <2>1 DEF DispatchRx
    <3>4. Len(rcreg) \in Nat /\ Len(rcreg) <= 2  OBVIOUS
    <3>5. byte' \in Nat /\ rcreg' \in Seq(Nat) /\ Len(rcreg') <= 2
      BY <3>2, <3>3, <3>4
    <3>. QED BY <1>13, <3>3, <3>5 DEF DispatchRx
  <2>2. CASE ~(rcSnap /\ RCIF)  BY <1>13, <2>2 DEF DispatchRx
  <2>. QED BY <2>1, <2>2
<1>14. CASE DispatchRxTest
  <2>1. [rxBuf EXCEPT ![rxHead] = byte] \in [0 .. SZ - 1 -> Nat]  OBVIOUS
  <2>2. rxDropped + 1 \in Nat  OBVIOUS
  <2>. QED BY <1>14, <2>1, <2>2 DEF DispatchRxTest
<1>15. CASE DispatchRxHead BY <1>15, RingStep DEF DispatchRxHead
<1>16. CASE DispatchRxCount
  <2>1. rxCount < SZ  BY <1>16 DEF DispatchRxCount, CtlInv
  <2>2. rxCount' = rxCount + 1  BY <1>16, <2>1, CountUp DEF DispatchRxCount
  <2>. QED BY <1>16, <2>1, <2>2 DEF DispatchRxCount
<1>17. CASE DispatchTx     BY <1>17 DEF DispatchTx
<1>18. CASE DispatchTest   BY <1>18 DEF DispatchTest
<1>19. CASE DispatchLoad   BY <1>19 DEF DispatchLoad
<1>20. CASE DispatchTail   BY <1>20, RingStep DEF DispatchTail
<1>21. CASE DispatchCount
  <2>1. txCount > 0  BY <1>21 DEF DispatchCount, CtlInv
  <2>2. txCount' = txCount - 1  BY <1>21, <2>1, CountDown DEF DispatchCount
  <2>. QED BY <1>21, <2>1, <2>2 DEF DispatchCount
<1>22. CASE DispatchSend   BY <1>22 DEF DispatchSend, WriteTXREG
<1>23. CASE FlushRing      BY <1>23 DEF FlushRing
<1>24. CASE FlushShift     BY <1>24 DEF FlushShift
<1>25. CASE FlushReturn    BY <1>25 DEF FlushReturn
<1>26. CASE ReadTest       BY <1>26 DEF ReadTest
<1>27. CASE ReadLoad
  <2>1. todo > 0  BY <1>27 DEF ReadLoad, CtlInv
  <2>2. rxBuf[rxTail] \in Nat /\ rxOut + 1 \in Nat /\ todo - 1 \in 0 .. MaxLen  BY <2>1
  <2>. QED BY <1>27, <2>2 DEF ReadLoad
<1>28. CASE ReadTail       BY <1>28, RingStep DEF ReadTail
<1>29. CASE ReadCount
  <2>1. rxCount > 0  BY <1>29 DEF ReadCount, CtlInv
  <2>2. rxCount' = rxCount - 1  BY <1>29, <2>1, CountDown DEF ReadCount
  <2>. QED BY <1>29, <2>1, <2>2 DEF ReadCount
<1>30. CASE EnableGie      BY <1>30 DEF EnableGie
<1>31. CASE AppFlush       BY <1>31 DEF AppFlush
<1>32. CASE \E n \in 1 .. MaxLen : AppWrite(n)  BY <1>32 DEF AppWrite
<1>33. CASE \E n \in 1 .. MaxLen : AppRead(n)   BY <1>33 DEF AppRead
<1>. QED
  BY <1>1, <1>2, <1>3, <1>4, <1>5, <1>6, <1>7, <1>8, <1>9, <1>10, <1>11, <1>12,
     <1>13, <1>14, <1>15, <1>16, <1>17, <1>18, <1>19, <1>20, <1>21, <1>22, <1>23,
     <1>24, <1>25, <1>26, <1>27, <1>28, <1>29, <1>30, <1>31, <1>32, <1>33
  DEF MainLine, Program, Initialise, Write, Dispatch, Flush, Read, App

LEMMA MainCtl ==
  ASSUME Regime, IInv, TypeOK', MainLine \/ Program
  PROVE  CtlInv'
<1>. USE SizeType, TypeFacts DEF IInv, CtlInv, InitPcs, DispatchPcs, FlushPcs, StorePcs, At,
       Locals, NoTx, NoRx, enables, txLine, txRing, txHist, rxLine, rxRing, rxHist, Regime
<1>0. /\ pc \in Pcs /\ ret \in {"idle", "wTest", "fRing", "fShift"}
      /\ todo \in Nat /\ txCount \in Nat
  BY DEF TypeOK
<1>1. CASE InitUsart        BY <1>1 DEF InitUsart
<1>2. CASE InitTxOff        BY <1>2 DEF InitTxOff
<1>3. CASE InitTx           BY <1>3 DEF InitTx
<1>4. CASE InitRxCount      BY <1>4 DEF InitRxCount
<1>5. CASE InitRxTail       BY <1>5 DEF InitRxTail
<1>6. CASE InitRxHead       BY <1>6 DEF InitRxHead
<1>7. CASE WriteTest
  <2>1. gie => ~(todo > 0 /\ txCount >= SZ)  BY <1>7 DEF WriteTest
  <2>. QED BY <1>7, <2>1 DEF WriteTest
<1>8. CASE WriteStore       BY <1>8 DEF WriteStore
<1>9. CASE WriteHead        BY <1>9 DEF WriteHead
<1>10. CASE WriteCount
  <2>1. txCount' = txCount + 1  BY <1>10, CountUp DEF WriteCount
  <2>2. txCount + todo <= SZ => (txCount + 1) + todo <= SZ + 1  BY <1>0
  <2>. QED BY <1>10, <2>1, <2>2 DEF WriteCount
<1>11. CASE WriteKick
  <2>1. txCount + todo <= SZ + 1 => txCount + (todo - 1) <= SZ  BY <1>0
  <2>. QED BY <1>11, <2>1 DEF WriteKick
<1>12. CASE DispatchPir     BY <1>12 DEF DispatchPir
<1>13. CASE DispatchRx      BY <1>13 DEF DispatchRx
<1>14. CASE DispatchRxTest  BY <1>14 DEF DispatchRxTest
<1>15. CASE DispatchRxHead  BY <1>15 DEF DispatchRxHead
<1>16. CASE DispatchRxCount BY <1>16 DEF DispatchRxCount
<1>17. CASE DispatchTx      BY <1>17, <1>0 DEF DispatchTx, TXIF
<1>18. CASE DispatchTest    BY <1>18, <1>0 DEF DispatchTest, TXIF
<1>19. CASE DispatchLoad    BY <1>19 DEF DispatchLoad
<1>20. CASE DispatchTail    BY <1>20 DEF DispatchTail
<1>21. CASE DispatchCount   BY <1>21 DEF DispatchCount
<1>22. CASE DispatchSend
  <2>1. pc' \in {"idle", "wTest", "fRing", "fShift"} /\ ~gie'  BY <1>22, <1>0 DEF DispatchSend
  <2>. QED BY <1>22, <2>1 DEF DispatchSend, WriteTXREG
<1>23. CASE FlushRing       BY <1>23 DEF FlushRing
<1>24. CASE FlushShift      BY <1>24 DEF FlushShift
<1>25. CASE FlushReturn     BY <1>25 DEF FlushReturn
<1>26. CASE ReadTest        BY <1>26 DEF ReadTest
<1>27. CASE ReadLoad        BY <1>27 DEF ReadLoad
<1>28. CASE ReadTail        BY <1>28 DEF ReadTail
<1>29. CASE ReadCount       BY <1>29 DEF ReadCount
<1>30. CASE EnableGie       BY <1>30 DEF EnableGie
<1>31. CASE AppFlush        BY <1>31 DEF AppFlush
<1>32. CASE \E n \in 1 .. MaxLen : AppWrite(n)  BY <1>32 DEF AppWrite
<1>33. CASE \E n \in 1 .. MaxLen : AppRead(n)   BY <1>33 DEF AppRead
<1>. QED
  BY <1>1, <1>2, <1>3, <1>4, <1>5, <1>6, <1>7, <1>8, <1>9, <1>10, <1>11, <1>12,
     <1>13, <1>14, <1>15, <1>16, <1>17, <1>18, <1>19, <1>20, <1>21, <1>22, <1>23,
     <1>24, <1>25, <1>26, <1>27, <1>28, <1>29, <1>30, <1>31, <1>32, <1>33
  DEF MainLine, Program, Initialise, Write, Dispatch, Flush, Read, App

-----------------------------------------------------------------------------
(* The transmit invariant.  It holds again after a step that leaves the    *)
(* ring, the line and the window between two accesses as they were.        *)
TxView == <<txBuf, txHead, txLine, txHist, IF Taken THEN byte ELSE 0, Taken, TxFirst, TxStored, TxNext>>

LEMMA TxSame == ASSUME TxInv, UNCHANGED TxView PROVE TxInv'
<1>1. UNCHANGED <<txBuf, txHead, hold, tsr, txIn, wire, wireLast>>
  BY DEF TxView, txLine, txHist
<1>2. UNCHANGED <<IF Taken THEN byte ELSE 0, Taken, TxFirst, TxStored, TxNext>>
  BY DEF TxView
<1>3. UNCHANGED <<OnLine, TxAhead>>
  BY <1>1, <1>2 DEF OnLine, TxAhead
<1>4. \A n \in 0 .. SZ - 1 : UNCHANGED Idx(TxFirst, n)
  BY <1>2 DEF Idx
<1>. QED BY <1>1, <1>2, <1>3, <1>4 DEF TxInv, TxQueue, TxWire, Idx

(* What TxInv says at a step that stores or takes a byte.                  *)
LEMMA TxFacts ==
  ASSUME Regime, IInv
  PROVE  /\ OnLine \in Nat /\ TxAhead \in Nat
         /\ TxFirst \in 0 .. SZ - 1 /\ TxStored \in 0 .. SZ
<1>1. OnLine \in Nat /\ TxAhead \in Nat
  BY DEF IInv, TypeOK, OnLine, TxAhead, One
<1>2. TxFirst \in 0 .. SZ - 1
  BY RingStep DEF IInv, TypeOK, TxFirst
<1>3. TxStored \in 0 .. SZ
  BY SizeType DEF IInv, TypeOK, CtlInv, StorePcs, TxStored
<1>. QED BY <1>1, <1>2, <1>3

LEMMA StoreTx == ASSUME Regime, IInv, TypeOK', WriteStore PROVE TxInv'
<1>1. /\ pc = "wStore" /\ pc' = "wHead"
      /\ txBuf' = [txBuf EXCEPT ![txHead] = txIn + 1] /\ txIn' = txIn + 1
      /\ UNCHANGED <<byte, hold, tsr, txHead, txTail, txCount, wire, wireLast>>
  BY DEF WriteStore, At, Locals, txLine
<1>2. /\ txCount \in Nat /\ txCount < SZ /\ txTail \in 0 .. SZ - 1
      /\ txHead \in 0 .. SZ - 1 /\ txBuf \in [0 .. SZ - 1 -> Nat] /\ txIn \in Nat
  BY <1>1, TypeFacts DEF IInv, CtlInv, StorePcs
<1>3. /\ TxFirst = txTail /\ TxStored = txCount /\ TxNext = txCount /\ ~Taken
      /\ TxFirst' = txTail /\ TxStored' = txCount + 1 /\ TxNext' = txCount /\ ~Taken'
  BY <1>1, <1>2 DEF TxFirst, TxStored, TxNext, Taken
<1>4. OnLine' = OnLine /\ TxAhead = OnLine /\ TxAhead' = OnLine /\ OnLine \in Nat
  BY <1>1, <1>3, TxFacts DEF OnLine, TxAhead, One
<1>5. txIn = OnLine + txCount /\ txHead = Idx(txTail, txCount)
  BY <1>3, <1>4 DEF IInv, TxInv, TxQueue
<1>6. ASSUME NEW n \in 0 .. SZ - 1, n < txCount + 1
      PROVE  txBuf'[Idx(txTail, n)] = OnLine + n + 1
  <2>1. Idx(txTail, n) \in 0 .. SZ - 1
    BY <1>2, RingPlace
  <2>2. CASE n = txCount
    BY <2>1, <2>2, <1>1, <1>2, <1>4, <1>5
  <2>3. CASE n # txCount
    <3>1. n < txCount /\ txCount \in 0 .. SZ - 1  BY <2>3, <1>2, <1>6, SizeType
    <3>2. Idx(txTail, n) # txHead  BY <3>1, <2>3, <1>2, <1>5, RingPlaceDiffers
    <3>3. txBuf[Idx(txTail, n)] = OnLine + n + 1  BY <3>1, <1>3, <1>4 DEF IInv, TxInv, TxQueue
    <3>. QED BY <3>2, <3>3, <2>1, <1>1, <1>2
  <2>. QED BY <2>2, <2>3
<1>7. \A n \in 0 .. SZ - 1 : Idx(TxFirst, n)' = Idx(txTail, n)
  BY <1>3 DEF Idx
<1>. QED BY <1>1, <1>2, <1>3, <1>4, <1>5, <1>6, <1>7 DEF IInv, TxInv, TxQueue, TxWire, Idx

(* Taking the oldest byte moves the window by one place.                   *)
LEMMA TakeQueue ==
  ASSUME Regime, IInv, TxNext \in Nat, TxNext > 0, TxNext <= TxStored,
         TxFirst' = Succ(TxFirst), TxStored' = TxStored - 1, TxNext' = TxNext - 1,
         TxAhead' = TxAhead + 1, UNCHANGED <<txBuf, txHead, txIn>>
  PROVE  TxQueue' /\ txBuf[TxFirst] = TxAhead + 1
<1>1. /\ TxFirst \in 0 .. SZ - 1 /\ TxStored \in 0 .. SZ /\ TxAhead \in Nat
      /\ 0 \in 0 .. SZ - 1
  BY TxFacts, SizeType
<1>2. txBuf[TxFirst] = TxAhead + 1
  <2>1. Idx(TxFirst, 0) = TxFirst  BY <1>1, RingPlace
  <2>2. txBuf[Idx(TxFirst, 0)] = TxAhead + 0 + 1  BY <1>1 DEF IInv, TxInv, TxQueue
  <2>. QED BY <2>1, <2>2, <1>1
<1>3. txHead' = Idx(TxFirst', TxNext')
  <2>1. TxNext - 1 \in 0 .. SZ - 1 /\ (TxNext - 1) + 1 = TxNext  BY <1>1, SizeType
  <2>2. Idx(Succ(TxFirst), TxNext - 1) = Idx(TxFirst, TxNext)  BY <2>1, <1>1, RingPlace
  <2>. QED BY <2>2 DEF IInv, TxInv, TxQueue
<1>4. ASSUME NEW n \in 0 .. SZ - 1, n < TxStored'
      PROVE  txBuf'[Idx(TxFirst', n)] = TxAhead' + n + 1
  <2>1. n + 1 \in 0 .. SZ - 1 /\ n + 1 < TxStored  BY <1>1, <1>4, SizeType
  <2>2. Idx(Succ(TxFirst), n) = Idx(TxFirst, n + 1)  BY <1>1, RingPlace
  <2>3. txBuf[Idx(TxFirst, n + 1)] = TxAhead + (n + 1) + 1
    BY <2>1 DEF IInv, TxInv, TxQueue
  <2>. QED BY <2>2, <2>3, <1>1
<1>5. txIn' = TxAhead' + TxStored'
  BY <1>1 DEF IInv, TxInv, TxQueue
<1>. QED BY <1>2, <1>3, <1>4, <1>5 DEF TxQueue, Idx

(* The dispatch of the main line takes the byte into its local.            *)
LEMMA LoadTx == ASSUME Regime, IInv, DispatchLoad PROVE TxInv'
<1>1. /\ pc = "dLoad" /\ pc' = "dTail" /\ byte' = txBuf[txTail] /\ hold = 0
      /\ UNCHANGED <<txRing, txLine, txHist>>
  BY DEF DispatchLoad, At, NoTx, IInv, CtlInv
<1>2. txCount \in Nat /\ txCount > 0 /\ txCount <= SZ
  BY <1>1, TypeFacts DEF IInv, CtlInv
<1>3. UNCHANGED <<txBuf, txHead, txTail, txCount, hold, tsr, txIn, wire, wireLast>>
  BY <1>1 DEF txRing, txLine, txHist
<1>4. /\ TxFirst = txTail /\ TxStored = txCount /\ TxNext = txCount /\ ~Taken
      /\ TxFirst' = Succ(txTail) /\ TxStored' = txCount - 1 /\ TxNext' = txCount - 1
      /\ Taken'
  BY <1>1, <1>3 DEF TxFirst, TxStored, TxNext, Taken
<1>5. OnLine' = OnLine /\ TxAhead = OnLine /\ TxAhead' = OnLine + 1 /\ OnLine \in Nat
  BY <1>3, <1>4, TxFacts DEF OnLine, TxAhead, One
<1>6. TxQueue' /\ txBuf[txTail] = OnLine + 1
  BY <1>2, <1>3, <1>4, <1>5, TakeQueue
<1>. QED BY <1>1, <1>3, <1>5, <1>6 DEF IInv, TxInv, TxWire

(* ... and sends it, to the shift register or to TXREG.                    *)
LEMMA SendTx == ASSUME Regime, IInv, DispatchSend PROVE TxInv'
<1>1. /\ pc = "dSend" /\ pc' \in {"idle", "wTest", "fRing", "fShift"} /\ hold = 0
      /\ WriteTXREG(byte) /\ UNCHANGED <<byte, txRing, txHist>>
  BY DEF DispatchSend, Locals, IInv, CtlInv, TypeOK
<1>2. /\ UNCHANGED <<byte, txBuf, txHead, txTail, txCount, txIn, wire, wireLast>>
      /\ wire \in Nat /\ byte = OnLine + 1 /\ wireLast = wire
      /\ tsr # 0 => tsr = wire + 1
  BY <1>1 DEF txRing, txHist, Taken, IInv, TxInv, TxWire, TypeOK
<1>3. /\ Taken /\ ~Taken' /\ TxFirst' = TxFirst /\ TxStored' = TxStored
      /\ TxNext' = TxNext
  BY <1>1, <1>2 DEF Taken, TxFirst, TxStored, TxNext
<1>4. /\ OnLine' = OnLine + 1
      /\ tsr' # 0 => tsr' = wire + 1
      /\ hold' # 0 => tsr' # 0 /\ hold' = wire + 2
  <2>1. CASE tsr = 0
    <3>1. tsr' = byte /\ hold' = 0  BY <1>1, <2>1 DEF WriteTXREG
    <3>2. OnLine = wire /\ byte = wire + 1  BY <1>1, <1>2, <2>1 DEF OnLine, One
    <3>. QED BY <3>1, <3>2, <1>2 DEF OnLine, One
  <2>2. CASE tsr # 0
    <3>1. hold' = byte /\ tsr' = tsr  BY <1>1, <2>2 DEF WriteTXREG
    <3>2. OnLine = wire + 1 /\ byte = wire + 2  BY <1>1, <1>2, <2>2 DEF OnLine, One
    <3>. QED BY <3>1, <3>2, <1>2, <2>2 DEF OnLine, One
  <2>. QED BY <2>1, <2>2
<1>5. TxAhead' = TxAhead
  BY <1>3, <1>4, TxFacts DEF TxAhead, One
<1>6. \A n \in 0 .. SZ - 1 : Idx(TxFirst, n)' = Idx(TxFirst, n)
  BY <1>3 DEF Idx
<1>7. TxQueue'
  BY <1>2, <1>3, <1>5, <1>6 DEF IInv, TxInv, TxQueue, Idx
<1>. QED BY <1>2, <1>3, <1>4, <1>7 DEF TxInv, TxWire

(* epic_serial_write: the head index catches up with the stored byte.      *)
LEMMA HeadTx == ASSUME Regime, IInv, WriteHead PROVE TxInv'
<1>1. /\ pc = "wHead" /\ pc' = "wCount" /\ txHead' = Succ(txHead)
      /\ UNCHANGED <<byte, hold, tsr, txBuf, txTail, txCount, txIn, wire, wireLast>>
  BY DEF WriteHead, At, Locals, txLine, txHist
<1>2. txCount \in 0 .. SZ - 1 /\ txTail \in 0 .. SZ - 1
  BY <1>1, TypeFacts, SizeType DEF IInv, CtlInv, StorePcs
<1>3. /\ TxFirst = txTail /\ TxStored = txCount + 1 /\ TxNext = txCount /\ ~Taken
      /\ TxFirst' = txTail /\ TxStored' = txCount + 1 /\ TxNext' = txCount + 1
      /\ ~Taken'
  BY <1>1, <1>2 DEF TxFirst, TxStored, TxNext, Taken
<1>4. OnLine' = OnLine /\ TxAhead' = TxAhead
  BY <1>1, <1>3 DEF OnLine, TxAhead, One
<1>5. txHead' = Idx(txTail, txCount + 1)
  BY <1>1, <1>2, <1>3, RingPlace DEF IInv, TxInv, TxQueue
<1>6. \A n \in 0 .. SZ - 1 : Idx(TxFirst, n)' = Idx(txTail, n)
  BY <1>3 DEF Idx
<1>. QED BY <1>1, <1>3, <1>4, <1>5, <1>6 DEF IInv, TxInv, TxQueue, TxWire, Idx

LEMMA ClearTx == ASSUME Regime, IInv, InitTx PROVE TxInv'
<1>1. /\ pc = "initTx" /\ pc' = "initRxCount"
      /\ txCount' = 0 /\ txTail' = 0 /\ txHead' = 0
      /\ UNCHANGED <<byte, hold, tsr, txBuf, txIn, wire, wireLast>>
      /\ txCount = 0 /\ txTail = 0 /\ txHead = 0
  BY DEF InitTx, At, Locals, txLine, txHist, IInv, CtlInv, InitPcs
<1>2. UNCHANGED TxView
  BY <1>1 DEF TxView, txLine, txHist, Taken, TxFirst, TxStored, TxNext
<1>. QED BY <1>2, TxSame DEF IInv

(* Every other step of the main line leaves the window as it was.          *)
LEMMA MainTx ==
  ASSUME Regime, IInv, TypeOK', MainLine \/ Program
  PROVE  TxInv'
<1>0. /\ TxInv /\ ret \in {"idle", "wTest", "fRing", "fShift"}
      /\ txCount \in Nat /\ txCount <= SZ
      /\ pc = "wCount" => txCount < SZ
      /\ pc \in {"dTail", "dCount"} => txCount > 0
  <2>1. TypeOK /\ CtlInv /\ TxInv  BY DEF IInv
  <2>2. txCount \in Nat /\ txCount <= SZ  BY <2>1, TypeFacts
  <2>3. pc = "wCount" => txCount < SZ  BY <2>1 DEF CtlInv, StorePcs
  <2>4. pc \in {"dTail", "dCount"} => txCount > 0  BY <2>1 DEF CtlInv
  <2>5. ret \in {"idle", "wTest", "fRing", "fShift"}  BY <2>1 DEF TypeOK
  <2>. QED BY <2>1, <2>2, <2>3, <2>4, <2>5
<1>. USE DEF At, Locals, NoTx, NoRx, enables, txLine, txHist, txRing, rxLine, rxRing, rxHist,
       TxView, Taken, TxFirst, TxStored, TxNext
<1>1. CASE InitUsart        BY <1>1, <1>0, TxSame DEF InitUsart
<1>2. CASE InitTxOff        BY <1>2, <1>0, TxSame DEF InitTxOff
<1>3. CASE InitRxCount      BY <1>3, <1>0, TxSame DEF InitRxCount
<1>4. CASE InitRxTail       BY <1>4, <1>0, TxSame DEF InitRxTail
<1>5. CASE InitRxHead       BY <1>5, <1>0, TxSame DEF InitRxHead
<1>6. CASE WriteTest        BY <1>6, <1>0, TxSame DEF WriteTest
<1>7. CASE WriteCount       BY <1>7, <1>0, TxSame, CountUp DEF WriteCount
<1>8. CASE WriteKick        BY <1>8, <1>0, TxSame DEF WriteKick
<1>9. CASE DispatchPir      BY <1>9, <1>0, TxSame DEF DispatchPir
<1>10. CASE DispatchRx      BY <1>10, <1>0, TxSame DEF DispatchRx
<1>11. CASE DispatchRxTest  BY <1>11, <1>0, TxSame DEF DispatchRxTest
<1>12. CASE DispatchRxHead  BY <1>12, <1>0, TxSame DEF DispatchRxHead
<1>13. CASE DispatchRxCount BY <1>13, <1>0, TxSame DEF DispatchRxCount
<1>14. CASE DispatchTx      BY <1>14, <1>0, TxSame DEF DispatchTx
<1>15. CASE DispatchTest    BY <1>15, <1>0, TxSame DEF DispatchTest
<1>16. CASE DispatchTail    BY <1>16, <1>0, TxSame DEF DispatchTail
<1>17. CASE DispatchCount   BY <1>17, <1>0, TxSame, CountDown DEF DispatchCount
<1>18. CASE FlushRing       BY <1>18, <1>0, TxSame DEF FlushRing
<1>19. CASE FlushShift      BY <1>19, <1>0, TxSame DEF FlushShift
<1>20. CASE FlushReturn     BY <1>20, <1>0, TxSame DEF FlushReturn
<1>21. CASE ReadTest        BY <1>21, <1>0, TxSame DEF ReadTest
<1>22. CASE ReadLoad        BY <1>22, <1>0, TxSame DEF ReadLoad
<1>23. CASE ReadTail        BY <1>23, <1>0, TxSame DEF ReadTail
<1>24. CASE ReadCount       BY <1>24, <1>0, TxSame DEF ReadCount
<1>25. CASE EnableGie       BY <1>25, <1>0, TxSame DEF EnableGie
<1>26. CASE AppFlush        BY <1>26, <1>0, TxSame DEF AppFlush
<1>27. CASE InitTx          BY <1>27, ClearTx
<1>28. CASE WriteStore      BY <1>28, StoreTx
<1>29. CASE WriteHead       BY <1>29, HeadTx
<1>30. CASE DispatchLoad    BY <1>30, LoadTx
<1>31. CASE DispatchSend    BY <1>31, SendTx
<1>32. CASE \E n \in 1 .. MaxLen : AppWrite(n)  BY <1>32, <1>0, TxSame DEF AppWrite
<1>33. CASE \E n \in 1 .. MaxLen : AppRead(n)   BY <1>33, <1>0, TxSame DEF AppRead
<1>. QED
  BY <1>1, <1>2, <1>3, <1>4, <1>5, <1>6, <1>7, <1>8, <1>9, <1>10, <1>11, <1>12,
     <1>13, <1>14, <1>15, <1>16, <1>17, <1>18, <1>19, <1>20, <1>21, <1>22, <1>23,
     <1>24, <1>25, <1>26, <1>27, <1>28, <1>29, <1>30, <1>31, <1>32, <1>33
  DEF MainLine, Program, Initialise, Write, Dispatch, Flush, Read, App

-----------------------------------------------------------------------------
(* The service routine runs with GIE set, so never inside a window of the  *)
(* waiting code; it may run inside a write or a read.                      *)
LEMMA IsrRxStep ==
  ASSUME TypeOK, IsrRx
  PROVE  /\ rcreg' \in Seq(Nat) /\ Len(rcreg') <= 2
         /\ rxBuf' \in [0 .. SZ - 1 -> Nat] /\ rxHead' \in 0 .. SZ - 1
         /\ rxTail' = rxTail /\ rxCount' \in 0 .. SZ /\ rxCount <= rxCount'
         /\ rxDropped' \in Nat
<1>1. /\ rcreg \in Seq(Nat) /\ Len(rcreg) \in Nat /\ Len(rcreg) <= 2
      /\ rxBuf \in [0 .. SZ - 1 -> Nat] /\ rxHead \in 0 .. SZ - 1
      /\ rxCount \in Nat /\ rxCount <= SZ /\ rxCount \in 0 .. SZ /\ rxDropped \in Nat
  BY SizeType DEF TypeOK
<1>2. CASE ~RCIF
  <2>1. UNCHANGED <<rxBuf, rxHead, rxTail, rxCount, rcreg, rxDropped>>
    BY <1>2 DEF IsrRx, rxRing
  <2>. QED BY <1>1, <2>1
<1>3. CASE RCIF /\ OnRx(Head(rcreg)) /\ rcreg' = Tail(rcreg)
  <2>1. Head(rcreg) \in Nat /\ rcreg' \in Seq(Nat) /\ Len(rcreg') <= 2
    BY <1>1, <1>3, Fifo DEF RCIF
  <2>2. CASE rxCount < SZ
    <3>1. /\ rxBuf' = [rxBuf EXCEPT ![rxHead] = Head(rcreg)] /\ rxHead' = Succ(rxHead)
          /\ rxCount' = Inc(rxCount) /\ UNCHANGED <<rxTail, rxDropped>>
      BY <1>1, <1>3, <2>2, SizeType DEF OnRx
    <3>2. rxCount' = rxCount + 1  BY <3>1, <2>2, <1>1, CountUp
    <3>3. rxHead' \in 0 .. SZ - 1  BY <3>1, <1>1, RingStep
    <3>. QED BY <1>1, <2>1, <2>2, <3>1, <3>2, <3>3, SizeType
  <2>3. CASE rxCount >= SZ
    <3>1. rxDropped' = rxDropped + 1 /\ UNCHANGED <<rxBuf, rxHead, rxTail, rxCount>>
      BY <1>1, <1>3, <2>3, SizeType DEF OnRx, rxRing
    <3>. QED BY <1>1, <2>1, <3>1
  <2>. QED BY <2>2, <2>3, <1>1, SizeType
<1>. QED BY <1>2, <1>3 DEF IsrRx

LEMMA IsrTxStep ==
  ASSUME TypeOK, IsrTx
  PROVE  \/ /\ UNCHANGED <<txBuf, txHead, txTail, txCount, hold, tsr>>
            /\ txie' \in BOOLEAN
         \/ /\ txCount > 0 /\ hold = 0 /\ WriteTXREG(txBuf[txTail])
            /\ txTail' = Succ(txTail) /\ txCount' = txCount - 1
            /\ UNCHANGED <<txBuf, txHead>> /\ txie' \in BOOLEAN
<1>1. txie \in BOOLEAN /\ txCount \in Nat /\ txCount <= SZ
  BY SizeType DEF TypeOK
<1>2. CASE ~(TXIF /\ txie) /\ UNCHANGED <<txRing, txLine, txie>>
  BY <1>1, <1>2 DEF txRing, txLine
<1>3. CASE hold = 0 /\ OnTx /\ txCount = 0
  <2>1. UNCHANGED <<txRing, txLine>> /\ txie' = FALSE
    BY <1>3 DEF OnTx
  <2>. QED BY <2>1 DEF txRing, txLine
<1>4. CASE hold = 0 /\ OnTx /\ txCount > 0
  <2>1. /\ WriteTXREG(txBuf[txTail]) /\ txTail' = Succ(txTail) /\ txCount' = Dec(txCount)
        /\ UNCHANGED <<txBuf, txHead, txie>>
    BY <1>4, <1>1 DEF OnTx
  <2>2. txCount' = txCount - 1  BY <2>1, <1>1, <1>4, CountDown
  <2>. QED BY <1>1, <1>4, <2>1, <2>2
<1>. QED BY <1>1, <1>2, <1>3, <1>4 DEF IsrTx, TXIF

LEMMA IsrInv == ASSUME Regime, IInv, Isr PROVE IInv'
<1>1. /\ IsrRx /\ IsrTx /\ gie /\ lag' = 0
      /\ UNCHANGED <<pc, ret, todo, byte, txSnap, rcSnap, gie, rcie, oerr, rxIn,
                     txIn, wire, wireLast, rxOut, rxLast>>
  BY DEF Isr, Pending, control, txHist
<1>2. TypeOK /\ CtlInv /\ TxInv
  BY DEF IInv
<1>3. /\ rcreg' \in Seq(Nat) /\ Len(rcreg') <= 2
      /\ rxBuf' \in [0 .. SZ - 1 -> Nat] /\ rxHead' \in 0 .. SZ - 1
      /\ rxTail' = rxTail /\ rxCount' \in 0 .. SZ /\ rxCount <= rxCount'
      /\ rxDropped' \in Nat
  BY <1>1, <1>2, IsrRxStep
<1>4. pc \in {"idle", "wTest", "wStore", "wHead", "wCount", "wKick",
              "rTest", "rLoad", "rTail", "rCount"}
  BY <1>1, <1>2 DEF TypeOK, CtlInv, Pcs, InitPcs, DispatchPcs, FlushPcs
<1>7. lag' \in 0 .. Latency
  BY <1>1, SizeType
<1>5. CASE UNCHANGED <<txBuf, txHead, txTail, txCount, hold, tsr>> /\ txie' \in BOOLEAN
  <2>1. TypeOK'
    BY <1>1, <1>2, <1>3, <1>5, <1>7 DEF TypeOK
  <2>2. CtlInv'
    BY <1>1, <1>2, <1>3, <1>4, <1>5, TypeFacts, SizeType
       DEF CtlInv, InitPcs, DispatchPcs, FlushPcs, StorePcs
  <2>3. UNCHANGED TxView
    BY <1>1, <1>5 DEF TxView, txLine, txHist, Taken, TxFirst, TxStored, TxNext
  <2>. QED BY <1>2, <2>1, <2>2, <2>3, TxSame DEF IInv
<1>6. CASE /\ txCount > 0 /\ hold = 0 /\ WriteTXREG(txBuf[txTail])
           /\ txTail' = Succ(txTail) /\ txCount' = txCount - 1
           /\ UNCHANGED <<txBuf, txHead>> /\ txie' \in BOOLEAN
  <2>1. /\ txCount \in Nat /\ txCount <= SZ /\ txTail \in 0 .. SZ - 1 /\ todo \in Nat
        /\ txBuf[txTail] \in Nat /\ txTail' \in 0 .. SZ - 1 /\ wire \in Nat
    BY <1>2, <1>6, TypeFacts, RingStep
  <2>2. TypeOK'
    <3>1. hold' \in Nat /\ tsr' \in Nat
      BY <1>2, <1>6, <2>1 DEF WriteTXREG, TypeOK
    <3>2. txCount' \in 0 .. SZ  BY <1>6, <2>1, SizeType
    <3>. QED BY <1>1, <1>2, <1>3, <1>6, <1>7, <2>1, <3>1, <3>2 DEF TypeOK
  <2>3. CtlInv'
    <3>1. /\ pc \in {"wTest"} \cup StorePcs => txCount + todo <= SZ
          /\ pc = "wKick" => txCount + todo <= SZ + 1
          /\ pc \in StorePcs => txCount < SZ
          /\ pc \in StorePcs \cup {"wKick"} => todo > 0
          /\ pc = "rLoad" => todo > 0
          /\ pc \in {"rLoad", "rTail", "rCount"} => rxCount > 0
      BY <1>1, <1>2 DEF CtlInv
    <3>2. /\ txCount + todo <= SZ => txCount' + todo' <= SZ
          /\ txCount + todo <= SZ + 1 => txCount' + todo' <= SZ + 1
          /\ txCount' < SZ
          /\ rxCount > 0 => rxCount' > 0
      <4>1. txCount' = txCount - 1 /\ todo' = todo  BY <1>1, <1>6
      <4>2. rxCount \in Nat /\ rxCount' \in Nat /\ rxCount <= rxCount'
        BY <1>2, <1>3, TypeFacts, SizeType
      <4>3. txCount \in Nat /\ todo \in Nat /\ SZ \in Nat /\ txCount <= SZ
        BY <2>1, SizeType
      <4>. QED BY <4>1, <4>2, <4>3
    <3>. QED BY <1>1, <1>4, <3>1, <3>2 DEF CtlInv, InitPcs, DispatchPcs, FlushPcs, StorePcs
  <2>4. /\ TxFirst = txTail /\ TxFirst' = Succ(TxFirst)
        /\ TxStored' = TxStored - 1 /\ TxNext' = TxNext - 1
        /\ TxNext \in Nat /\ TxNext > 0 /\ TxNext <= TxStored /\ ~Taken /\ ~Taken'
    BY <1>1, <1>4, <1>6, <2>1 DEF TxFirst, TxStored, TxNext, Taken
  <2>5. OnLine \in Nat /\ TxAhead = OnLine
    BY <2>4, TxFacts DEF TxAhead, One
  <2>6. txBuf[txTail] = OnLine + 1 /\ (tsr # 0 => tsr = wire + 1) /\ wireLast = wire
    <3>1. txBuf[Idx(TxFirst, 0)] = TxAhead + 0 + 1 /\ Idx(TxFirst, 0) = TxFirst
      BY <1>2, <2>1, <2>4, SizeType, RingPlace, TxFacts DEF TxInv, TxQueue
    <3>. QED BY <1>2, <2>4, <2>5, <3>1 DEF TxInv, TxWire
  <2>7. /\ OnLine' = OnLine + 1
        /\ tsr' # 0 => tsr' = wire + 1
        /\ hold' # 0 => tsr' # 0 /\ hold' = wire + 2
    <3>1. CASE tsr = 0
      <4>1. tsr' = txBuf[txTail] /\ hold' = 0  BY <1>6, <3>1 DEF WriteTXREG
      <4>2. OnLine = wire  BY <1>6, <2>1, <3>1 DEF OnLine, One
      <4>. QED BY <1>1, <2>1, <2>6, <4>1, <4>2 DEF OnLine, One
    <3>2. CASE tsr # 0
      <4>1. hold' = txBuf[txTail] /\ tsr' = tsr  BY <1>6, <3>2 DEF WriteTXREG
      <4>2. OnLine = wire + 1  BY <1>6, <2>1, <3>2 DEF OnLine, One
      <4>. QED BY <1>1, <2>1, <2>6, <3>2, <4>1, <4>2 DEF OnLine, One
    <3>. QED BY <3>1, <3>2
  <2>8. TxQueue'
    <3>1. TxAhead' = TxAhead + 1  BY <2>4, <2>5, <2>7 DEF TxAhead, One
    <3>. QED BY <1>1, <1>6, <2>4, <3>1, TakeQueue
  <2>9. TxWire'
    BY <1>1, <2>4, <2>6, <2>7 DEF TxWire
  <2>. QED BY <2>2, <2>3, <2>8, <2>9 DEF IInv, TxInv
<1>. QED BY <1>1, <1>2, <1>5, <1>6, IsrTxStep

(* The hardware: TXREG moves up when the shift register has sent its byte. *)
LEMMA ShiftInv == ASSUME Regime, IInv, ShiftOut PROVE IInv'
<1>1. /\ tsr # 0 /\ tsr' = hold /\ hold' = 0 /\ wire' = wire + 1 /\ wireLast' = tsr
      /\ UNCHANGED <<pc, ret, todo, byte, txSnap, rcSnap, lag, gie, txie, rcie>>
      /\ UNCHANGED <<rcreg, oerr, rxIn, txBuf, txHead, txTail, txCount>>
      /\ UNCHANGED <<rxBuf, rxHead, rxTail, rxCount, txIn, rxOut, rxLast, rxDropped>>
  BY DEF ShiftOut, control, enables, rxLine, txRing, rxRing, rxHist
<1>2. /\ TypeOK /\ CtlInv /\ TxInv /\ wire \in Nat
      /\ tsr = wire + 1 /\ (hold # 0 => hold = wire + 2)
  BY <1>1 DEF IInv, TypeOK, TxInv, TxWire
<1>3. TypeOK'
  BY <1>1, <1>2 DEF TypeOK
<1>4. CtlInv'
  BY <1>1, <1>2 DEF CtlInv, InitPcs, DispatchPcs, FlushPcs, StorePcs
<1>5. UNCHANGED <<Taken, TxFirst, TxStored, TxNext>>
  BY <1>1 DEF Taken, TxFirst, TxStored, TxNext
<1>6. OnLine' = OnLine
  BY <1>1, <1>2 DEF OnLine, One
<1>7. TxQueue'
  <2>1. TxAhead' = TxAhead  BY <1>5, <1>6 DEF TxAhead
  <2>2. \A n \in 0 .. SZ - 1 : Idx(TxFirst, n)' = Idx(TxFirst, n)  BY <1>5 DEF Idx
  <2>. QED BY <1>1, <1>2, <1>5, <2>1, <2>2 DEF TxInv, TxQueue, Idx
<1>8. TxWire'
  BY <1>1, <1>2, <1>5, <1>6 DEF TxInv, TxWire
<1>. QED BY <1>3, <1>4, <1>7, <1>8 DEF IInv, TxInv

LEMMA ArriveInv == ASSUME Regime, IInv, Arrive PROVE IInv'
<1>1. /\ UNCHANGED <<pc, ret, todo, byte, txSnap, rcSnap, lag, gie, txie, rcie>>
      /\ UNCHANGED <<hold, tsr, txBuf, txHead, txTail, txCount, wire, wireLast>>
      /\ UNCHANGED <<rxBuf, rxHead, rxTail, rxCount, txIn, rxOut, rxLast, rxDropped>>
  BY DEF Arrive, control, enables, txLine, txRing, rxRing, txHist, rxHist
<1>2. rcreg' \in Seq(Nat) /\ Len(rcreg') <= 2 /\ oerr' \in BOOLEAN /\ rxIn' \in Nat
  <2>1. rcreg \in Seq(Nat) /\ rxIn \in Nat /\ oerr \in BOOLEAN /\ Len(rcreg) <= 2
    BY DEF IInv, TypeOK
  <2>2. CASE Len(rcreg) < 2 /\ rcreg' = Append(rcreg, rxIn + 1) /\ rxIn' = rxIn + 1 /\ oerr' = oerr
    <3>1. rxIn + 1 \in Nat  BY <2>1
    <3>2. rcreg' \in Seq(Nat) /\ Len(rcreg') = Len(rcreg) + 1 /\ Len(rcreg) \in Nat
      BY <2>1, <2>2, <3>1
    <3>. QED BY <2>1, <2>2, <3>1, <3>2
  <2>3. CASE oerr' = TRUE /\ UNCHANGED <<rcreg, rxIn>>
    BY <2>1, <2>3
  <2>. QED BY <2>2, <2>3 DEF Arrive
<1>3. TypeOK'
  BY <1>1, <1>2 DEF IInv, TypeOK
<1>4. CtlInv'
  BY <1>1 DEF IInv, CtlInv, InitPcs, DispatchPcs, FlushPcs, StorePcs
<1>5. UNCHANGED TxView
  BY <1>1 DEF TxView, txLine, txHist, Taken, TxFirst, TxStored, TxNext
<1>. QED BY <1>3, <1>4, <1>5, TxSame DEF IInv

-----------------------------------------------------------------------------
LEMMA StepInv == ASSUME Regime, IInv, [Next]_vars PROVE IInv'
<1>1. CASE Preemptible(MainLine) \/ Preemptible(Program)
  <2>1. lag' \in 0 .. Latency /\ (MainLine \/ Program)
    BY <1>1, SizeType DEF Preemptible, IInv, TypeOK
  <2>2. TypeOK'  BY <2>1, MainType
  <2>. QED BY <2>1, <2>2, MainCtl, MainTx DEF IInv
<1>2. CASE Isr       BY <1>2, IsrInv
<1>3. CASE ShiftOut  BY <1>3, ShiftInv
<1>4. CASE Arrive    BY <1>4, ArriveInv
<1>5. CASE UNCHANGED vars
  <2>1. /\ UNCHANGED <<pc, ret, todo, byte, txSnap, rcSnap, lag, gie, txie, rcie>>
        /\ UNCHANGED <<rcreg, oerr, rxIn, txBuf, txHead, txTail, txCount, hold, tsr>>
        /\ UNCHANGED <<rxBuf, rxHead, rxTail, rxCount, rxOut, rxLast, rxDropped>>
        /\ UNCHANGED <<txIn, wire, wireLast>>
    BY <1>5 DEF vars, control, enables, txLine, rxLine, txRing, rxRing, txHist, rxHist
  <2>2. TypeOK'  BY <2>1 DEF IInv, TypeOK
  <2>3. CtlInv'  BY <2>1 DEF IInv, CtlInv, InitPcs, DispatchPcs, FlushPcs, StorePcs
  <2>4. UNCHANGED TxView
    BY <2>1 DEF TxView, txLine, txHist, Taken, TxFirst, TxStored, TxNext
  <2>. QED BY <2>2, <2>3, <2>4, TxSame DEF IInv
<1>. QED BY <1>1, <1>2, <1>3, <1>4, <1>5 DEF Next

(* In the regime of the tests the counts never leave 0..SZ and neither     *)
(* ring is indexed outside its bounds, for every ring size.                *)
THEOREM SerialTypes == ASSUME Regime PROVE Spec => []TypeOK
<1>1. Init => IInv
  BY InitInv
<1>2. IInv /\ [Next]_vars => IInv'
  BY StepInv
<1>3. IInv => TypeOK
  BY DEF IInv
<1>. QED BY <1>1, <1>2, <1>3, PTL DEF Spec

LEMMA SpecInv == ASSUME Regime PROVE Spec => []IInv
<1>1. Init => IInv
  BY InitInv
<1>2. IInv /\ [Next]_vars => IInv'
  BY StepInv
<1>. QED BY <1>1, <1>2, PTL DEF Spec

-----------------------------------------------------------------------------
(* The transmitter implements the byte channel.                            *)
LEMMA MainHist ==
  ASSUME MainLine \/ Program
  PROVE  \/ WriteStore
         \/ UNCHANGED <<txIn, wire, wireLast>>
<1>. USE DEF NoTx, txHist
<1>1. CASE InitUsart        BY <1>1 DEF InitUsart
<1>2. CASE InitTxOff        BY <1>2 DEF InitTxOff
<1>3. CASE InitTx           BY <1>3 DEF InitTx
<1>4. CASE InitRxCount      BY <1>4 DEF InitRxCount
<1>5. CASE InitRxTail       BY <1>5 DEF InitRxTail
<1>6. CASE InitRxHead       BY <1>6 DEF InitRxHead
<1>7. CASE WriteTest        BY <1>7 DEF WriteTest
<1>8. CASE WriteStore       BY <1>8 DEF WriteStore
<1>9. CASE WriteHead        BY <1>9 DEF WriteHead
<1>10. CASE WriteCount      BY <1>10 DEF WriteCount
<1>11. CASE WriteKick       BY <1>11 DEF WriteKick
<1>12. CASE DispatchPir     BY <1>12 DEF DispatchPir
<1>13. CASE DispatchRx      BY <1>13 DEF DispatchRx
<1>14. CASE DispatchRxTest  BY <1>14 DEF DispatchRxTest
<1>15. CASE DispatchRxHead  BY <1>15 DEF DispatchRxHead
<1>16. CASE DispatchRxCount BY <1>16 DEF DispatchRxCount
<1>17. CASE DispatchTx      BY <1>17 DEF DispatchTx
<1>18. CASE DispatchTest    BY <1>18 DEF DispatchTest
<1>19. CASE DispatchLoad    BY <1>19 DEF DispatchLoad
<1>20. CASE DispatchTail    BY <1>20 DEF DispatchTail
<1>21. CASE DispatchCount   BY <1>21 DEF DispatchCount
<1>22. CASE DispatchSend    BY <1>22 DEF DispatchSend
<1>23. CASE FlushRing       BY <1>23 DEF FlushRing
<1>24. CASE FlushShift      BY <1>24 DEF FlushShift
<1>25. CASE FlushReturn     BY <1>25 DEF FlushReturn
<1>26. CASE ReadTest        BY <1>26 DEF ReadTest
<1>27. CASE ReadLoad        BY <1>27 DEF ReadLoad
<1>28. CASE ReadTail        BY <1>28 DEF ReadTail
<1>29. CASE ReadCount       BY <1>29 DEF ReadCount
<1>30. CASE EnableGie       BY <1>30 DEF EnableGie
<1>31. CASE AppFlush        BY <1>31 DEF AppFlush
<1>32. CASE \E n \in 1 .. MaxLen : AppWrite(n)   BY <1>32 DEF AppWrite
<1>33. CASE \E n \in 1 .. MaxLen : AppRead(n)    BY <1>33 DEF AppRead
<1>. QED
  BY <1>1, <1>2, <1>3, <1>4, <1>5, <1>6, <1>7, <1>8, <1>9, <1>10, <1>11, <1>12,
     <1>13, <1>14, <1>15, <1>16, <1>17, <1>18, <1>19, <1>20, <1>21, <1>22, <1>23,
     <1>24, <1>25, <1>26, <1>27, <1>28, <1>29, <1>30, <1>31, <1>32, <1>33
  DEF MainLine, Program, Initialise, Write, Dispatch, Flush, Read, App

LEMMA ChannelStep ==
  ASSUME Regime, IInv, [Next]_vars
  PROVE  [Channel!Next]_(Channel!channel)
<1>. USE DEF Channel!Next, Channel!channel
<1>1. CASE WriteStore
  <2>1. txIn' = txIn + 1 /\ UNCHANGED <<wire, wireLast>> /\ pc = "wStore"
    BY <1>1 DEF WriteStore, At
  <2>2. wire \in Nat /\ txCount \in Nat /\ txCount < SZ /\ TxStored = txCount
    BY <2>1, TypeFacts DEF IInv, CtlInv, StorePcs, TxStored
  <2>3. TxAhead <= wire + 2
    BY <2>1, <2>2 DEF TxAhead, OnLine, One, Taken
  <2>4. txIn = TxAhead + TxStored /\ TxAhead \in Nat
    BY TxFacts DEF IInv, TxInv, TxQueue
  <2>5. txIn < wire + (SZ + 2)
    BY <2>2, <2>3, <2>4, SizeType
  <2>. QED BY <2>1, <2>5 DEF Channel!Accept
<1>2. CASE ShiftOut
  <2>1. /\ tsr # 0 /\ wire' = wire + 1 /\ wireLast' = tsr /\ txIn' = txIn
        /\ tsr = wire + 1 /\ wire \in Nat
    BY <1>2 DEF ShiftOut, IInv, TypeOK, TxInv, TxWire
  <2>2. OnLine >= wire + 1 /\ TxAhead >= OnLine /\ OnLine \in Nat /\ TxAhead \in Nat
    BY <2>1, TxFacts DEF OnLine, TxAhead, One
  <2>3. txIn = TxAhead + TxStored /\ TxStored \in Nat
    BY TxFacts, SizeType DEF IInv, TxInv, TxQueue
  <2>4. wire < txIn
    BY <2>1, <2>2, <2>3
  <2>. QED BY <2>1, <2>4 DEF Channel!Deliver
<1>3. CASE UNCHANGED <<txIn, wire, wireLast>>
  BY <1>3
<1>4. CASE Preemptible(MainLine) \/ Preemptible(Program)
  BY <1>1, <1>3, <1>4, MainHist DEF Preemptible
<1>5. CASE Isr
  BY <1>3, <1>5 DEF Isr, txHist
<1>6. CASE Arrive
  BY <1>3, <1>6 DEF Arrive, txHist
<1>7. CASE UNCHANGED vars
  BY <1>3, <1>7 DEF vars, txHist
<1>. QED BY <1>2, <1>4, <1>5, <1>6, <1>7 DEF Next

(* TxFifo for every ring size: what epic_serial_write stores leaves on the *)
(* line complete, in order and once, and never more than the ring, TXREG   *)
(* and the shift register hold is on its way.                              *)
THEOREM SerialIsChannel == ASSUME Regime PROVE Spec => TxFifo
<1>1. Init => Channel!Init
  BY DEF Init, Channel!Init
<1>2. IInv /\ [Next]_vars => [Channel!Next]_(Channel!channel)
  BY ChannelStep
<1>. QED BY <1>1, <1>2, SpecInv, PTL DEF Spec, TxFifo, Channel!Spec

-----------------------------------------------------------------------------
(* epic_serial_flush.                                                      *)
LEMMA MainFlush ==
  ASSUME Regime, IInv, FlushInv, MainLine \/ Program
  PROVE  FlushInv'
<1>. USE DEF FlushInv, DispatchPcs, At, Locals, NoTx, txLine, txRing
<1>0. /\ ret \in {"idle", "wTest", "fRing", "fShift"}
      /\ pc \in {"dLoad", "dTail", "dCount"} => txCount > 0
  BY DEF IInv, TypeOK, CtlInv
<1>1. CASE InitUsart        BY <1>1, <1>0 DEF InitUsart
<1>2. CASE InitTxOff        BY <1>2, <1>0 DEF InitTxOff
<1>3. CASE InitTx           BY <1>3, <1>0 DEF InitTx
<1>4. CASE InitRxCount      BY <1>4, <1>0 DEF InitRxCount
<1>5. CASE InitRxTail       BY <1>5, <1>0 DEF InitRxTail
<1>6. CASE InitRxHead       BY <1>6, <1>0 DEF InitRxHead
<1>7. CASE WriteTest        BY <1>7, <1>0 DEF WriteTest
<1>8. CASE WriteStore       BY <1>8, <1>0 DEF WriteStore
<1>9. CASE WriteHead        BY <1>9, <1>0 DEF WriteHead
<1>10. CASE WriteCount      BY <1>10, <1>0 DEF WriteCount
<1>11. CASE WriteKick       BY <1>11, <1>0 DEF WriteKick
<1>12. CASE DispatchPir     BY <1>12, <1>0 DEF DispatchPir
<1>13. CASE DispatchRx      BY <1>13, <1>0 DEF DispatchRx
<1>14. CASE DispatchRxTest  BY <1>14, <1>0 DEF DispatchRxTest
<1>15. CASE DispatchRxHead  BY <1>15, <1>0 DEF DispatchRxHead
<1>16. CASE DispatchRxCount BY <1>16, <1>0 DEF DispatchRxCount
<1>17. CASE DispatchTx      BY <1>17, <1>0 DEF DispatchTx
<1>18. CASE DispatchTest    BY <1>18, <1>0 DEF DispatchTest
<1>19. CASE DispatchLoad    BY <1>19, <1>0 DEF DispatchLoad
<1>20. CASE DispatchTail    BY <1>20, <1>0 DEF DispatchTail
<1>21. CASE DispatchCount   BY <1>21, <1>0 DEF DispatchCount
<1>22. CASE DispatchSend    BY <1>22, <1>0 DEF DispatchSend
<1>23. CASE FlushRing       BY <1>23, <1>0 DEF FlushRing
<1>24. CASE FlushShift      BY <1>24, <1>0 DEF FlushShift
<1>25. CASE FlushReturn     BY <1>25, <1>0 DEF FlushReturn
<1>26. CASE ReadTest        BY <1>26, <1>0 DEF ReadTest
<1>27. CASE ReadLoad        BY <1>27, <1>0 DEF ReadLoad
<1>28. CASE ReadTail        BY <1>28, <1>0 DEF ReadTail
<1>29. CASE ReadCount       BY <1>29, <1>0 DEF ReadCount
<1>30. CASE EnableGie       BY <1>30, <1>0 DEF EnableGie
<1>31. CASE AppFlush        BY <1>31, <1>0 DEF AppFlush
<1>32. CASE \E n \in 1 .. MaxLen : AppWrite(n)   BY <1>32, <1>0 DEF AppWrite
<1>33. CASE \E n \in 1 .. MaxLen : AppRead(n)    BY <1>33, <1>0 DEF AppRead
<1>. QED
  BY <1>1, <1>2, <1>3, <1>4, <1>5, <1>6, <1>7, <1>8, <1>9, <1>10, <1>11, <1>12,
     <1>13, <1>14, <1>15, <1>16, <1>17, <1>18, <1>19, <1>20, <1>21, <1>22, <1>23,
     <1>24, <1>25, <1>26, <1>27, <1>28, <1>29, <1>30, <1>31, <1>32, <1>33
  DEF MainLine, Program, Initialise, Write, Dispatch, Flush, Read, App

LEMMA StepFlush ==
  ASSUME Regime, IInv, FlushInv, [Next]_vars
  PROVE  FlushInv'
<1>1. CASE Preemptible(MainLine) \/ Preemptible(Program)
  BY <1>1, MainFlush DEF Preemptible
<1>2. CASE Isr
  <2>1. pc \notin DispatchPcs \cup FlushPcs /\ pc' = pc
    BY <1>2 DEF Isr, Pending, control, IInv, CtlInv
  <2>. QED BY <2>1 DEF FlushInv, FlushPcs
<1>3. CASE ShiftOut
  <2>1. pc # "flushed" /\ UNCHANGED <<pc, ret, txCount>>
    BY <1>3 DEF ShiftOut, FlushInv, control, txRing
  <2>. QED BY <2>1 DEF FlushInv
<1>4. CASE Arrive \/ UNCHANGED vars
  <2>1. UNCHANGED <<pc, ret, txCount, tsr>>
    BY <1>4 DEF Arrive, vars, control, txRing, txLine
  <2>. QED BY <2>1 DEF FlushInv
<1>. QED BY <1>1, <1>2, <1>3, <1>4 DEF Next

(* FlushComplete for every ring size: when epic_serial_flush returns, the  *)
(* ring, TXREG and the shift register are empty and the line has seen all  *)
(* that was written.                                                       *)
THEOREM SerialFlush == ASSUME Regime PROVE Spec => []FlushComplete
<1>1. Init => FlushInv
  BY DEF Init, FlushInv, DispatchPcs
<1>2. IInv /\ FlushInv /\ [Next]_vars => FlushInv'
  BY StepFlush
<1>3. IInv /\ FlushInv => FlushComplete
  <2>1. ASSUME IInv, FlushInv, pc = "flushed" PROVE FlushComplete
    <3>1. txCount = 0 /\ tsr = 0 /\ hold = 0
      BY <2>1 DEF FlushInv, IInv, TxInv, TxWire
    <3>2. TxStored = 0 /\ TxAhead = wire /\ wire \in Nat
      BY <2>1, <3>1 DEF TxStored, TxAhead, OnLine, Taken, One, IInv, TypeOK
    <3>3. wire = txIn
      BY <2>1, <3>2 DEF IInv, TxInv, TxQueue
    <3>. QED BY <3>1, <3>3 DEF FlushComplete
  <2>. QED BY <2>1 DEF FlushComplete
<1>. QED BY <1>1, <1>2, <1>3, SpecInv, PTL DEF Spec

-----------------------------------------------------------------------------
(* The receiver's books.                                                   *)
LEMMA RxFacts ==
  ASSUME TypeOK
  PROVE  /\ rcreg \in Seq(Nat) /\ Len(rcreg) \in Nat /\ todo \in Nat
         /\ rxCount \in Nat /\ rxCount <= SZ /\ rxIn \in Nat /\ rxOut \in Nat
         /\ rxDropped \in Nat
BY SizeType DEF TypeOK

LEMMA MainRx ==
  ASSUME Regime, IInv, RxAccounted, MainLine \/ Program
  PROVE  RxAccounted'
<1>. USE DEF RxAccounted, InFlightRx, HalfRead, At, Locals, NoRx, rxLine, rxRing, rxHist
<1>0. /\ rcreg \in Seq(Nat) /\ Len(rcreg) \in Nat
      /\ rxCount \in Nat /\ rxCount <= SZ /\ rxIn \in Nat /\ rxOut \in Nat
      /\ rxDropped \in Nat /\ ret \in {"idle", "wTest", "fRing", "fShift"}
      /\ pc \in {"rLoad", "rTail", "rCount"} => rxCount > 0
      /\ pc \in {"dRxHead", "dRxCount"} => rxCount < SZ
  <2>1. TypeOK /\ CtlInv  BY DEF IInv
  <2>2. pc \in {"rLoad", "rTail", "rCount"} => rxCount > 0  BY <2>1 DEF CtlInv
  <2>3. pc \in {"dRxHead", "dRxCount"} => rxCount < SZ  BY <2>1 DEF CtlInv
  <2>4. ret \in {"idle", "wTest", "fRing", "fShift"}  BY <2>1 DEF TypeOK
  <2>. QED BY <2>1, <2>2, <2>3, <2>4, RxFacts
<1>1. CASE InitUsart        BY <1>1, <1>0 DEF InitUsart
<1>2. CASE InitTxOff        BY <1>2, <1>0 DEF InitTxOff
<1>3. CASE InitTx           BY <1>3, <1>0 DEF InitTx
<1>4. CASE InitRxCount      BY <1>4, <1>0 DEF InitRxCount
<1>5. CASE InitRxTail       BY <1>5, <1>0 DEF InitRxTail
<1>6. CASE InitRxHead       BY <1>6, <1>0 DEF InitRxHead
<1>7. CASE WriteTest        BY <1>7, <1>0 DEF WriteTest
<1>8. CASE WriteStore       BY <1>8, <1>0 DEF WriteStore
<1>9. CASE WriteHead        BY <1>9, <1>0 DEF WriteHead
<1>10. CASE WriteCount      BY <1>10, <1>0 DEF WriteCount
<1>11. CASE WriteKick       BY <1>11, <1>0 DEF WriteKick
<1>12. CASE DispatchPir     BY <1>12, <1>0 DEF DispatchPir
<1>13. CASE DispatchRx
  <2>1. CASE RCIF /\ pc' = "dRxTest" /\ rcreg' = Tail(rcreg)
    <3>1. Len(rcreg') = Len(rcreg) - 1  BY <1>0, <2>1, Fifo DEF RCIF
    <3>2. pc = "dRx" /\ UNCHANGED <<rxIn, rxOut, rxDropped, rxCount>>
      BY <1>13 DEF DispatchRx
    <3>3. pc' = "dRxTest"  BY <2>1
    <3>. QED BY <1>0, <3>1, <3>2, <3>3
  <2>2. CASE pc' = "dTx" /\ UNCHANGED rcreg  BY <1>0, <1>13, <2>2 DEF DispatchRx
  <2>. QED BY <1>13, <2>1, <2>2 DEF DispatchRx
<1>14. CASE DispatchRxTest  BY <1>14, <1>0 DEF DispatchRxTest
<1>15. CASE DispatchRxHead  BY <1>15, <1>0 DEF DispatchRxHead
<1>16. CASE DispatchRxCount
  <2>1. rxCount' = rxCount + 1  BY <1>16, <1>0, CountUp DEF DispatchRxCount
  <2>. QED BY <1>16, <1>0, <2>1 DEF DispatchRxCount
<1>17. CASE DispatchTx      BY <1>17, <1>0 DEF DispatchTx
<1>18. CASE DispatchTest    BY <1>18, <1>0 DEF DispatchTest
<1>19. CASE DispatchLoad    BY <1>19, <1>0 DEF DispatchLoad
<1>20. CASE DispatchTail    BY <1>20, <1>0 DEF DispatchTail
<1>21. CASE DispatchCount   BY <1>21, <1>0 DEF DispatchCount
<1>22. CASE DispatchSend    BY <1>22, <1>0 DEF DispatchSend
<1>23. CASE FlushRing       BY <1>23, <1>0 DEF FlushRing
<1>24. CASE FlushShift      BY <1>24, <1>0 DEF FlushShift
<1>25. CASE FlushReturn     BY <1>25, <1>0 DEF FlushReturn
<1>26. CASE ReadTest        BY <1>26, <1>0 DEF ReadTest
<1>27. CASE ReadLoad        BY <1>27, <1>0 DEF ReadLoad
<1>28. CASE ReadTail        BY <1>28, <1>0 DEF ReadTail
<1>29. CASE ReadCount
  <2>1. rxCount' = rxCount - 1  BY <1>29, <1>0, CountDown DEF ReadCount
  <2>. QED BY <1>29, <1>0, <2>1 DEF ReadCount
<1>30. CASE EnableGie       BY <1>30, <1>0 DEF EnableGie
<1>31. CASE AppFlush        BY <1>31, <1>0 DEF AppFlush
<1>32. CASE \E n \in 1 .. MaxLen : AppWrite(n)   BY <1>32, <1>0 DEF AppWrite
<1>33. CASE \E n \in 1 .. MaxLen : AppRead(n)    BY <1>33, <1>0 DEF AppRead
<1>. QED
  BY <1>1, <1>2, <1>3, <1>4, <1>5, <1>6, <1>7, <1>8, <1>9, <1>10, <1>11, <1>12,
     <1>13, <1>14, <1>15, <1>16, <1>17, <1>18, <1>19, <1>20, <1>21, <1>22, <1>23,
     <1>24, <1>25, <1>26, <1>27, <1>28, <1>29, <1>30, <1>31, <1>32, <1>33
  DEF MainLine, Program, Initialise, Write, Dispatch, Flush, Read, App

LEMMA StepRx ==
  ASSUME Regime, IInv, RxAccounted, [Next]_vars
  PROVE  RxAccounted'
<1>0. /\ rcreg \in Seq(Nat) /\ Len(rcreg) \in Nat
      /\ rxCount \in Nat /\ rxCount <= SZ /\ rxIn \in Nat /\ rxOut \in Nat
      /\ rxDropped \in Nat
  BY RxFacts DEF IInv
<1>1. CASE Preemptible(MainLine) \/ Preemptible(Program)
  BY <1>1, MainRx DEF Preemptible
<1>2. CASE Isr
  <2>1. IsrRx /\ UNCHANGED <<pc, rxIn, rxOut>>
    BY <1>2 DEF Isr, control
  <2>2. rxDropped' + rxCount' + Len(rcreg') = rxDropped + rxCount + Len(rcreg)
    <3>1. CASE ~RCIF
      BY <2>1, <3>1 DEF IsrRx, rxRing
    <3>2. CASE RCIF /\ OnRx(Head(rcreg)) /\ rcreg' = Tail(rcreg)
      <4>1. Len(rcreg') = Len(rcreg) - 1  BY <1>0, <3>2, Fifo DEF RCIF
      <4>2. CASE rxCount < SZ
        <5>1. rxCount' = Inc(rxCount) /\ rxDropped' = rxDropped
          BY <1>0, <3>2, <4>2, SizeType DEF OnRx
        <5>2. rxCount' = rxCount + 1  BY <1>0, <4>2, <5>1, CountUp
        <5>. QED BY <1>0, <4>1, <5>1, <5>2
      <4>3. CASE rxCount >= SZ
        <5>1. rxCount' = rxCount /\ rxDropped' = rxDropped + 1
          BY <1>0, <3>2, <4>3, SizeType DEF OnRx, rxRing
        <5>. QED BY <1>0, <4>1, <5>1
      <4>. QED BY <1>0, <4>2, <4>3, SizeType
    <3>. QED BY <2>1, <3>1, <3>2 DEF IsrRx
  <2>3. rxCount' \in Nat /\ rxDropped' \in Nat /\ Len(rcreg') \in Nat
    BY <2>1, IsrRxStep, SizeType DEF IInv
  <2>4. UNCHANGED <<HalfRead, InFlightRx>> /\ HalfRead \in Nat /\ InFlightRx \in Nat
    BY <2>1 DEF InFlightRx, HalfRead
  <2>5. rxIn + HalfRead = rxOut + (rxDropped + rxCount + Len(rcreg)) + InFlightRx
    BY <1>0, <2>4 DEF RxAccounted
  <2>6. rxIn' + HalfRead' = rxOut' + (rxDropped' + rxCount' + Len(rcreg')) + InFlightRx'
    BY <2>1, <2>2, <2>4, <2>5
  <2>7. rxOut' \in Nat /\ InFlightRx' \in Nat
    BY <1>0, <2>1, <2>4
  <2>. QED BY <2>3, <2>6, <2>7 DEF RxAccounted
<1>3. CASE Arrive
  <2>1. UNCHANGED <<pc, rxCount, rxOut, rxDropped>>
    BY <1>3 DEF Arrive, control, rxRing, rxHist
  <2>2. \/ rxIn' = rxIn + 1 /\ Len(rcreg') = Len(rcreg) + 1
        \/ UNCHANGED <<rcreg, rxIn>>
    <3>1. CASE rcreg' = Append(rcreg, rxIn + 1) /\ rxIn' = rxIn + 1
      BY <1>0, <3>1
    <3>. QED BY <1>3, <3>1 DEF Arrive
  <2>. QED BY <1>0, <2>1, <2>2 DEF RxAccounted, InFlightRx, HalfRead
<1>4. CASE ShiftOut \/ UNCHANGED vars
  <2>1. UNCHANGED <<pc, rcreg, rxIn, rxCount, rxOut, rxDropped>>
    BY <1>4 DEF ShiftOut, vars, control, rxLine, rxRing, rxHist
  <2>. QED BY <2>1 DEF RxAccounted, InFlightRx, HalfRead
<1>. QED BY <1>1, <1>2, <1>3, <1>4 DEF Next

(* RxAccounted for every ring size and any arrival of bytes.               *)
THEOREM SerialRxAccounted == ASSUME Regime PROVE Spec => []RxAccounted
<1>1. Init => RxAccounted
  BY DEF Init, RxAccounted, InFlightRx, HalfRead
<1>2. IInv /\ RxAccounted /\ [Next]_vars => RxAccounted'
  BY StepRx
<1>. QED BY <1>1, <1>2, SpecInv, PTL DEF Spec

-----------------------------------------------------------------------------
(* The receive ring, in the middle of any update of it, as the transmit    *)
(* ring above.  Drops leave gaps in the numbers it holds, so all that can  *)
(* be said of them is their order.                                         *)
InHand   == pc = "dRxTest"
RxFirst  == IF pc = "rTail" THEN Succ(rxTail) ELSE rxTail
RxStored == IF pc \in {"dRxHead", "dRxCount"} THEN rxCount + 1
            ELSE IF pc \in {"rTail", "rCount"} THEN rxCount - 1
            ELSE rxCount
RxNext   == IF pc = "dRxHead" THEN RxStored - 1 ELSE RxStored
RxByte(n) == rxBuf[Idx(RxFirst, n)]

(* x comes after everything that was read or waits in the ring.            *)
Above(x) == /\ rxLast < x
              /\ \A n \in 0 .. SZ - 1 : n < RxStored => RxByte(n) < x

Sorted ==
  \A n \in 0 .. SZ - 1 : n < RxStored =>
    /\ rxLast < RxByte(n)
    /\ \A m \in 0 .. SZ - 1 : m < n => RxByte(m) < RxByte(n)

RxOrder ==
  /\ rxHead = Idx(RxFirst, RxNext)
  /\ Sorted
  /\ Above(rxIn + 1)
  /\ \A j \in 1 .. Len(rcreg) : /\ Above(rcreg[j]) /\ rcreg[j] <= rxIn
                                /\ \A i \in 1 .. j - 1 : rcreg[i] < rcreg[j]
  /\ InHand => /\ Above(byte) /\ byte <= rxIn
               /\ \A j \in 1 .. Len(rcreg) : byte < rcreg[j]

RxView == <<rxBuf, rxHead, rxLast, rcreg, rxIn, RxFirst, RxStored, RxNext>>

LEMMA RxSame ==
  ASSUME RxOrder, UNCHANGED RxView, InHand' => InHand /\ byte' = byte
  PROVE  RxOrder'
<1>1. /\ UNCHANGED <<rxBuf, rxHead, rxLast, rcreg, rxIn>>
      /\ UNCHANGED <<RxFirst, RxStored, RxNext>>
  BY DEF RxView
<1>2. \A n : Idx(RxFirst, n)' = Idx(RxFirst', n) /\ RxByte(n)' = RxByte(n)
  BY <1>1 DEF RxByte, Idx
<1>3. \A x : Above(x) => Above(x)'
  BY <1>1, <1>2 DEF Above
<1>4. Sorted'
  BY <1>1, <1>2 DEF RxOrder, Sorted
<1>5. rxHead' = Idx(RxFirst, RxNext)'
  BY <1>1 DEF RxOrder, Idx
<1>6. Above(rxIn + 1)'
  BY <1>1, <1>3 DEF RxOrder, Above
<1>7. \A j \in 1 .. Len(rcreg') :
        /\ Above(rcreg[j])' /\ rcreg'[j] <= rxIn'
        /\ \A i \in 1 .. j - 1 : rcreg'[i] < rcreg'[j]
  BY <1>1, <1>3 DEF RxOrder, Above
<1>8. InHand' => /\ Above(byte)' /\ byte' <= rxIn'
                 /\ \A j \in 1 .. Len(rcreg') : byte' < rcreg'[j]
  BY <1>1, <1>3 DEF RxOrder, Above
<1>. QED BY <1>4, <1>5, <1>6, <1>7, <1>8 DEF RxOrder

LEMMA RxRingFacts ==
  ASSUME IInv
  PROVE  /\ RxFirst \in 0 .. SZ - 1 /\ RxStored \in 0 .. SZ /\ RxNext \in 0 .. SZ
         /\ rxBuf \in [0 .. SZ - 1 -> Nat] /\ rxHead \in 0 .. SZ - 1
         /\ rxTail \in 0 .. SZ - 1 /\ rxCount \in 0 .. SZ
         /\ rxLast \in Nat /\ byte \in Nat /\ rxIn \in Nat /\ rcreg \in Seq(Nat)
         /\ \A n \in 0 .. SZ - 1 : RxByte(n) \in Nat
         /\ \A j \in 1 .. Len(rcreg) : rcreg[j] \in Nat
<1>1. /\ rxTail \in 0 .. SZ - 1 /\ rxHead \in 0 .. SZ - 1 /\ rxCount \in 0 .. SZ
      /\ rxBuf \in [0 .. SZ - 1 -> Nat] /\ rcreg \in Seq(Nat)
      /\ rxLast \in Nat /\ byte \in Nat /\ rxIn \in Nat
  BY DEF IInv, TypeOK
<1>2. RxFirst \in 0 .. SZ - 1
  BY <1>1, RingStep DEF RxFirst
<1>3. /\ pc \in {"dRxHead", "dRxCount"} => rxCount < SZ
      /\ pc \in {"rTail", "rCount"} => rxCount > 0
  BY DEF IInv, CtlInv
<1>4. RxStored \in 0 .. SZ /\ RxNext \in 0 .. SZ
  BY <1>1, <1>3, SizeType DEF RxStored, RxNext
<1>5. \A n \in 0 .. SZ - 1 : RxByte(n) \in Nat
  BY <1>1, <1>2, RingPlace DEF RxByte
<1>6. \A j \in 1 .. Len(rcreg) : rcreg[j] \in Nat
  BY <1>1
<1>. QED BY <1>1, <1>2, <1>4, <1>5, <1>6

(* A byte is stored behind those that wait.                                *)
LEMMA Push ==
  ASSUME IInv, Sorted, NEW b \in Nat, Above(b),
         NEW k \in 0 .. SZ - 1, k = RxStored, rxHead = Idx(RxFirst, k),
         rxBuf' = [rxBuf EXCEPT ![rxHead] = b], rxLast' = rxLast,
         RxFirst' = RxFirst, RxStored' = k + 1
  PROVE  /\ Sorted'
         /\ \A x \in Nat : Above(x) /\ b < x => Above(x)'
<1>0. /\ RxFirst \in 0 .. SZ - 1 /\ rxLast \in Nat
      /\ rxBuf \in [0 .. SZ - 1 -> Nat] /\ rxHead \in 0 .. SZ - 1
      /\ \A n \in 0 .. SZ - 1 : RxByte(n) \in Nat
  BY RxRingFacts
<1>1. \A n \in 0 .. SZ - 1 : RxByte(n)' = rxBuf'[Idx(RxFirst, n)]
  BY DEF RxByte, Idx
<1>2. \A n \in 0 .. SZ - 1 : n < k => RxByte(n)' = RxByte(n)
  <2>1. TAKE n \in 0 .. SZ - 1
  <2>2. HAVE n < k
  <2>3. n # k
    BY <2>2
  <2>4. Idx(RxFirst, n) # rxHead /\ Idx(RxFirst, n) \in 0 .. SZ - 1
    BY <1>0, <2>3, RingPlace, RingPlaceDiffers
  <2>. QED BY <1>0, <1>1, <2>4 DEF RxByte
<1>3. RxByte(k)' = b
  BY <1>0, <1>1
<1>4. \A n \in 0 .. SZ - 1 : n < k + 1 <=> n < k \/ n = k
  BY SizeType
<1>5. Sorted'
  BY <1>0, <1>2, <1>3, <1>4 DEF Sorted, Above
<1>6. \A x \in Nat : Above(x) /\ b < x => Above(x)'
  BY <1>0, <1>2, <1>3, <1>4 DEF Above
<1>. QED BY <1>5, <1>6

(* The oldest byte that waits is read, and the rest move up by one.        *)
LEMMA Pop ==
  ASSUME IInv, Sorted, NEW k \in 1 .. SZ, k = RxStored, UNCHANGED rxBuf,
         rxLast' = RxByte(0), RxFirst' = Succ(RxFirst), RxStored' = k - 1
  PROVE  /\ Sorted' /\ rxLast < rxLast'
         /\ \A x \in Nat : Above(x) => Above(x)'
<1>0. /\ RxFirst \in 0 .. SZ - 1 /\ rxLast \in Nat
      /\ \A n \in 0 .. SZ - 1 : RxByte(n) \in Nat
  BY RxRingFacts
<1>1. \A n \in 0 .. SZ - 1 : n + 1 < SZ => RxByte(n)' = RxByte(n + 1)
  <2>1. TAKE n \in 0 .. SZ - 1
  <2>2. Idx(RxFirst', n) = Idx(RxFirst, n + 1)
    BY <1>0, RingPlace
  <2>. QED BY <2>2 DEF RxByte, Idx
<1>2. /\ 0 \in 0 .. SZ - 1 /\ 0 < k
      /\ \A n \in 0 .. SZ - 1 : n < k - 1 => n + 1 \in 0 .. SZ - 1 /\ n + 1 < k /\ n + 1 < SZ
  BY SizeType
<1>3. rxLast < rxLast'
  BY <1>2 DEF Sorted
<1>4. \A n \in 0 .. SZ - 1 : n < k - 1 => rxLast' < RxByte(n)'
  BY <1>1, <1>2 DEF Sorted
<1>5. \A n, m \in 0 .. SZ - 1 : n < k - 1 /\ m < n => RxByte(m)' < RxByte(n)'
  <2>1. TAKE n \in 0 .. SZ - 1, m \in 0 .. SZ - 1
  <2>2. HAVE n < k - 1 /\ m < n
  <2>3. m < k - 1 /\ m + 1 < n + 1
    BY <2>2
  <2>. QED BY <1>1, <1>2, <2>2, <2>3 DEF Sorted
<1>6. Sorted'
  BY <1>4, <1>5 DEF Sorted
<1>7. \A x \in Nat : Above(x) => Above(x)'
  BY <1>1, <1>2 DEF Above
<1>. QED BY <1>3, <1>6, <1>7

LEMMA AboveSame ==
  ASSUME Sorted, UNCHANGED <<rxBuf, rxLast, RxFirst, RxStored>>
  PROVE  Sorted' /\ \A x : Above(x) => Above(x)'
<1>1. \A n : RxByte(n)' = RxByte(n)
  BY DEF RxByte, Idx
<1>2. Sorted'
  BY <1>1 DEF Sorted
<1>3. \A x : Above(x) => Above(x)'
  BY <1>1 DEF Above
<1>. QED BY <1>2, <1>3

LEMMA TakeLatched ==
  ASSUME NEW q \in Seq(Nat), q # << >>
  PROVE  /\ Head(q) = q[1] /\ 1 \in 1 .. Len(q) /\ Len(Tail(q)) = Len(q) - 1
         /\ \A j \in 1 .. Len(Tail(q)) : Tail(q)[j] = q[j + 1] /\ j + 1 \in 2 .. Len(q)
BY HeadTailProperties

(* The oldest byte of RCREG leaves it for a handler.                       *)
LEMMA LatchedStep ==
  ASSUME IInv, RxOrder, rcreg # << >>, rcreg' = Tail(rcreg), rxIn' = rxIn
  PROVE  /\ Head(rcreg) \in Nat /\ Above(Head(rcreg)) /\ Head(rcreg) <= rxIn
         /\ \A j \in 1 .. Len(rcreg') :
              /\ rcreg'[j] \in Nat /\ Above(rcreg'[j]) /\ rcreg'[j] <= rxIn
              /\ Head(rcreg) < rcreg'[j]
              /\ \A i \in 1 .. j - 1 : rcreg'[i] < rcreg'[j]
<1>1. rcreg \in Seq(Nat) /\ rxIn \in Nat /\ \A j \in 1 .. Len(rcreg) : rcreg[j] \in Nat
  BY RxRingFacts
<1>2. /\ Head(rcreg) = rcreg[1] /\ 1 \in 1 .. Len(rcreg) /\ Len(rcreg') = Len(rcreg) - 1
      /\ \A j \in 1 .. Len(rcreg') : rcreg'[j] = rcreg[j + 1] /\ j + 1 \in 2 .. Len(rcreg)
  BY <1>1, TakeLatched
<1>3. Head(rcreg) \in Nat /\ Above(Head(rcreg)) /\ Head(rcreg) <= rxIn
  BY <1>1, <1>2 DEF RxOrder
<1>4. Len(rcreg) \in Nat
  BY <1>1
<1>5. ASSUME NEW j \in 1 .. Len(rcreg')
      PROVE  /\ rcreg'[j] \in Nat /\ Above(rcreg'[j]) /\ rcreg'[j] <= rxIn
             /\ Head(rcreg) < rcreg'[j]
             /\ \A i \in 1 .. j - 1 : rcreg'[i] < rcreg'[j]
  <2>1. j + 1 \in 1 .. Len(rcreg) /\ rcreg'[j] = rcreg[j + 1] /\ j \in Nat
    BY <1>2, <1>4, <1>5
  <2>2. /\ Above(rcreg[j + 1]) /\ rcreg[j + 1] <= rxIn
        /\ \A i \in 1 .. (j + 1) - 1 : rcreg[i] < rcreg[j + 1]
    BY <2>1 DEF RxOrder
  <2>3. 1 \in 1 .. (j + 1) - 1
    BY <2>1, <1>5
  <2>4. \A i \in 1 .. j - 1 : rcreg'[i] < rcreg'[j]
    <3>1. TAKE i \in 1 .. j - 1
    <3>2. i \in 1 .. Len(rcreg') /\ i + 1 \in 1 .. (j + 1) - 1
      BY <1>2, <1>4, <1>5, <2>1
    <3>. QED BY <1>2, <2>1, <2>2, <3>2
  <2>. QED BY <1>1, <1>2, <2>1, <2>2, <2>3, <2>4
<1>. QED BY <1>3, <1>5

(* What a byte becomes that is stored, or dropped on a full ring.          *)
LEMMA StoreRx ==
  ASSUME IInv, Sorted, Above(rxIn + 1), NEW b \in Nat, Above(b), b <= rxIn, rxIn' = rxIn,
         rxLast' = rxLast, RxFirst' = RxFirst, rxHead = Idx(RxFirst, RxStored),
         \A j \in 1 .. Len(rcreg') : /\ rcreg'[j] \in Nat /\ Above(rcreg'[j]) /\ b < rcreg'[j]
                                     /\ rcreg'[j] <= rxIn
                                     /\ \A i \in 1 .. j - 1 : rcreg'[i] < rcreg'[j],
         \/ /\ RxStored < SZ /\ RxStored' = RxStored + 1
            /\ rxBuf' = [rxBuf EXCEPT ![rxHead] = b]
         \/ RxStored' = RxStored /\ rxBuf' = rxBuf,
         ~InHand', rxHead' = Idx(RxFirst', RxNext')
  PROVE  RxOrder'
<1>0. RxStored \in 0 .. SZ /\ rxIn \in Nat
  BY RxRingFacts
<1>1. Sorted' /\ \A x \in Nat : Above(x) /\ b < x => Above(x)'
  <2>1. CASE /\ RxStored < SZ /\ RxStored' = RxStored + 1
             /\ rxBuf' = [rxBuf EXCEPT ![rxHead] = b]
    <3>1. RxStored \in 0 .. SZ - 1
      BY <1>0, <2>1, SizeType
    <3>. QED BY <2>1, <3>1, Push
  <2>2. CASE RxStored' = RxStored /\ rxBuf' = rxBuf
    BY <2>2, AboveSame
  <2>. QED BY <2>1, <2>2
<1>2. Above(rxIn + 1)'
  <2>1. Above(rxIn + 1) /\ b < rxIn + 1 /\ rxIn + 1 \in Nat
    BY <1>0
  <2>. QED BY <1>1, <2>1 DEF Above
<1>3. \A j \in 1 .. Len(rcreg') : /\ Above(rcreg[j])' /\ rcreg'[j] <= rxIn'
                                  /\ \A i \in 1 .. j - 1 : rcreg'[i] < rcreg'[j]
  BY <1>1 DEF Above
<1>4. rxHead' = Idx(RxFirst, RxNext)'
  BY DEF Idx
<1>. QED BY <1>1, <1>2, <1>3, <1>4 DEF RxOrder

LEMMA DispatchRxOrder ==
  ASSUME Regime, IInv, RxOrder,
         DispatchRx \/ DispatchRxTest \/ DispatchRxHead \/ DispatchRxCount
  PROVE  RxOrder'
<1>0. /\ rcreg \in Seq(Nat) /\ rxIn \in Nat /\ byte \in Nat /\ rxCount \in 0 .. SZ
      /\ RxFirst \in 0 .. SZ - 1 /\ RxNext \in 0 .. SZ
      /\ \A j \in 1 .. Len(rcreg) : rcreg[j] \in Nat
  BY RxRingFacts
<1>1. CASE DispatchRx
  <2>1. /\ pc = "dRx" /\ UNCHANGED <<rxIn, rxBuf, rxHead, rxTail, rxCount, rxLast>>
        /\ \/ /\ rcreg # << >> /\ pc' = "dRxTest"
              /\ byte' = Head(rcreg) /\ rcreg' = Tail(rcreg)
           \/ pc' = "dTx" /\ UNCHANGED <<byte, rcreg>>
    BY <1>1 DEF DispatchRx, RCIF, rxRing, rxHist
  <2>2. UNCHANGED <<RxFirst, RxStored, RxNext>> /\ ~InHand
    BY <2>1 DEF RxFirst, RxStored, RxNext, InHand
  <2>3. CASE pc' = "dTx" /\ UNCHANGED <<byte, rcreg>>
    <3>1. ~InHand'
      BY <2>3 DEF InHand
    <3>. QED BY <2>1, <2>2, <2>3, <3>1, RxSame DEF RxView
  <2>4. CASE /\ rcreg # << >> /\ pc' = "dRxTest"
             /\ byte' = Head(rcreg) /\ rcreg' = Tail(rcreg)
    <3>1. /\ Above(byte') /\ byte' <= rxIn
          /\ \A j \in 1 .. Len(rcreg') :
               /\ Above(rcreg'[j]) /\ rcreg'[j] <= rxIn /\ byte' < rcreg'[j]
               /\ \A i \in 1 .. j - 1 : rcreg'[i] < rcreg'[j]
      BY <2>1, <2>4, LatchedStep
    <3>2. Sorted' /\ \A x : Above(x) => Above(x)'
      BY <2>1, <2>2, AboveSame DEF RxOrder
    <3>3. Above(byte)' /\ \A j \in 1 .. Len(rcreg') : Above(rcreg[j])'
      BY <3>1, <3>2 DEF Above
    <3>4. Above(rxIn + 1)'
      BY <2>1, <3>2 DEF Above, RxOrder
    <3>5. rxHead' = Idx(RxFirst, RxNext)'
      BY <2>1, <2>2 DEF RxOrder, Idx
    <3>. QED BY <2>1, <3>1, <3>2, <3>3, <3>4, <3>5 DEF RxOrder
  <2>. QED BY <2>1, <2>3, <2>4
<1>2. CASE DispatchRxTest
  <2>1. /\ pc = "dRxTest" /\ UNCHANGED <<rcreg, rxIn, rxHead, rxTail, rxCount, rxLast>>
        /\ \/ /\ rxCount < SZ /\ pc' = "dRxHead"
              /\ rxBuf' = [rxBuf EXCEPT ![rxHead] = byte]
           \/ pc' = "dTx" /\ rxBuf' = rxBuf
    BY <1>2 DEF DispatchRxTest, rxLine
  <2>2. /\ RxFirst' = RxFirst /\ RxStored = rxCount /\ RxNext = rxCount /\ RxNext' = rxCount
        /\ InHand /\ ~InHand'
        /\ pc' = "dRxHead" => RxStored' = RxStored + 1
        /\ pc' = "dTx" => RxStored' = RxStored
    BY <1>0, <2>1, SizeType DEF RxFirst, RxStored, RxNext, InHand
  <2>3. rxHead' = Idx(RxFirst', RxNext') /\ rxHead = Idx(RxFirst, RxStored)
    BY <2>1, <2>2 DEF RxOrder
  <2>. QED BY <1>0, <2>1, <2>2, <2>3, StoreRx DEF RxOrder
<1>3. CASE DispatchRxHead
  <2>1. /\ pc = "dRxHead" /\ pc' = "dRxCount" /\ rxHead' = Succ(rxHead)
        /\ UNCHANGED <<rcreg, rxIn, rxBuf, rxTail, rxCount, rxLast>>
    BY <1>3 DEF DispatchRxHead, At, rxLine, rxHist
  <2>2. /\ UNCHANGED <<RxFirst, RxStored>> /\ ~InHand'
        /\ RxNext = rxCount /\ RxNext' = rxCount + 1
    BY <1>0, <2>1, SizeType DEF RxFirst, RxStored, RxNext, InHand
  <2>3. rxCount \in 0 .. SZ - 1
    BY <1>0, <2>1, SizeType DEF IInv, CtlInv
  <2>4. rxHead' = Idx(RxFirst, rxCount + 1)
    BY <1>0, <2>1, <2>2, <2>3, RingPlace DEF RxOrder
  <2>5. rxHead' = Idx(RxFirst, RxNext)'
    BY <2>2, <2>4 DEF Idx
  <2>6. Sorted' /\ \A x : Above(x) => Above(x)'
    BY <2>1, <2>2, AboveSame DEF RxOrder
  <2>7. Above(rxIn + 1)' /\ \A j \in 1 .. Len(rcreg') : Above(rcreg[j])'
    BY <2>1, <2>6 DEF Above, RxOrder
  <2>. QED BY <2>1, <2>2, <2>5, <2>6, <2>7 DEF RxOrder
<1>4. CASE DispatchRxCount
  <2>1. /\ pc = "dRxCount" /\ pc' = "dTx" /\ rxCount' = Inc(rxCount)
        /\ UNCHANGED <<rcreg, rxIn, rxBuf, rxHead, rxTail, rxLast, byte>>
    BY <1>4 DEF DispatchRxCount, At, Locals, rxLine, rxHist
  <2>2. rxCount' = rxCount + 1
    BY <1>0, <2>1, SizeType, CountUp DEF IInv, CtlInv
  <2>3. UNCHANGED <<RxFirst, RxStored, RxNext>> /\ ~InHand'
    BY <2>1, <2>2 DEF RxFirst, RxStored, RxNext, InHand
  <2>. QED BY <2>1, <2>3, RxSame DEF RxView
<1>. QED BY <1>1, <1>2, <1>3, <1>4

LEMMA ReadRxOrder ==
  ASSUME Regime, IInv, RxOrder, Read
  PROVE  RxOrder' /\ (rxOut' # rxOut => rxLast' > rxLast)
<1>0. /\ RxFirst \in 0 .. SZ - 1 /\ RxNext \in 0 .. SZ /\ RxStored \in 0 .. SZ
      /\ rxCount \in 0 .. SZ /\ rxTail \in 0 .. SZ - 1 /\ rxLast \in Nat /\ rxIn \in Nat
      /\ \A j \in 1 .. Len(rcreg) : rcreg[j] \in Nat
      /\ \A n \in 0 .. SZ - 1 : RxByte(n) \in Nat
  BY RxRingFacts
<1>1. CASE ReadTest
  <2>1. /\ pc = "rTest" /\ pc' \in {"rLoad", "idle"}
        /\ UNCHANGED <<rcreg, rxIn, rxBuf, rxHead, rxTail, rxCount, rxLast, rxOut, byte>>
    BY <1>1 DEF ReadTest, Locals, NoRx, rxLine, rxRing, rxHist
  <2>2. UNCHANGED <<RxFirst, RxStored, RxNext>> /\ ~InHand'
    BY <2>1 DEF RxFirst, RxStored, RxNext, InHand
  <2>. QED BY <2>1, <2>2, RxSame DEF RxView
<1>2. CASE ReadLoad
  <2>1. /\ pc = "rLoad" /\ pc' = "rTail" /\ rxLast' = rxBuf[rxTail]
        /\ UNCHANGED <<rcreg, rxIn, rxBuf, rxHead, rxTail, rxCount>>
    BY <1>2 DEF ReadLoad, At, rxLine, rxRing
  <2>2. rxCount \in 1 .. SZ
    BY <1>0, <2>1, SizeType DEF IInv, CtlInv
  <2>3. /\ RxFirst = rxTail /\ RxFirst' = Succ(RxFirst) /\ ~InHand'
        /\ RxStored = rxCount /\ RxStored' = rxCount - 1
        /\ RxNext = rxCount /\ RxNext' = rxCount - 1
    BY <2>1 DEF RxFirst, RxStored, RxNext, InHand
  <2>4. rxLast' = RxByte(0)
    BY <1>0, <2>1, <2>3, RingPlace, SizeType DEF RxByte
  <2>5. Sorted' /\ rxLast < rxLast' /\ \A x \in Nat : Above(x) => Above(x)'
    BY <2>1, <2>2, <2>3, <2>4, Pop DEF RxOrder
  <2>6. Above(rxIn + 1)' /\ \A j \in 1 .. Len(rcreg') : Above(rcreg[j])'
    <3>1. rxIn + 1 \in Nat
      BY <1>0
    <3>. QED BY <1>0, <2>1, <2>5, <3>1 DEF Above, RxOrder
  <2>7. rxHead' = Idx(RxFirst, RxNext)'
    <3>1. rxCount - 1 \in 0 .. SZ - 1 /\ (rxCount - 1) + 1 = rxCount
      BY <2>2, SizeType
    <3>2. Idx(Succ(RxFirst), rxCount - 1) = Idx(RxFirst, rxCount)
      BY <1>0, <3>1, RingPlace
    <3>. QED BY <2>1, <2>3, <3>2 DEF RxOrder, Idx
  <2>. QED BY <1>0, <2>1, <2>3, <2>5, <2>6, <2>7 DEF RxOrder
<1>3. CASE ReadTail
  <2>1. /\ pc = "rTail" /\ pc' = "rCount" /\ rxTail' = Succ(rxTail)
        /\ UNCHANGED <<rcreg, rxIn, rxBuf, rxHead, rxCount, rxLast, rxOut, byte>>
    BY <1>3 DEF ReadTail, At, Locals, rxLine, rxHist
  <2>2. UNCHANGED <<RxFirst, RxStored, RxNext>> /\ ~InHand'
    BY <2>1 DEF RxFirst, RxStored, RxNext, InHand
  <2>. QED BY <2>1, <2>2, RxSame DEF RxView
<1>4. CASE ReadCount
  <2>1. /\ pc = "rCount" /\ pc' = "rTest" /\ rxCount' = Dec(rxCount)
        /\ UNCHANGED <<rcreg, rxIn, rxBuf, rxHead, rxTail, rxLast, rxOut, byte>>
    BY <1>4 DEF ReadCount, At, Locals, rxLine, rxHist
  <2>2. rxCount' = rxCount - 1
    BY <1>0, <2>1, SizeType, CountDown DEF IInv, CtlInv
  <2>3. UNCHANGED <<RxFirst, RxStored, RxNext>> /\ ~InHand'
    BY <2>1, <2>2 DEF RxFirst, RxStored, RxNext, InHand
  <2>. QED BY <2>1, <2>3, RxSame DEF RxView
<1>. QED BY <1>1, <1>2, <1>3, <1>4 DEF Read

RxPcs == {"dRxTest", "dRxHead", "dRxCount", "rTail", "rCount"}

LEMMA RxIdle ==
  ASSUME RxOrder, pc \notin RxPcs, pc' \notin RxPcs,
         UNCHANGED <<rcreg, rxIn, rxBuf, rxHead, rxTail, rxCount, rxLast>>
  PROVE  RxOrder'
<1>1. UNCHANGED <<RxFirst, RxStored, RxNext>> /\ ~InHand'
  BY DEF RxPcs, RxFirst, RxStored, RxNext, InHand
<1>. QED BY <1>1, RxSame DEF RxView

LEMMA MainRxOrder ==
  ASSUME Regime, IInv, RxOrder, MainLine \/ Program
  PROVE  RxOrder' /\ (rxOut' # rxOut => rxLast' > rxLast)
<1>0. /\ ret \in {"idle", "wTest", "fRing", "fShift"}
      /\ pc \in InitPcs => rxCount = 0 /\ rxHead = 0 /\ rxTail = 0
  BY DEF IInv, TypeOK, CtlInv
<1>. USE DEF At, Locals, NoRx, rxLine, rxRing, rxHist, RxPcs, InitPcs
<1>1. CASE InitUsart        BY <1>1, RxIdle DEF InitUsart
<1>2. CASE InitTxOff        BY <1>2, RxIdle DEF InitTxOff
<1>3. CASE InitTx           BY <1>3, RxIdle DEF InitTx
<1>4. CASE InitRxCount      BY <1>4, <1>0, RxIdle DEF InitRxCount
<1>5. CASE InitRxTail       BY <1>5, <1>0, RxIdle DEF InitRxTail
<1>6. CASE InitRxHead       BY <1>6, <1>0, RxIdle DEF InitRxHead
<1>7. CASE WriteTest        BY <1>7, RxIdle DEF WriteTest
<1>8. CASE WriteStore       BY <1>8, RxIdle DEF WriteStore
<1>9. CASE WriteHead        BY <1>9, RxIdle DEF WriteHead
<1>10. CASE WriteCount      BY <1>10, RxIdle DEF WriteCount
<1>11. CASE WriteKick       BY <1>11, RxIdle DEF WriteKick
<1>12. CASE DispatchPir     BY <1>12, RxIdle DEF DispatchPir
<1>13. CASE DispatchTx      BY <1>13, <1>0, RxIdle DEF DispatchTx
<1>14. CASE DispatchTest    BY <1>14, <1>0, RxIdle DEF DispatchTest
<1>15. CASE DispatchLoad    BY <1>15, RxIdle DEF DispatchLoad
<1>16. CASE DispatchTail    BY <1>16, RxIdle DEF DispatchTail
<1>17. CASE DispatchCount   BY <1>17, RxIdle DEF DispatchCount
<1>18. CASE DispatchSend    BY <1>18, <1>0, RxIdle DEF DispatchSend
<1>19. CASE FlushRing       BY <1>19, RxIdle DEF FlushRing
<1>20. CASE FlushShift      BY <1>20, RxIdle DEF FlushShift
<1>21. CASE FlushReturn     BY <1>21, RxIdle DEF FlushReturn
<1>22. CASE EnableGie       BY <1>22, RxIdle DEF EnableGie
<1>23. CASE AppFlush        BY <1>23, RxIdle DEF AppFlush
<1>24. CASE \E n \in 1 .. MaxLen : AppWrite(n)  BY <1>24, RxIdle DEF AppWrite
<1>25. CASE \E n \in 1 .. MaxLen : AppRead(n)   BY <1>25, RxIdle DEF AppRead
<1>26. CASE DispatchRx \/ DispatchRxTest \/ DispatchRxHead \/ DispatchRxCount
  <2>1. rxOut' = rxOut
    BY <1>26 DEF DispatchRx, DispatchRxTest, DispatchRxHead, DispatchRxCount
  <2>. QED BY <1>26, <2>1, DispatchRxOrder
<1>27. CASE Read            BY <1>27, ReadRxOrder
<1>. QED
  BY <1>1, <1>2, <1>3, <1>4, <1>5, <1>6, <1>7, <1>8, <1>9, <1>10, <1>11, <1>12, <1>13,
     <1>14, <1>15, <1>16, <1>17, <1>18, <1>19, <1>20, <1>21, <1>22, <1>23, <1>24,
     <1>25, <1>26, <1>27
  DEF MainLine, Program, Initialise, Write, Dispatch, Flush, App

(* The service routine stores behind what waits, also when it comes inside *)
(* a read: that one has its byte, or has moved the tail, or has not yet    *)
(* lowered the count, which only makes the ring look fuller than it is.    *)
LEMMA IsrRxOrder == ASSUME Regime, IInv, RxOrder, Isr PROVE RxOrder'
<1>1. /\ IsrRx /\ gie /\ UNCHANGED <<pc, byte, rxIn, rxLast, rxTail>>
  BY IsrRxStep DEF Isr, Pending, control, IInv
<1>2. pc \notin {"dRxTest", "dRxHead", "dRxCount"}
  BY <1>1 DEF IInv, CtlInv, DispatchPcs
<1>3. /\ rcreg \in Seq(Nat) /\ rxIn \in Nat /\ rxCount \in 0 .. SZ
      /\ RxFirst \in 0 .. SZ - 1
      /\ \A j \in 1 .. Len(rcreg) : rcreg[j] \in Nat
  BY RxRingFacts
<1>4. /\ RxFirst' = RxFirst /\ RxNext = RxStored /\ RxNext' = RxStored' /\ ~InHand'
      /\ RxStored \in Nat /\ RxStored <= rxCount
  <2>1. pc \in {"rTail", "rCount"} => rxCount > 0
    BY DEF IInv, CtlInv
  <2>. QED BY <1>1, <1>2, <1>3, <2>1, SizeType DEF RxFirst, RxStored, RxNext, InHand
<1>5. CASE ~RCIF
  <2>1. UNCHANGED <<rcreg, rxBuf, rxHead, rxTail, rxCount>>
    BY <1>1, <1>5 DEF IsrRx, rxRing
  <2>2. UNCHANGED <<RxFirst, RxStored, RxNext>>
    BY <1>1, <2>1 DEF RxFirst, RxStored, RxNext
  <2>. QED BY <1>1, <1>4, <2>1, <2>2, RxSame DEF RxView
<1>6. CASE rcreg # << >> /\ OnRx(Head(rcreg)) /\ rcreg' = Tail(rcreg)
  <2>1. /\ Head(rcreg) \in Nat /\ Above(Head(rcreg)) /\ Head(rcreg) <= rxIn
        /\ \A j \in 1 .. Len(rcreg') :
             /\ rcreg'[j] \in Nat /\ Above(rcreg'[j]) /\ rcreg'[j] <= rxIn
             /\ Head(rcreg) < rcreg'[j]
             /\ \A i \in 1 .. j - 1 : rcreg'[i] < rcreg'[j]
    BY <1>1, <1>6, LatchedStep
  <2>2. CASE rxCount < SZ
    <3>1. /\ rxBuf' = [rxBuf EXCEPT ![rxHead] = Head(rcreg)]
          /\ rxHead' = Succ(rxHead) /\ rxCount' = Inc(rxCount)
      BY <1>3, <1>6, <2>2, SizeType DEF OnRx
    <3>2. rxCount' = rxCount + 1
      BY <1>3, <2>2, <3>1, CountUp
    <3>3. RxStored < SZ /\ RxStored' = RxStored + 1 /\ RxStored \in 0 .. SZ - 1
      BY <1>1, <1>2, <1>3, <1>4, <2>2, <3>2, SizeType DEF RxStored
    <3>4. rxHead' = Idx(RxFirst', RxNext')
      BY <1>3, <1>4, <3>1, <3>3, RingPlace DEF RxOrder
    <3>5. rxHead = Idx(RxFirst, RxStored)
      BY <1>4 DEF RxOrder
    <3>. QED BY <1>1, <1>4, <2>1, <3>1, <3>3, <3>4, <3>5, StoreRx DEF RxOrder
  <2>3. CASE rxCount >= SZ
    <3>1. UNCHANGED <<rxBuf, rxHead, rxTail, rxCount>>
      BY <1>3, <1>6, <2>3, SizeType DEF OnRx, rxRing
    <3>2. RxStored' = RxStored
      BY <1>1, <3>1 DEF RxStored
    <3>3. rxHead' = Idx(RxFirst', RxNext') /\ rxHead = Idx(RxFirst, RxStored)
      BY <1>4, <3>1, <3>2 DEF RxOrder
    <3>. QED BY <1>1, <1>4, <2>1, <3>1, <3>2, <3>3, StoreRx DEF RxOrder
  <2>. QED BY <1>3, <2>2, <2>3, SizeType
<1>. QED BY <1>1, <1>5, <1>6 DEF IsrRx, RCIF

LEMMA ArriveRxOrder == ASSUME IInv, RxOrder, Arrive PROVE RxOrder'
<1>1. UNCHANGED <<pc, byte, rxBuf, rxHead, rxTail, rxCount, rxLast>>
  BY DEF Arrive, control, rxRing, rxHist
<1>2. UNCHANGED <<RxFirst, RxStored, RxNext, InHand>>
  BY <1>1 DEF RxFirst, RxStored, RxNext, InHand
<1>3. /\ rcreg \in Seq(Nat) /\ rxIn \in Nat /\ rxLast \in Nat /\ byte \in Nat
      /\ \A j \in 1 .. Len(rcreg) : rcreg[j] \in Nat
      /\ \A n \in 0 .. SZ - 1 : RxByte(n) \in Nat
  BY RxRingFacts
<1>4. CASE UNCHANGED <<rcreg, rxIn>>
  BY <1>1, <1>2, <1>4, RxSame DEF RxView
<1>5. CASE rcreg' = Append(rcreg, rxIn + 1) /\ rxIn' = rxIn + 1
  <2>1. /\ Len(rcreg') = Len(rcreg) + 1 /\ Len(rcreg) \in Nat
        /\ rcreg'[Len(rcreg) + 1] = rxIn + 1
        /\ \A j \in 1 .. Len(rcreg) : rcreg'[j] = rcreg[j]
    BY <1>3, <1>5, AppendProperties
  <2>2. Sorted' /\ \A x : Above(x) => Above(x)'
    BY <1>1, <1>2, AboveSame DEF RxOrder
  <2>3. rxHead' = Idx(RxFirst, RxNext)'
    BY <1>1, <1>2 DEF RxOrder, Idx
  <2>4. Above(rxIn + 1) /\ Above(rxIn' + 1)
    <3>1. Above(rxIn + 1)
      BY DEF RxOrder
    <3>. QED BY <1>3, <1>5, <3>1 DEF Above
  <2>5. Above(rxIn + 1)'
    BY <2>2, <2>4 DEF Above
  <2>6. ASSUME NEW j \in 1 .. Len(rcreg')
        PROVE  /\ Above(rcreg[j])' /\ rcreg'[j] <= rxIn'
               /\ \A i \in 1 .. j - 1 : rcreg'[i] < rcreg'[j]
    <3>1. CASE j \in 1 .. Len(rcreg)
      <4>1. /\ Above(rcreg[j]) /\ rcreg[j] <= rxIn
            /\ \A i \in 1 .. j - 1 : rcreg[i] < rcreg[j]
        BY <3>1 DEF RxOrder
      <4>2. Above(rcreg[j])'
        BY <2>1, <2>2, <3>1, <4>1 DEF Above
      <4>3. \A i \in 1 .. j - 1 : i \in 1 .. Len(rcreg)
        BY <2>1, <3>1
      <4>. QED BY <1>3, <1>5, <2>1, <3>1, <4>1, <4>2, <4>3
    <3>2. CASE j = Len(rcreg) + 1
      <4>1. Above(rcreg[j])'
        BY <2>1, <2>2, <2>4, <3>2 DEF Above
      <4>2. \A i \in 1 .. j - 1 : i \in 1 .. Len(rcreg) /\ rcreg[i] <= rxIn
        BY <2>1, <3>2 DEF RxOrder
      <4>3. \A i \in 1 .. j - 1 : rcreg'[i] < rcreg'[j]
        BY <1>3, <2>1, <3>2, <4>2
      <4>. QED BY <1>3, <1>5, <2>1, <3>2, <4>1, <4>3
    <3>. QED BY <2>1, <3>1, <3>2
  <2>7. InHand' => /\ Above(byte)' /\ byte' <= rxIn'
                   /\ \A j \in 1 .. Len(rcreg') : byte' < rcreg'[j]
    <3>1. SUFFICES ASSUME InHand
                   PROVE  /\ Above(byte)' /\ byte' <= rxIn'
                          /\ \A j \in 1 .. Len(rcreg') : byte' < rcreg'[j]
      BY <1>2
    <3>2. /\ Above(byte) /\ byte <= rxIn
          /\ \A j \in 1 .. Len(rcreg) : byte < rcreg[j]
      BY <3>1 DEF RxOrder
    <3>3. Above(byte)'
      BY <1>1, <2>2, <3>2 DEF Above
    <3>4. \A j \in 1 .. Len(rcreg') : byte' < rcreg'[j]
      BY <1>1, <1>3, <2>1, <3>2
    <3>. QED BY <1>1, <1>3, <1>5, <3>2, <3>3, <3>4
  <2>. QED BY <2>2, <2>3, <2>5, <2>6, <2>7 DEF RxOrder
<1>. QED BY <1>4, <1>5 DEF Arrive

LEMMA StepRxOrder ==
  ASSUME Regime, IInv, RxOrder, [Next]_vars
  PROVE  RxOrder' /\ (rxOut' # rxOut => rxLast' > rxLast)
<1>1. CASE Preemptible(MainLine) \/ Preemptible(Program)
  BY <1>1, MainRxOrder DEF Preemptible
<1>2. CASE Isr
  <2>1. rxOut' = rxOut
    BY <1>2 DEF Isr
  <2>. QED BY <1>2, <2>1, IsrRxOrder
<1>3. CASE Arrive
  <2>1. rxOut' = rxOut
    BY <1>3 DEF Arrive, rxHist
  <2>. QED BY <1>3, <2>1, ArriveRxOrder
<1>4. CASE ShiftOut \/ UNCHANGED vars
  <2>1. UNCHANGED <<pc, byte, rcreg, rxIn, rxBuf, rxHead, rxTail, rxCount, rxLast, rxOut>>
    BY <1>4 DEF ShiftOut, vars, control, rxLine, rxRing, rxHist
  <2>2. UNCHANGED <<RxFirst, RxStored, RxNext, InHand>>
    BY <2>1 DEF RxFirst, RxStored, RxNext, InHand
  <2>. QED BY <2>1, <2>2, RxSame DEF RxView
<1>. QED BY <1>1, <1>2, <1>3, <1>4 DEF Next

(* epic_serial_read hands bytes over in the order they arrived and none    *)
(* twice, for every ring size, whenever the handler runs inside a read and *)
(* however many bytes are dropped on the way.                              *)
THEOREM SerialRxInOrder == ASSUME Regime PROVE Spec => RxInOrder
<1>1. Init => RxOrder
  BY SizeType DEF Init, RxOrder, Sorted, Above, RxFirst, RxStored, RxNext, InHand, Idx
<1>2. IInv /\ RxOrder /\ [Next]_vars
        => RxOrder' /\ [rxOut' # rxOut => rxLast' > rxLast]_<<rxOut, rxLast>>
  BY StepRxOrder
<1>. QED BY <1>1, <1>2, SpecInv, PTL DEF Spec, RxInOrder

=============================================================================
