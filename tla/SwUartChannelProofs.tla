------------------------- MODULE SwUartChannelProofs -------------------------
(***************************************************************************)
(* The software UART as a byte channel.  The line carries a frame as a     *)
(* sequence of symbols: the start bit is 0, the data bits are 1 to Bits,   *)
(* the stop bit is Bits + 1.  The argument places every sample of the      *)
(* receiver inside the symbol it is meant for, however late the two        *)
(* service routines are, and follows a byte from the ring through the      *)
(* shift register and over the pin into the receiver's register.           *)
(***************************************************************************)
EXTENDS SwUartProofs

(* A margin the notes of the library do not name: a call of Write that     *)
(* finds a byte being shifted is over before the match after the one that  *)
(* may be pending when it begins.                                          *)
CallFits == CallTime + Latency < Bit

One(b) == IF b THEN 1 ELSE 0

-----------------------------------------------------------------------------
(* The transmitter's half of the line.                                     *)
Arming == pc \in {"aTime", "aMode"}
Loaded == pc \in {"aCount", "aIndex", "aState", "aTime", "aMode"}
Fresh  == Arming \/ ((Writing \/ Starting) /\ tx.state = "IDLE")

(* The next match begins a start bit: what is on the line is still high.   *)
Poised == Armed /\ tx.state = "DATA" /\ tx.idx = 0 /\ ~ccp2.flag

(* The symbol the armed match begins or, once its flag is up, has begun,   *)
(* and the symbol on the line.                                             *)
Begins == IF tx.state = "IDLE" THEN Bits + 1 ELSE tx.idx
Symbol == IF Poised THEN Bits + 1 ELSE IF ccp2.flag THEN Begins ELSE Begins - 1

(* The level the next match gives the pin, and the data bits that follow   *)
(* the symbol on the line, as a number.                                    *)
NextPin == IF ccp2.mode = "set" THEN 1 ELSE 0
After   == IF tx.state = "IDLE" \/ ccp2.flag THEN tx.shift ELSE NextPin + 2 * tx.shift

Shape ==
  /\ ~Armed => pin = 1 /\ tx.state # "STOP" /\ (tx.state = "DATA" => Arming)
  /\ Arming => ~Armed /\ tx.state = "DATA" /\ tx.idx = 0
  /\ tx.state = "STOP" => tx.idx = Bits
  /\ Armed /\ tx.state = "IDLE" => ccp2.mode = "set"
  /\ Armed /\ tx.state = "DATA" /\ tx.idx = 0 => ccp2.mode = "clear"
  /\ Armed /\ ccp2.flag => pin = NextPin
  /\ Poised => pin = 1
  /\ Armed /\ Symbol = 0 => pin = 0

(* Every symbol lasts one bit time.                                        *)
Pace == Armed =>
  /\ ccp2.flag => held = Over
  /\ ~ccp2.flag => Due >= 1
  /\ ~ccp2.flag /\ (~Poised \/ rx.state = "STOP") => held + Due = Bit

(* A call of Write meets a byte whose last bit it cannot outlast, or a     *)
(* line at rest.                                                           *)
RxRest == rx.state = "IDLE" /\ ~ccp1.flag
Gap ==
  /\ Writing /\ tx.state = "DATA" /\ ccp2.flag => Over + CallTime < Bit + spent
  /\ Writing /\ tx.state = "STOP" => ~ccp2.flag /\ CallTime < Due + spent
  /\ Fresh => ~Armed /\ ~ccp2.flag /\ RxRest /\ ~brk

(* The bytes not yet taken out of the ring, and those taken out.           *)
Waiting == tx.count + One(pc = "wCount") - One(pc = "aCount")
Sent    == txIn - Waiting
Place(n) == IF n < SZ THEN n ELSE n - SZ

Outbox ==
  /\ Waiting \in Nat
  /\ tx.head = Place(tx.tail + Waiting)
  /\ \A i \in Places : i < Waiting => tx.buf[Place(tx.tail + i)] = Sent + 1 + i
  /\ pc = "aTail" => tx.shift = tx.buf[tx.tail]
  /\ Loaded \/ Poised => tx.shift = Sent

-----------------------------------------------------------------------------
(* The receiver's half.  A sample is meant for a symbol: the start bit     *)
(* when the edge is confirmed, then the data bits and the stop bit.        *)
Due1   == Ahead(ccp1.reg, t)
Over1  == Ahead(t, ccp1.reg)
Target == IF rx.state = "CONFIRM" THEN 0 ELSE rx.idx + 1

Wired ==
  /\ ccp1.ie /\ ccp1.cb /\ ccp2.cb /\ ccp1.mode # "off"
  /\ ccp1.flag => Over1 <= wait
  /\ rx.state = "IDLE" <=> ccp1.mode = "capture"
  /\ rx.state = "STOP" => rx.idx = Bits
  /\ cameLast = came

(* A frame: a sample that is due lies in its symbol, late as it may be, or *)
(* in the one to come.                                                     *)
Tracking == Armed /\ rx.state # "IDLE" =>
  \/ /\ ccp1.flag /\ Target = Symbol
     /\ Over1 <= held /\ held + Latency < Bit + Over1
  \/ /\ ~ccp1.flag /\ Due1 >= 1 /\ Target = Symbol
     /\ held + Due1 + Latency < Bit
  \/ /\ ~ccp1.flag /\ Due1 >= 1 /\ Target = Symbol + 1
     /\ Bit <= held + Due1 /\ held + Due1 + Latency < 2 * Bit

(* The receiver has seen the edge of every frame.                          *)
Followed == Armed /\ ~Poised /\ rx.state = "IDLE" =>
  ccp1.flag /\ ccp2.flag /\ Symbol = 0 /\ Over1 = held

(* A break: the receiver is done with it before it is over.                *)
Broken == brk =>
  /\ ~Armed /\ tx.state = "IDLE" /\ pc \notin Busy
  /\ rx.state = "IDLE" /\ ccp1.flag => Over1 = held
  /\ rx.state # "IDLE" =>
       \/ ccp1.flag /\ Over1 <= held /\ held + Latency < (Target + 1) * Bit + Over1
       \/ ~ccp1.flag /\ Due1 >= 1 /\ held + Due1 + Latency < (Target + 1) * Bit

(* The bits received are the low ones of the byte, at the top of the       *)
(* register; the others are on the line or will be.                        *)
Rest  == IF Target = Symbol THEN pin + 2 * After ELSE After
Weight(k) == 2 ^ (Bits - k)
Split == \E low \in Nat, w \in Nat :
  /\ low < w /\ w * Weight(rx.idx) = 2 * Top
  /\ rx.shift = low * Weight(rx.idx)
  /\ came + 1 = low + w * Rest

(* The stop bit of the byte before the one taken out has yet to be seen.   *)
Lagging == rx.state = "STOP" /\ ~brk /\ (Poised \/ ~Armed)

Content ==
  /\ rx.state = "IDLE" /\ ccp1.flag /\ Armed => tx.shift = came + 1 /\ ~Poised
  /\ rx.state = "CONFIRM" /\ Armed => After = came + 1
  /\ rx.state = "CONFIRM" => ~fast
  /\ rx.state = "DATA" => Armed \/ brk
  /\ rx.state = "DATA" /\ Armed => Split
  /\ rx.state = "STOP" /\ ~brk => rx.shift = came + 1
  /\ Sent = came + One(Loaded \/ Armed) + One(Lagging)

LineInv == /\ Shape /\ Pace /\ Gap /\ Outbox
           /\ Wired /\ Tracking /\ Followed /\ Broken /\ Content

-----------------------------------------------------------------------------
(* The first step of DeInit silences the receiver: of the samples due, at  *)
(* most one is still taken, and a byte it completes was whole before.      *)
Leaving ==
  /\ ccp1.cb /\ ccp1.mode # "off" /\ (rx.state = "IDLE" <=> ccp1.mode = "capture")
  /\ cameLast = came
  /\ rx.state = "DATA" /\ ccp1.flag => Over1 <= spent
  /\ rx.state = "STOP" => \/ rx.shift = came + 1 /\ came < txIn
                          \/ ~ccp1.flag /\ CallTime < Due1 + spent

SettingUp ==
  /\ tx = Handle /\ rx = Handle /\ pin = 1
  /\ txIn = 0 /\ came = 0 /\ cameLast = 0
  /\ pc # "iRx" => ccp1.mode = "capture" /\ ccp1.ie /\ ccp1.cb
  /\ pc \in {"iGie", "iChan"} => ccp2.cb

CInv == /\ TInv /\ Receiver
        /\ Live => LineInv
        /\ pc = "dDrop1" => Leaving
        /\ pc \in InInit => SettingUp

-----------------------------------------------------------------------------
(* Counts of Timer1.                                                       *)
LEMMA Margins ==
  ASSUME InMargins
  PROVE  /\ Half \in Nat /\ Overhead \in Nat /\ Overhead <= Half /\ 2 * Half <= Bit
         /\ Latency < Half /\ Half + 2 * Latency < Bit + Overhead /\ Bit + Half < Wrap
BY SwUartAssumption DEF InMargins, Half, Overhead

LEMMA AheadSum ==
  ASSUME InMargins, NEW r \in 0 .. Wrap - 1, NEW x \in 0 .. Wrap - 1, NEW d \in 0 .. Wrap - 1
  PROVE  /\ Later(x, d + Wrap) = Later(x, d)
         /\ Ahead(x, r) <= d => Ahead(Later(r, d), x) = d - Ahead(x, r)
         /\ Ahead(Later(x, d), x) = d
<1>1. Wrap \in Nat \ {0}
  BY Times
<1>2. \A y \in 0 .. Wrap - 1 : Later(y, d) = IF y + d < Wrap THEN y + d ELSE y + d - Wrap
  BY <1>1 DEF Later
<1>3. Later(x, d + Wrap) = Later(x, d)
  BY <1>1 DEF Later
<1> QED BY <1>1, <1>2, <1>3 DEF Ahead

LEMMA AheadStep ==
  ASSUME InMargins, NEW r \in 0 .. Wrap - 1, NEW x \in 0 .. Wrap - 1
  PROVE  /\ Ahead(r, x) = 1 => Later(x, 1) = r
         /\ Ahead(r, x) >= 1 => Ahead(r, Later(x, 1)) = Ahead(r, x) - 1
         /\ Ahead(x, r) + 1 < Wrap =>
              Later(x, 1) # r /\ Ahead(Later(x, 1), r) = Ahead(x, r) + 1
         /\ Later(x, 1) = r => Ahead(r, x) = 1 /\ Ahead(Later(x, 1), r) = 0
<1>1. Later(x, 1) = IF x + 1 < Wrap THEN x + 1 ELSE 0
  BY Times DEF Later
<1>2. Wrap > 1 /\ Wrap \in Nat
  BY Times
<1> QED BY <1>1, <1>2 DEF Ahead

-----------------------------------------------------------------------------
(* Weights of bits.                                                        *)
LEMMA PowerSteps ==
  /\ 2 ^ 0 = 1
  /\ \A n \in Nat : 2 ^ n \in Nat /\ 2 ^ (n + 1) = 2 * 2 ^ n
<1>1. 2 ^ 0 = 1
  <2>1. IsFiniteSet({}) /\ Cardinality({}) = 0
    BY FS_EmptySet
  <2>2. Cardinality(SUBSET {}) = 2 ^ 0
    BY <2>1, FS_SUBSET
  <2>3. SUBSET {} = {{}}
    OBVIOUS
  <2>4. Cardinality({{}}) = 1
    BY FS_Singleton
  <2> QED BY <2>2, <2>3, <2>4
<1>2. ASSUME NEW n \in Nat
      PROVE  2 ^ (n + 1) = 2 * 2 ^ n
  <2> DEFINE A == SUBSET (1 .. n)
             B == {S \cup {n + 1} : S \in A}
  <2>1. IsFiniteSet(1 .. n) /\ Cardinality(1 .. n) = n
        /\ IsFiniteSet(1 .. n + 1) /\ Cardinality(1 .. n + 1) = n + 1
    BY FS_Interval
  <2>2. IsFiniteSet(A) /\ Cardinality(A) = 2 ^ n
        /\ IsFiniteSet(SUBSET (1 .. n + 1)) /\ Cardinality(SUBSET (1 .. n + 1)) = 2 ^ (n + 1)
    BY <2>1, FS_SUBSET
  <2>3. n + 1 \notin 1 .. n /\ 1 .. n + 1 = (1 .. n) \cup {n + 1}
    OBVIOUS
  <2>4. SUBSET (1 .. n + 1) = A \cup B
    <3>1. ASSUME NEW S \in SUBSET (1 .. n + 1) PROVE S \in A \cup B
      <4>1. CASE n + 1 \in S
        <5>1. S \ {n + 1} \in A /\ S = (S \ {n + 1}) \cup {n + 1}
          BY <2>3, <4>1
        <5> QED BY <5>1
      <4>2. CASE n + 1 \notin S
        BY <2>3, <4>2
      <4> QED BY <4>1, <4>2
    <3>2. ASSUME NEW S \in A \cup B PROVE S \in SUBSET (1 .. n + 1)
      BY <2>3
    <3> QED BY <3>1, <3>2
  <2>5. A \cap B = {}
    BY <2>3
  <2>6. IsFiniteSet(B) /\ Cardinality(B) = Cardinality(A)
    <3> DEFINE f == [S \in A |-> S \cup {n + 1}]
    <3>1. f \in Bijection(A, B)
      <4>1. f \in [A -> B] /\ \A T \in B : \E S \in A : f[S] = T
        OBVIOUS
      <4>2. \A S, T \in A : f[S] = f[T] => S = T
        BY <2>3
      <4> HIDE DEF A, B, f
      <4>3. f \in Surjection(A, B)
        BY <4>1 DEF Surjection
      <4>4. f \in Injection(A, B)
        BY <4>1, <4>2 DEF Injection, IsInjective
      <4> QED BY <4>3, <4>4 DEF Bijection
    <3> QED BY <2>2, <3>1, FS_Bijection DEF ExistsBijection
  <2>7. Cardinality(A \cup B) = Cardinality(A) + Cardinality(B)
    <3>1. Cardinality(A \cap B) = 0 /\ Cardinality(A) \in Nat /\ Cardinality(B) \in Nat
      BY <2>2, <2>5, <2>6, FS_EmptySet, FS_CardinalityType
    <3> HIDE DEF A, B
    <3>2. Cardinality(A \cup B) = Cardinality(A) + Cardinality(B) - Cardinality(A \cap B)
      BY <2>2, <2>6, FS_Union
    <3> QED BY <3>1, <3>2
  <2> HIDE DEF A, B
  <2>8. Cardinality(A) \in Nat
    BY <2>2, FS_CardinalityType
  <2>9. \A c \in Nat : c + c = 2 * c
    OBVIOUS
  <2>10. 2 ^ (n + 1) = Cardinality(A) + Cardinality(A)
    BY <2>2, <2>4, <2>6, <2>7, Zenon
  <2> QED BY <2>2, <2>8, <2>9, <2>10, Zenon
<1> QED BY <1>1, <1>2, Powers

LEMMA Weights ==
  /\ Weight(0) = 2 * Top /\ Weight(Bits) = 1 /\ Top \in Nat
  /\ \A k \in 0 .. Bits - 1 :
       Weight(k) \in Nat /\ Weight(k + 1) \in Nat /\ Weight(k) = 2 * Weight(k + 1)
<1>1. Bits \in Nat \ {0} /\ Bits - 1 \in Nat /\ Top \in Nat
  BY Sizes
<1>2. Weight(0) = 2 * Top
  <2>1. Bits - 0 = (Bits - 1) + 1
    BY <1>1
  <2> QED BY <1>1, <2>1, PowerSteps, Zenon DEF Weight, Top
<1>3. Weight(Bits) = 1
  <2>1. Bits - Bits = 0
    BY <1>1
  <2> QED BY <2>1, PowerSteps, Zenon DEF Weight
<1>4. ASSUME NEW k \in 0 .. Bits - 1
      PROVE  Weight(k) \in Nat /\ Weight(k + 1) \in Nat /\ Weight(k) = 2 * Weight(k + 1)
  <2>1. Bits - (k + 1) \in Nat /\ Bits - k = (Bits - (k + 1)) + 1 /\ Bits - k \in Nat
    BY <1>1
  <2> QED BY <2>1, PowerSteps, Zenon DEF Weight
<1> QED BY <1>1, <1>2, <1>3, <1>4

-----------------------------------------------------------------------------
(* What the proofs below need to know of the types.                        *)
LEMMA LineTypes ==
  ASSUME InMargins, TInv, Receiver
  PROVE  /\ t \in 0 .. Wrap - 1 /\ ccp1.reg \in 0 .. Wrap - 1 /\ ccp2.reg \in 0 .. Wrap - 1
         /\ Due \in Nat /\ Over \in Nat /\ Due1 \in Nat /\ Over1 \in Nat
         /\ held \in Nat /\ held <= Frame /\ wait \in 0 .. Latency /\ spent \in 0 .. CallTime
         /\ pin \in {0, 1} /\ Level \in {0, 1} /\ brk \in BOOLEAN /\ fast \in BOOLEAN
         /\ ccp1.flag \in BOOLEAN /\ ccp2.flag \in BOOLEAN
         /\ ccp1.mode \in Names1 /\ ccp2.mode \in Names2
<1>1. /\ t \in 0 .. Wrap - 1 /\ held \in Nat /\ held <= Frame /\ wait \in 0 .. Latency
      /\ spent \in 0 .. CallTime /\ pin \in {0, 1} /\ brk \in BOOLEAN /\ fast \in BOOLEAN
  BY Times DEF TInv, Clocks
<1>2. ccp1.reg \in 0 .. Wrap - 1 /\ ccp2.reg \in 0 .. Wrap - 1
  BY CcpFields DEF TInv
<1>3. /\ ccp1.flag \in BOOLEAN /\ ccp2.flag \in BOOLEAN
      /\ ccp1.mode \in Names1 /\ ccp2.mode \in Names2
  BY DEF TInv, Ccps, CcpType
<1>4. Due \in Nat /\ Over \in Nat /\ Due1 \in Nat /\ Over1 \in Nat
  BY <1>1, <1>2, AheadTick DEF Due, Over, Due1, Over1
<1>5. Level \in {0, 1}
  BY <1>1 DEF Level
<1> QED BY <1>1, <1>2, <1>3, <1>4, <1>5

LEMMA TxTypes ==
  ASSUME InMargins, TInv
  PROVE  /\ tx.state \in TxNames /\ tx.shift \in Bytes /\ tx.shift \in Nat
         /\ tx.idx \in 0 .. Bits /\ tx.buf \in [Places -> Bytes]
         /\ tx.head \in Places /\ tx.tail \in Places /\ tx.count \in Levels /\ tx.count \in Nat
         /\ tx.state = "DATA" => tx.idx < Bits
         /\ txIn \in Nat /\ txIn <= MaxTx
<1>1. txIn \in Nat /\ txIn <= MaxTx
  BY Sizes DEF TInv, Calls
<1> QED BY <1>1, SenderFields, Sizes DEF Bytes, Levels, TInv, Sender

LEMMA RxTypes ==
  ASSUME Receiver
  PROVE  /\ rx.state \in RxNames /\ rx.shift \in Bytes /\ rx.shift \in Nat
         /\ rx.idx \in 0 .. Bits /\ rx.buf \in [Places -> Bytes]
         /\ rx.head \in Places /\ rx.tail \in Places /\ rx.count \in Levels /\ rx.count \in Nat
         /\ rx.state = "DATA" => rx.idx < Bits
         /\ came \in Nat /\ cameLast \in Bytes
<1>1. rx \in HandleType(RxNames)
  BY DEF Receiver
<1> QED BY <1>1, Fields, Sizes DEF Bytes, Levels, Receiver

-----------------------------------------------------------------------------
(* What the service routine does to the transmitter, field by field.       *)
TxNone  == ~ccp2.flag /\ UNCHANGED <<tx, ccp2.mode, ccp2.reg>>
TxStops == /\ ccp2.flag /\ tx.state = "IDLE" /\ tx.count = 0
           /\ UNCHANGED <<tx, ccp2.reg>> /\ ccp2'.mode = "off"
TxNext  == ccp2.flag /\ ccp2'.reg = Later(ccp2.reg, Bit)
TxTakes == /\ TxNext /\ tx.state = "IDLE" /\ tx.count > 0
           /\ tx'.state = "DATA" /\ tx'.idx = 0 /\ tx'.shift = tx.buf[tx.tail]
           /\ tx'.tail = Succ(tx.tail) /\ tx'.count = tx.count - 1
           /\ UNCHANGED <<tx.buf, tx.head>> /\ ccp2'.mode = "clear"
TxShifts == /\ TxNext /\ tx.state = "DATA"
            /\ tx'.shift = tx.shift \div 2 /\ tx'.idx = tx.idx + 1
            /\ tx'.state = IF tx.idx + 1 >= Bits THEN "STOP" ELSE "DATA"
            /\ UNCHANGED <<tx.buf, tx.head, tx.tail, tx.count>>
            /\ ccp2'.mode = IF tx.shift % 2 = 1 THEN "set" ELSE "clear"
TxEnds   == /\ TxNext /\ tx.state = "STOP" /\ tx'.state = "IDLE"
            /\ UNCHANGED <<tx.shift, tx.idx, tx.buf, tx.head, tx.tail, tx.count>>
            /\ ccp2'.mode = "set"

LEMMA IsrTxEffect ==
  ASSUME InMargins, TInv, Isr, chan, ccp2.cb
  PROVE  /\ UNCHANGED <<ccp2.ie, ccp2.cb>> /\ ~ccp2'.flag
         /\ TxNone \/ TxStops \/ TxTakes \/ TxShifts \/ TxEnds
<1> DEFINE R == [mode : Names2, reg : 0 .. Wrap - 1, flag : BOOLEAN, ie : BOOLEAN,
                 cb : BOOLEAN]
           H == [state : TxNames, shift : Bytes, idx : 0 .. Bits, buf : [Places -> Bytes],
                 head : Places, tail : Places, count : Levels]
<1>1. ccp2 \in R /\ tx \in H
  BY HandleIs DEF TInv, Ccps, CcpType, Sender
<1>2. IsrTx
  BY DEF Isr
<1>3. CASE ~ccp2.flag
  BY <1>1, <1>2, <1>3 DEF IsrTx, TxNone
<1>4. CASE ccp2.flag /\ TxIdleEvent
  <2>1. CASE tx.count = 0 /\ ccp2' = [ccp2 EXCEPT !.flag = FALSE, !.mode = "off"] /\ tx' = tx
    BY <1>1, <1>4, <2>1 DEF TxIdleEvent, TxStops
  <2>2. CASE tx.count > 0 /\ ArmNext(TxPop, "clear")
    <3>1. tx.count \in Levels /\ Dec(tx.count) = tx.count - 1
      BY <2>2, TxTypes, Indices
    <3>2. /\ ccp2' = [ccp2 EXCEPT !.flag = FALSE, !.reg = Later(ccp2.reg, Bit), !.mode = "clear"]
          /\ tx' = [tx EXCEPT !.shift = tx.buf[tx.tail], !.tail = Succ(tx.tail),
                              !.count = Dec(tx.count), !.idx = 0, !.state = "DATA"]
      BY <2>2 DEF ArmNext, TxPop
    <3>3. UNCHANGED <<ccp2.ie, ccp2.cb>> /\ ~ccp2'.flag /\ ccp2'.mode = "clear" /\ TxNext
      BY <1>1, <1>4, <3>2 DEF TxNext
    <3>4. /\ tx'.state = "DATA" /\ tx'.idx = 0 /\ tx'.shift = tx.buf[tx.tail]
          /\ tx'.tail = Succ(tx.tail) /\ tx'.count = Dec(tx.count)
          /\ UNCHANGED <<tx.buf, tx.head>>
      BY <1>1, <3>2
    <3> QED BY <1>4, <2>2, <3>1, <3>3, <3>4 DEF TxTakes, TxIdleEvent
  <2> QED BY <1>4, <2>1, <2>2 DEF TxIdleEvent
<1>5. CASE ccp2.flag /\ TxDataEvent
  <2> DEFINE s == IF tx.idx + 1 >= Bits THEN "STOP" ELSE "DATA"
             h == tx.shift \div 2
             k == tx.idx + 1
             m == IF tx.shift % 2 = 1 THEN "set" ELSE "clear"
  <2>1. /\ ccp2' = [ccp2 EXCEPT !.flag = FALSE, !.reg = Later(ccp2.reg, Bit), !.mode = m]
        /\ tx' = [tx EXCEPT !.shift = h, !.idx = k, !.state = s]
        /\ tx.state = "DATA"
    BY <1>5 DEF TxDataEvent, ShiftOut, ArmNext
  <2> HIDE DEF s, h, k, m
  <2>2. UNCHANGED <<ccp2.ie, ccp2.cb>> /\ ~ccp2'.flag /\ ccp2'.mode = m /\ TxNext
    BY <1>1, <1>5, <2>1 DEF TxNext
  <2>3. /\ tx'.shift = h /\ tx'.idx = k /\ tx'.state = s
        /\ UNCHANGED <<tx.buf, tx.head, tx.tail, tx.count>>
    BY <1>1, <2>1
  <2> QED BY <2>1, <2>2, <2>3 DEF s, h, k, m, TxShifts
<1>6. CASE ccp2.flag /\ TxStopEvent
  <2>1. /\ ccp2' = [ccp2 EXCEPT !.flag = FALSE, !.reg = Later(ccp2.reg, Bit), !.mode = "set"]
        /\ tx' = [tx EXCEPT !.state = "IDLE"] /\ tx.state = "STOP"
    BY <1>6 DEF TxStopEvent, ArmNext
  <2>2. UNCHANGED <<ccp2.ie, ccp2.cb>> /\ ~ccp2'.flag /\ ccp2'.mode = "set" /\ TxNext
    BY <1>1, <1>6, <2>1 DEF TxNext
  <2>3. /\ tx'.state = "IDLE"
        /\ UNCHANGED <<tx.shift, tx.idx, tx.buf, tx.head, tx.tail, tx.count>>
    BY <1>1, <2>1
  <2> QED BY <2>1, <2>2, <2>3 DEF TxEnds
<1> QED BY <1>2, <1>3, <1>4, <1>5, <1>6 DEF IsrTx

(* ... and to the receiver.                                                *)
RxRing   == UNCHANGED <<rx.buf, rx.head, rx.tail, rx.count>>
RxQuiet  == UNCHANGED <<errs, came, cameLast>>
RxNone   == ~ccp1.flag /\ UNCHANGED <<rx, ccp1.mode, ccp1.reg>> /\ RxQuiet
RxIgnores == /\ ccp1.flag /\ rx.state = "IDLE" /\ fast /\ Level = 1
             /\ UNCHANGED <<rx, ccp1.mode, ccp1.reg>> /\ RxQuiet
RxStarts(r) == /\ rx'.state = "DATA" /\ rx'.shift = 0 /\ rx'.idx = 0
               /\ ccp1'.mode = "soft" /\ ccp1'.reg = r /\ RxRing /\ RxQuiet
RxTrusts  == /\ ccp1.flag /\ rx.state = "IDLE" /\ fast /\ Level = 0
             /\ RxStarts(Later(t, Bit + Half + Wrap - Overhead))
RxDoubts  == /\ ccp1.flag /\ rx.state = "IDLE" /\ ~fast
             /\ rx'.state = "CONFIRM" /\ UNCHANGED <<rx.shift, rx.idx>>
             /\ ccp1'.mode = "soft" /\ ccp1'.reg = Later(ccp1.reg, Half) /\ RxRing /\ RxQuiet
RxDenies  == /\ ccp1.flag /\ rx.state = "CONFIRM" /\ Level = 1
             /\ rx'.state = "IDLE" /\ UNCHANGED <<rx.shift, rx.idx>>
             /\ ccp1'.mode = "capture" /\ UNCHANGED ccp1.reg /\ RxRing /\ RxQuiet
RxAgrees  == /\ ccp1.flag /\ rx.state = "CONFIRM" /\ Level = 0
             /\ RxStarts(Later(ccp1.reg, Bit))
RxSamples == /\ ccp1.flag /\ rx.state = "DATA"
             /\ rx'.state = IF rx.idx + 1 < Bits THEN "DATA" ELSE "STOP"
             /\ rx'.shift = (rx.shift \div 2) + Level * Top /\ rx'.idx = rx.idx + 1
             /\ ccp1'.mode = "soft" /\ ccp1'.reg = Later(ccp1.reg, Bit) /\ RxRing /\ RxQuiet
RxEnds    == /\ ccp1.flag /\ rx.state = "STOP"
             /\ rx'.state = "IDLE" /\ UNCHANGED <<rx.shift, rx.idx, rx.tail>>
             /\ ccp1'.mode = "capture" /\ UNCHANGED ccp1.reg
             /\ came' = came + Level
             /\ cameLast' = IF Level = 1 THEN rx.shift ELSE cameLast
             /\ \/ /\ Level = 1 /\ rx.count < SZ /\ rx'.count = rx.count + 1
                   /\ rx'.buf = [rx.buf EXCEPT ![rx.head] = rx.shift]
                   /\ rx'.head = Succ(rx.head) /\ UNCHANGED errs
                \/ /\ Level = 0 \/ rx.count >= SZ
                   /\ RxRing /\ errs' = errs + 1

LEMMA IsrRxEffect ==
  ASSUME TInv, Receiver, Isr, chan, ccp1.cb
  PROVE  /\ UNCHANGED <<ccp1.ie, ccp1.cb>> /\ ~ccp1'.flag
         /\ \/ RxNone \/ RxIgnores \/ RxTrusts \/ RxDoubts \/ RxDenies \/ RxAgrees
            \/ RxSamples \/ RxEnds
<1> DEFINE R == [mode : Names1, reg : 0 .. Wrap - 1, flag : BOOLEAN, ie : BOOLEAN,
                 cb : BOOLEAN]
           H == [state : RxNames, shift : Bytes, idx : 0 .. Bits, buf : [Places -> Bytes],
                 head : Places, tail : Places, count : Levels]
<1>1. ccp1 \in R /\ rx \in H
  BY HandleIs DEF TInv, Ccps, CcpType, Receiver
<1>2. IsrRx
  BY DEF Isr
<1>3. CASE ~ccp1.flag
  BY <1>1, <1>2, <1>3 DEF IsrRx, RxNone, RxQuiet, rxHist
<1>4. ASSUME NEW r, Arm1(r)
      PROVE  UNCHANGED <<ccp1.ie, ccp1.cb>> /\ ~ccp1'.flag /\ ccp1'.mode = "soft"
             /\ ccp1'.reg = r
  BY <1>1, <1>4 DEF Arm1
<1>5. Listen => /\ UNCHANGED <<ccp1.ie, ccp1.cb>> /\ ~ccp1'.flag /\ ccp1'.mode = "capture"
                /\ UNCHANGED ccp1.reg
  BY <1>1 DEF Listen
<1>6. ASSUME rx' = StartByte
      PROVE  rx'.state = "DATA" /\ rx'.shift = 0 /\ rx'.idx = 0 /\ RxRing
  <2>1. rx' = [rx EXCEPT !.shift = 0, !.idx = 0, !.state = "DATA"]
    BY <1>6 DEF StartByte
  <2> QED BY <1>1, <2>1 DEF RxRing
<1>7. ASSUME NEW s, rx' = [rx EXCEPT !.state = s]
      PROVE  rx'.state = s /\ UNCHANGED <<rx.shift, rx.idx>> /\ RxRing
  BY <1>1, <1>7 DEF RxRing
<1>8. CASE ccp1.flag /\ RxEdge
  <2>1. RxQuiet /\ rx.state = "IDLE"
    BY <1>8 DEF RxEdge, RxQuiet, rxHist
  <2>2. CASE fast /\ Level = 1 /\ ccp1' = [ccp1 EXCEPT !.flag = FALSE] /\ rx' = rx
    BY <1>1, <1>8, <2>1, <2>2 DEF RxIgnores
  <2>3. CASE fast /\ Level = 0 /\ rx' = StartByte
             /\ Arm1(Later(t, Bit + Half + Wrap - Overhead))
    BY <1>4, <1>6, <1>8, <2>1, <2>3 DEF RxTrusts, RxStarts
  <2>4. CASE ~fast /\ rx' = [rx EXCEPT !.state = "CONFIRM"] /\ Arm1(Later(ccp1.reg, Half))
    BY <1>4, <1>7, <1>8, <2>1, <2>4 DEF RxDoubts
  <2> QED BY <1>8, <2>2, <2>3, <2>4 DEF RxEdge
<1>9. CASE ccp1.flag /\ RxConfirm
  <2>1. RxQuiet /\ rx.state = "CONFIRM"
    BY <1>9 DEF RxConfirm, RxQuiet, rxHist
  <2>2. CASE Level = 1 /\ rx' = [rx EXCEPT !.state = "IDLE"] /\ Listen
    BY <1>5, <1>7, <1>9, <2>1, <2>2 DEF RxDenies
  <2>3. CASE Level = 0 /\ rx' = StartByte /\ Arm1(Later(ccp1.reg, Bit))
    BY <1>4, <1>6, <1>9, <2>1, <2>3 DEF RxAgrees, RxStarts
  <2> QED BY <1>9, <2>2, <2>3 DEF RxConfirm
<1>10. CASE ccp1.flag /\ RxSample
  <2> DEFINE b == (rx.shift \div 2) + Level * Top
             k == rx.idx + 1
             s == IF rx.idx + 1 < Bits THEN "DATA" ELSE "STOP"
  <2>1. rx' = [rx EXCEPT !.shift = b, !.idx = k, !.state = s]
    BY <1>10 DEF RxSample
  <2> HIDE DEF b, k, s
  <2>2. rx'.shift = b /\ rx'.idx = k /\ rx'.state = s /\ RxRing
    BY <1>1, <2>1 DEF RxRing
  <2> QED BY <1>4, <1>10, <2>2 DEF RxSample, RxQuiet, rxHist, RxSamples, b, k, s
<1>11. CASE ccp1.flag /\ RxStop
  <2>1. /\ UNCHANGED <<ccp1.ie, ccp1.cb>> /\ ~ccp1'.flag /\ ccp1'.mode = "capture"
        /\ UNCHANGED ccp1.reg
    BY <1>5, <1>11 DEF RxStop
  <2>2. CASE Level = 1 /\ rx.count < SZ /\ rx' = RxStore /\ UNCHANGED errs
    <3>1. Inc(rx.count) = rx.count + 1
      BY <2>2, RxTypes, Indices
    <3>2. rx' = [rx EXCEPT !.buf[rx.head] = rx.shift, !.head = Succ(rx.head),
                           !.count = Inc(rx.count), !.state = "IDLE"]
      BY <2>2 DEF RxStore
    <3>3. /\ rx'.state = "IDLE" /\ rx'.count = Inc(rx.count) /\ rx'.head = Succ(rx.head)
          /\ rx'.buf = [rx.buf EXCEPT ![rx.head] = rx.shift]
          /\ UNCHANGED <<rx.shift, rx.idx, rx.tail>>
      BY <1>1, <3>2
    <3> QED BY <1>11, <2>1, <2>2, <3>1, <3>3 DEF RxStop, RxEnds
  <2>3. CASE /\ Level = 0 \/ rx.count >= SZ
             /\ rx' = [rx EXCEPT !.state = "IDLE"] /\ errs' = errs + 1
    <3>1. rx'.state = "IDLE" /\ UNCHANGED <<rx.shift, rx.idx>> /\ RxRing
      BY <1>7, <2>3
    <3> QED BY <1>11, <2>1, <2>3, <3>1 DEF RxStop, RxEnds, RxRing
  <2> QED BY <1>11, <2>2, <2>3 DEF RxStop
<1> QED BY <1>2, <1>3, <1>8, <1>9, <1>10, <1>11 DEF IsrRx

-----------------------------------------------------------------------------
(* Places of a ring.                                                       *)
LEMMA RingPlaces ==
  /\ SZ \in Nat \ {0}
  /\ \A a \in Places : /\ a \in Nat /\ a < SZ /\ Place(a + 0) = a
                       /\ Succ(a) \in Places /\ Succ(a) = Place(a + 1)
                       /\ \A n \in 0 .. SZ : Place(a + n) \in Places
                       /\ \A n \in 0 .. SZ - 1 : Place(Succ(a) + n) = Place(a + (n + 1))
                       /\ \A n \in 0 .. SZ - 1 : Succ(Place(a + n)) = Place(a + (n + 1))
                       /\ \A n, m \in 0 .. SZ - 1 : n # m => Place(a + n) # Place(a + m)
<1>1. SZ \in Nat \ {0}
  BY Sizes
<1>2. \A a \in Places : Succ(a) = IF a + 1 < SZ THEN a + 1 ELSE 0
  BY <1>1 DEF Succ, Places
<1> QED BY <1>1, <1>2 DEF Places, Place

LEMMA WaitingType ==
  ASSUME InMargins, TInv
  PROVE  Waiting \in 0 .. SZ /\ Sent \in Int /\ Sent <= txIn
<1>1. /\ tx.count \in Nat /\ tx.count <= SZ /\ SZ \in Nat /\ txIn \in Nat
      /\ pc = "wCount" => tx.count < SZ
      /\ pc = "aCount" => tx.count > 0
  BY TxTypes, Sizes DEF Levels, TInv, Sender
<1> QED BY <1>1 DEF Waiting, Sent, One

-----------------------------------------------------------------------------
(* The service routine runs.                                               *)
LEMMA IsrFrame ==
  ASSUME TInv, LineInv, Isr
  PROVE  /\ UNCHANGED <<t, on, pin, brk, held, spent, gie, chan, pc, some, txIn, fast>>
         /\ Level' = Level /\ wait' = 0 /\ ~Fresh /\ ~Arming /\ ~Starting /\ ~Loaded
         /\ pc \notin {"aTail", "aCount"} /\ (Writing => tx.state # "IDLE")
<1>1. UNCHANGED <<t, on, pin, brk, held, spent, gie, chan, pc, some, txIn, fast>> /\ wait' = 0
  BY DEF Isr, clock, locals, hist, bounds
<1>2. Pending
  BY DEF Isr
<1>3. ~Fresh
  BY <1>2 DEF LineInv, Gap, RxRest, Pending
<1>4. ~Arming /\ ~Starting /\ (Writing => tx.state # "IDLE")
  BY <1>3 DEF Fresh, TInv, Sender
<1> QED BY <1>1, <1>3, <1>4 DEF Level, Loaded, Arming, Starting

(* What the receiver can notice of it: nothing, unless a stop bit begins   *)
(* to pass.                                                                *)
LineStays == (Armed' <=> Armed) /\ Symbol' = Symbol /\ After' = After /\ (Poised' <=> Poised)
             /\ Sent' = Sent
ByteStarts == Armed /\ Symbol = Bits + 1 /\ Armed' /\ Poised' /\ Symbol' = Bits + 1
              /\ Sent' = Sent + 1
LineRests  == Armed /\ Symbol = Bits + 1 /\ ~Armed' /\ Sent' = Sent

LEMMA IsrSender2 ==
  ASSUME InMargins, TInv, Receiver, Live, LineInv, Isr
  PROVE  /\ Shape' /\ Gap' /\ Outbox'
         /\ \/ LineStays /\ UNCHANGED ccp2.reg /\ ~ccp2.flag
            \/ LineStays /\ ccp2.flag /\ ccp2'.reg = Later(ccp2.reg, Bit) /\ Armed /\ ~Poised'
            \/ ByteStarts /\ ccp2.flag /\ ccp2'.reg = Later(ccp2.reg, Bit)
            \/ LineRests /\ ccp2.flag
         /\ ~ccp2'.flag
<1> USE DEF LineInv
<1>0. /\ UNCHANGED <<pin, brk, pc, txIn>> /\ ~Fresh /\ ~Arming /\ ~Starting /\ ~Loaded
      /\ pc \notin {"aTail", "aCount"} /\ (Writing => tx.state # "IDLE")
  BY IsrFrame
<1>1. ~ccp2'.flag /\ (TxNone \/ TxStops \/ TxTakes \/ TxShifts \/ TxEnds)
  BY IsrTxEffect DEF Wired, Live
<1>2. /\ Bits \in Nat \ {0} /\ tx.state \in TxNames /\ tx.shift \in Nat /\ tx.idx \in 0 .. Bits
      /\ tx.state = "DATA" => tx.idx < Bits
      /\ tx.count \in Nat /\ txIn \in Nat /\ pin \in {0, 1} /\ ccp2.mode \in Names2
      /\ ccp2.flag \in BOOLEAN
  BY TxTypes, LineTypes, Sizes
<1>3. ccp2.flag => Armed
  BY DEF TInv, Course
<1>4. /\ ~Fresh' /\ ~Arming' /\ ~Loaded' /\ pc' \notin {"aTail", "aCount"}
      /\ (Writing' <=> Writing) /\ (Starting' <=> Starting)
  <2>1. (Writing' <=> Writing) /\ (Starting' <=> Starting) /\ (Arming' <=> Arming)
        /\ (Loaded' <=> Loaded)
    BY <1>0 DEF Writing, Starting, Arming, Loaded
  <2>2. Writing => tx'.state # "IDLE"
    <3>1. Writing /\ tx.state = "STOP" => ~ccp2.flag
      BY DEF Gap
    <3> QED BY <1>0, <1>1, <3>1 DEF TxNone, TxStops, TxTakes, TxShifts, TxEnds, TxNext
  <2> QED BY <1>0, <2>1, <2>2 DEF Fresh
<1>5. CASE TxNone
  <2>1. /\ UNCHANGED <<tx.state, tx.idx, tx.shift, tx.count, tx.head, tx.tail, tx.buf>>
        /\ UNCHANGED <<ccp2.mode, ccp2.reg>> /\ ~ccp2.flag /\ ~ccp2'.flag
    BY <1>1, <1>5 DEF TxNone
  <2>2. (Armed' <=> Armed) /\ (Poised' <=> Poised) /\ Begins' = Begins /\ NextPin' = NextPin
    BY <2>1 DEF Armed, Poised, Begins, NextPin
  <2>3. LineStays
    BY <1>0, <2>1, <2>2 DEF LineStays, Symbol, After, Sent, Waiting
  <2>4. Shape'
    BY <1>0, <1>4, <2>1, <2>2, <2>3 DEF LineStays, Shape, Arming
  <2>5. Gap'
    <3>1. Due' = Due
      BY <2>1, IsrFrame DEF Due
    <3>2. UNCHANGED spent
      BY IsrFrame
    <3> QED BY <1>4, <2>1, <3>1, <3>2 DEF Gap
  <2>6. Outbox'
    BY <1>0, <1>4, <2>1, <2>2 DEF Outbox, Sent, Waiting
  <2> QED BY <1>1, <2>1, <2>3, <2>4, <2>5, <2>6
<1>6. CASE TxStops
  <2>1. /\ UNCHANGED <<tx.state, tx.idx, tx.shift, tx.count, tx.head, tx.tail, tx.buf>>
        /\ tx.state = "IDLE" /\ ccp2.flag /\ ~Armed' /\ Armed
    BY <1>3, <1>6 DEF TxStops, Armed
  <2>2. LineRests
    BY <1>0, <2>1 DEF LineRests, Symbol, Begins, Poised, Sent, Waiting
  <2>3. Shape'
    <3>1. pin = 1
      BY <2>1 DEF Shape, NextPin
    <3> QED BY <1>0, <1>1, <1>4, <2>1, <3>1 DEF Shape, Poised
  <2>4. Gap'
    BY <1>1, <1>4, <2>1 DEF Gap
  <2>5. Outbox'
    BY <1>0, <1>4, <2>1 DEF Outbox, Sent, Waiting, Poised
  <2> QED BY <1>1, <2>1, <2>2, <2>3, <2>4, <2>5
<1>7. CASE TxTakes
  <2>1. /\ tx.state = "IDLE" /\ ccp2.flag /\ Armed /\ Armed' /\ Poised' /\ ~Poised
        /\ tx'.state = "DATA" /\ tx'.idx = 0 /\ ccp2'.mode = "clear"
    BY <1>1, <1>3, <1>7 DEF TxTakes, TxNext, Armed, Poised
  <2>2. pc # "wCount" /\ pc # "aCount"
    BY <1>0, <2>1 DEF Writing
  <2>3. /\ Waiting = tx.count /\ Waiting' = tx.count - 1 /\ tx.count > 0 /\ Sent' = Sent + 1
        /\ Sent = txIn - tx.count
    BY <1>0, <1>2, <1>7, <2>2 DEF TxTakes, Waiting, Sent, One
  <2>4. ByteStarts
    BY <2>1, <2>3 DEF ByteStarts, Symbol, Begins
  <2>5. Shape'
    <3>1. pin = 1
      BY <2>1 DEF Shape, NextPin
    <3>2. Symbol' = Bits + 1
      BY <2>4 DEF ByteStarts
    <3> QED BY <1>0, <1>1, <1>2, <1>4, <2>1, <3>1, <3>2 DEF Shape
  <2>6. Gap'
    BY <1>1, <1>4, <2>1 DEF Gap
  <2>7. Outbox'
    <3>1. /\ tx.tail \in Places /\ tx.count \in 1 .. SZ /\ SZ \in Nat
          /\ tx'.tail = Succ(tx.tail) /\ UNCHANGED <<tx.buf, tx.head>>
          /\ tx'.shift = tx.buf[tx.tail]
      BY <1>7, <2>3, TxTypes, Sizes DEF TxTakes, Levels
    <3>2. tx'.head = Place(tx'.tail + Waiting')
      <4>1. tx.count - 1 \in 0 .. SZ - 1 /\ (tx.count - 1) + 1 = tx.count
        BY <3>1
      <4>2. Place(Succ(tx.tail) + (tx.count - 1)) = Place(tx.tail + ((tx.count - 1) + 1))
        BY <3>1, <4>1, RingPlaces
      <4> QED BY <2>3, <3>1, <4>1, <4>2 DEF Outbox
    <3>3. ASSUME NEW i \in Places, i < Waiting'
          PROVE  tx'.buf[Place(tx'.tail + i)] = Sent' + 1 + i
      <4>1. i + 1 \in Places /\ i + 1 < Waiting /\ i \in 0 .. SZ - 1
        BY <2>3, <3>1, <3>3 DEF Places
      <4>2. Place(Succ(tx.tail) + i) = Place(tx.tail + (i + 1))
        BY <3>1, <4>1, RingPlaces
      <4>3. tx.buf[Place(tx.tail + (i + 1))] = Sent + 1 + (i + 1)
        BY <4>1 DEF Outbox
      <4>4. Sent \in Int
        BY WaitingType
      <4> QED BY <2>3, <3>1, <4>1, <4>2, <4>3, <4>4
    <3>4. tx'.shift = Sent'
      <4>1. 0 \in Places /\ 0 < Waiting /\ Place(tx.tail + 0) = tx.tail
        BY <2>3, <3>1, RingPlaces, Indices
      <4>2. tx.buf[tx.tail] = Sent + 1 + 0
        BY <4>1 DEF Outbox
      <4> QED BY <2>3, <3>1, <4>2, WaitingType
    <3>5. Waiting' \in Nat
      BY <1>2, <2>3
    <3> QED BY <1>4, <3>2, <3>3, <3>4, <3>5 DEF Outbox
  <2> QED BY <1>1, <1>7, <2>1, <2>4, <2>5, <2>6, <2>7 DEF TxTakes, TxNext
<1>8. CASE TxShifts
  <2> DEFINE k == tx.idx + 1
  <2>1. /\ tx.state = "DATA" /\ ccp2.flag /\ Armed /\ Armed' /\ tx'.idx = k
        /\ tx'.state \in {"DATA", "STOP"} /\ (tx'.state = "STOP" => k = Bits)
        /\ (tx'.state = "DATA" => k < Bits) /\ ccp2'.reg = Later(ccp2.reg, Bit)
    BY <1>2, <1>3, <1>8 DEF TxShifts, TxNext, Armed
  <2>2. ~Poised /\ ~Poised' /\ Symbol = tx.idx /\ Symbol' = tx.idx
    BY <1>1, <1>2, <2>1 DEF Poised, Symbol, Begins
  <2>3. After = tx.shift /\ After' = tx.shift
    <3>1. NextPin' = tx.shift % 2
      BY <1>2, <1>8 DEF TxShifts, NextPin
    <3>2. After' = (tx.shift % 2) + 2 * (tx.shift \div 2)
      BY <1>1, <1>8, <2>1, <3>1 DEF After, TxShifts
    <3> QED BY <1>2, <2>1, <3>2, Halves DEF After
  <2>4. UNCHANGED <<tx.buf, tx.head, tx.tail, tx.count>>
    BY <1>8 DEF TxShifts
  <2>5. LineStays
    BY <1>0, <2>1, <2>2, <2>3, <2>4 DEF LineStays, Sent, Waiting
  <2>6. Shape'
    <3>1. Symbol = 0 => pin = 0
      BY <2>1 DEF Shape
    <3>2. k > 0
      BY <1>2
    <3> QED BY <1>0, <1>1, <1>2, <1>4, <2>1, <2>2, <3>1, <3>2 DEF Shape
  <2>7. Gap'
    <3>1. ASSUME Writing, tx'.state = "STOP" PROVE CallTime < Due' + spent
      <4>1. Over + CallTime < Bit + spent
        BY <2>1, <3>1 DEF Gap
      <4>2. Due' = Bit - Over
        <5>1. Over <= Latency
          BY <2>1, LineTypes, Times DEF TInv, Course
        <5>2. t' = t
          BY IsrFrame
        <5> QED BY <2>1, <5>1, <5>2, LineTypes, AheadLater DEF Due, Over
      <4> QED BY <4>1, <4>2, LineTypes, Times
    <3>2. UNCHANGED spent
      BY IsrFrame
    <3> QED BY <1>1, <1>4, <3>1, <3>2 DEF Gap
  <2>8. Outbox'
    BY <1>0, <1>4, <2>2, <2>4 DEF Outbox, Sent, Waiting
  <2> QED BY <1>1, <2>1, <2>2, <2>5, <2>6, <2>7, <2>8
<1>9. CASE TxEnds
  <2>1. /\ tx.state = "STOP" /\ ccp2.flag /\ Armed /\ Armed' /\ tx'.state = "IDLE"
        /\ UNCHANGED <<tx.shift, tx.idx, tx.buf, tx.head, tx.tail, tx.count>>
        /\ ccp2'.mode = "set" /\ ccp2'.reg = Later(ccp2.reg, Bit)
    BY <1>3, <1>9 DEF TxEnds, TxNext, Armed
  <2>2. ~Poised /\ ~Poised' /\ Symbol = Bits /\ Symbol' = Bits
    BY <1>1, <1>2, <2>1 DEF Poised, Symbol, Begins, Shape
  <2>3. After' = After
    BY <2>1 DEF After
  <2>4. LineStays
    BY <1>0, <2>1, <2>2, <2>3 DEF LineStays, Sent, Waiting
  <2>5. Shape'
    BY <1>0, <1>1, <1>2, <1>4, <2>1, <2>2 DEF Shape
  <2>6. Gap'
    BY <1>1, <1>4, <2>1 DEF Gap
  <2>7. Outbox'
    BY <1>0, <1>4, <2>1, <2>2 DEF Outbox, Sent, Waiting
  <2> QED BY <1>1, <2>1, <2>2, <2>4, <2>5, <2>6, <2>7
<1> QED BY <1>1, <1>5, <1>6, <1>7, <1>8, <1>9

(* What the receiver's next sample is set for.                             *)
LEMMA IsrTimes ==
  ASSUME InMargins, TInv, Receiver, LineInv, Isr
  PROVE  /\ ccp1.flag => Over1 <= Latency
         /\ ccp1'.reg = ccp1.reg => Due1' = Due1 /\ Over1' = Over1
         /\ ccp1.flag /\ ccp1'.reg = Later(ccp1.reg, Bit) => Due1' = Bit - Over1
         /\ ccp1.flag /\ ccp1'.reg = Later(ccp1.reg, Half) => Due1' = Half - Over1
         /\ ccp1'.reg = Later(t, Bit + Half + Wrap - Overhead) =>
              Due1' = Bit + Half - Overhead
<1>1. t' = t
  BY IsrFrame
<1>2. ccp1.flag => Over1 <= Latency
  BY LineTypes, Times DEF LineInv, Wired
<1>3. /\ Bit \in 0 .. Wrap - 1 /\ Half \in 0 .. Wrap - 1
      /\ Bit + Half - Overhead \in 0 .. Wrap - 1
      /\ Bit + Half + Wrap - Overhead = (Bit + Half - Overhead) + Wrap
      /\ Latency <= Half /\ Latency <= Bit
  BY Times, Margins
<1>4. ccp1.reg \in 0 .. Wrap - 1 /\ t \in 0 .. Wrap - 1 /\ Over1 \in Nat
  BY LineTypes
<1>5. ASSUME NEW d \in 0 .. Wrap - 1, Latency <= d, ccp1.flag, ccp1'.reg = Later(ccp1.reg, d)
      PROVE  Due1' = d - Over1
  BY <1>1, <1>2, <1>4, <1>5, AheadSum, Times DEF Due1, Over1
<1>6. ASSUME ccp1'.reg = Later(t, Bit + Half + Wrap - Overhead)
      PROVE  Due1' = Bit + Half - Overhead
  <2>1. ccp1'.reg = Later(t, Bit + Half - Overhead)
    BY <1>3, <1>4, <1>6, AheadSum
  <2> QED BY <1>1, <1>3, <1>4, <2>1, AheadSum DEF Due1
<1> QED BY <1>1, <1>2, <1>3, <1>5, <1>6 DEF Due1, Over1

LEMMA IsrPace ==
  ASSUME InMargins, TInv, Receiver, Live, LineInv, Isr
  PROVE  Pace'
<1> USE DEF LineInv
<1>1. ~ccp2'.flag /\ UNCHANGED <<t, held>>
  BY IsrSender2, IsrFrame
<1>2. ASSUME ccp2.flag, Armed, ccp2'.reg = Later(ccp2.reg, Bit)
      PROVE  Due' >= 1 /\ held + Due' = Bit
  <2>1. held = Over /\ Over <= Latency /\ Over \in Nat
    BY <1>2, LineTypes, Times DEF Pace, TInv, Course
  <2>2. Due' = Bit - Over
    BY <1>1, <1>2, <2>1, LineTypes, AheadLater DEF Due, Over
  <2> QED BY <2>1, <2>2, Times
<1>3. ASSUME Poised, rx'.state = "STOP" PROVE rx.state = "STOP"
  <2>1. rx.state # "DATA"
    <3>1. rx.state = "DATA" => Target \in Nat /\ Target <= Bits
      BY RxTypes, Sizes DEF Target
    <3>2. Armed /\ Symbol = Bits + 1
      BY <1>3 DEF Poised, Symbol
    <3> QED BY <3>1, <3>2, Sizes DEF Tracking
  <2>2. \/ RxNone \/ RxIgnores \/ RxTrusts \/ RxDoubts \/ RxDenies \/ RxAgrees
        \/ RxSamples \/ RxEnds
    BY IsrRxEffect DEF Live, Wired
  <2> QED BY <1>3, <2>1, <2>2
          DEF RxNone, RxIgnores, RxTrusts, RxDoubts, RxDenies, RxAgrees, RxSamples, RxEnds,
              RxStarts
<1>4. CASE LineStays /\ UNCHANGED ccp2.reg /\ ~ccp2.flag
  <2>1. Due' = Due
    BY <1>1, <1>4 DEF Due
  <2> QED BY <1>1, <1>3, <1>4, <2>1 DEF Pace, LineStays
<1>5. CASE ccp2.flag /\ ccp2'.reg = Later(ccp2.reg, Bit) /\ Armed
  BY <1>1, <1>2, <1>5 DEF Pace
<1>6. CASE LineRests
  BY <1>6 DEF Pace, LineRests
<1> QED BY <1>4, <1>5, <1>6, IsrSender2 DEF ByteStarts

(* The receiver's whereabouts when a stop bit, or a start bit, is on the   *)
(* line.                                                                   *)
LEMMA Whereabouts ==
  ASSUME InMargins, TInv, Receiver, Live, LineInv, Armed
  PROVE  /\ Symbol = Bits + 1 /\ ~Poised => rx.state = "STOP"
         /\ Symbol = Bits + 1 => pin = 1 /\ rx.state \in {"IDLE", "STOP"}
         /\ rx.state # "IDLE" /\ ccp1.flag => Target = Symbol
         /\ rx.state = "IDLE" /\ ccp1.flag =>
              Symbol = 0 /\ ccp2.flag /\ Over1 = held /\ ~Poised /\ After = came + 1
         /\ rx.state = "STOP" => Target = Bits + 1
         /\ rx.state # "IDLE" => Target = Symbol \/ Target = Symbol + 1
         /\ Symbol \in Int /\ ~brk
<1> USE DEF LineInv
<1>1. /\ Bits \in Nat \ {0} /\ tx.state \in TxNames /\ rx.state \in RxNames
      /\ rx.idx \in 0 .. Bits /\ tx.idx \in 0 .. Bits
      /\ rx.state = "DATA" => rx.idx < Bits
  BY TxTypes, RxTypes, Sizes
<1>2. Symbol \in Int
  BY <1>1 DEF Symbol, Begins
<1>3. ~brk
  BY DEF Broken
<1>4. rx.state = "STOP" => Target = Bits + 1
  BY DEF Target, Wired
<1>5. rx.state \in {"CONFIRM", "DATA"} => Target \in 0 .. Bits
  BY <1>1 DEF Target
<1>6. /\ rx.state # "IDLE" => Target = Symbol \/ Target = Symbol + 1
      /\ rx.state # "IDLE" /\ ccp1.flag => Target = Symbol
  BY DEF Tracking
<1>7. rx.state = "IDLE" /\ ccp1.flag =>
        Symbol = 0 /\ ccp2.flag /\ Over1 = held /\ ~Poised /\ After = came + 1
  BY DEF Content, Followed, After
<1>8. Symbol = Bits + 1 => rx.state \in {"IDLE", "STOP"}
  BY <1>1, <1>5, <1>6 DEF RxNames
<1>9. Symbol = Bits + 1 /\ ~Poised => rx.state = "STOP"
  BY <1>1, <1>8 DEF Followed
<1>10. Symbol = Bits + 1 => pin = 1
  <2>1. CASE Poised
    BY <2>1 DEF Shape
  <2>2. CASE Symbol = Bits + 1 /\ ~Poised
    <3>1. ccp2.flag /\ tx.state = "IDLE"
      BY <1>1, <2>2 DEF Symbol, Begins
    <3> QED BY <3>1 DEF Shape, NextPin
  <2> QED BY <2>1, <2>2
<1> QED BY <1>2, <1>3, <1>4, <1>6, <1>7, <1>8, <1>9, <1>10

(* One bit of a byte is received.                                          *)
Samples(k, low, w, l, n, s, after) ==
  /\ k \in 0 .. Bits - 1 /\ low \in Nat /\ w \in Nat /\ l \in {0, 1}
  /\ n \in Nat /\ s \in Nat /\ after \in Nat
  /\ low < w /\ w * Weight(k) = 2 * Top /\ s = low * Weight(k)
  /\ n = low + w * (l + 2 * after)

LEMMA SplitStep ==
  ASSUME NEW k, NEW low, NEW w, NEW l, NEW n, NEW s, NEW after,
         Samples(k, low, w, l, n, s, after)
  PROVE  /\ low + w * l < 2 * w /\ low + w * l \in Nat /\ 2 * w \in Nat
         /\ (2 * w) * Weight(k + 1) = 2 * Top
         /\ (s \div 2) + l * Top = (low + w * l) * Weight(k + 1)
         /\ n = (low + w * l) + (2 * w) * after
         /\ k + 1 = Bits /\ n < 2 * Top => (s \div 2) + l * Top = n
<1> USE DEF Samples
<1> DEFINE v == Weight(k + 1)
<1>1. v \in Nat /\ Weight(k) = 2 * v /\ Top \in Nat
  BY Weights
<1>2. w * (2 * v) = 2 * Top /\ s = low * (2 * v)
  BY <1>1
<1> HIDE DEF v
<1>3. w * v = Top /\ low * v \in Nat /\ w * v \in Nat
  BY <1>1, <1>2
<1>4. s \div 2 = low * v
  <2>1. s = 2 * (low * v)
    BY <1>1, <1>2
  <2>2. \A x \in Nat : (2 * x) \div 2 = x
    OBVIOUS
  <2> QED BY <1>3, <2>1, <2>2
<1>5. low + w * l < 2 * w /\ low + w * l \in Nat /\ 2 * w \in Nat
  OBVIOUS
<1>6. (2 * w) * v = 2 * Top
  BY <1>1, <1>3
<1>7. (s \div 2) + l * Top = (low + w * l) * v
  <2>1. (low + w * l) * v = low * v + l * (w * v)
    BY <1>1
  <2> QED BY <1>3, <1>4, <2>1
<1>8. n = (low + w * l) + (2 * w) * after
  OBVIOUS
<1>9. ASSUME k + 1 = Bits, n < 2 * Top PROVE (s \div 2) + l * Top = n
  <2>1. v = 1
    BY <1>9, Weights DEF v
  <2>2. 2 * w = 2 * Top /\ (s \div 2) + l * Top = low + w * l
    BY <1>1, <1>6, <1>7, <2>1
  <2>3. (2 * w) * after < 2 * w
    BY <1>5, <1>8, <1>9, <2>2
  <2>4. after = 0
    <3>1. ASSUME after >= 1 PROVE FALSE
      <4>1. (2 * w) * after = 2 * w + (2 * w) * (after - 1) /\ after - 1 \in Nat
        BY <3>1
      <4>2. (2 * w) * (after - 1) \in Nat
        BY <4>1
      <4> QED BY <2>3, <4>1, <4>2
    <3> QED BY <3>1
  <2> QED BY <1>8, <2>2, <2>4
<1> QED BY <1>5, <1>6, <1>7, <1>8, <1>9 DEF v

(* A step of the service routine with the receiver's part known: what is   *)
(* left to show of the line.                                               *)
LEMMA IsrIdle ==
  ASSUME InMargins, TInv, Receiver, Live, LineInv, Isr, RxNone \/ RxIgnores
  PROVE  Wired' /\ Tracking' /\ Followed' /\ Broken' /\ Content'
<1> USE DEF LineInv
<1>0. /\ UNCHANGED <<t, pin, brk, held, pc, fast, txIn>> /\ Level' = Level /\ ~Loaded /\ ~Loaded'
      /\ UNCHANGED <<ccp1.ie, ccp1.cb, ccp2.cb>> /\ ~ccp1'.flag /\ ~ccp2'.flag
  BY IsrFrame, IsrRxEffect, IsrTxEffect DEF Wired, Live, Loaded
<1>1. /\ UNCHANGED <<rx.state, rx.idx, rx.shift, ccp1.mode, ccp1.reg, came, cameLast>>
      /\ Due1' = Due1 /\ Over1' = Over1 /\ Target' = Target
  BY IsrTimes DEF RxNone, RxIgnores, RxQuiet, Target
<1>2. RxIgnores => ~Armed /\ ~brk /\ rx.state = "IDLE"
  <2>1. RxIgnores => Level = 1 /\ rx.state = "IDLE" /\ ccp1.flag
    BY DEF RxIgnores
  <2>2. Armed /\ RxIgnores => Level = 0
    BY <2>1, Whereabouts DEF Shape, Level
  <2> QED BY <2>1, <2>2 DEF Level
<1>3. RxNone => ~ccp1.flag
  BY DEF RxNone
<1>4. Wired'
  BY <1>0, <1>1 DEF Wired
<1>5. Broken'
  <2>1. brk => /\ ~Armed /\ tx.state = "IDLE" /\ pc \notin Busy
               /\ rx.state # "IDLE" => ~ccp1.flag /\ Due1 >= 1
                                       /\ held + Due1 + Latency < (Target + 1) * Bit
    BY <1>2, <1>3 DEF Broken
  <2>2. ~Armed => ~Armed' /\ tx' = tx
    <3>1. ~Armed => ~ccp2.flag
      BY DEF TInv, Course
    <3> QED BY <3>1, IsrTxEffect DEF Wired, Live, TxNone, TxStops, TxTakes, TxShifts, TxEnds,
            TxNext, Armed
  <2> QED BY <1>0, <1>1, <2>1, <2>2 DEF Broken
<1>6. (Armed' => Armed) /\ (Armed /\ Armed' => Symbol' = Symbol)
  BY IsrSender2 DEF LineStays, ByteStarts, LineRests
<1>7. Tracking'
  <2>1. Armed /\ rx.state # "IDLE" =>
          /\ ~ccp1.flag /\ Due1 >= 1
          /\ \/ Target = Symbol /\ held + Due1 + Latency < Bit
             \/ Target = Symbol + 1 /\ Bit <= held + Due1 /\ held + Due1 + Latency < 2 * Bit
    BY <1>2, <1>3 DEF Tracking
  <2> QED BY <1>0, <1>1, <1>6, <2>1 DEF Tracking
<1>8. Followed'
  <2>1. Armed => (rx.state = "IDLE" => Poised)
    BY <1>2, <1>3 DEF Followed
  <2> QED BY <1>1, <1>6, <2>1, IsrSender2 DEF Followed, LineStays, ByteStarts, LineRests
<1>9. Content'
  <2>1. Armed /\ Symbol = Bits + 1 => rx.state \in {"IDLE", "STOP"}
                                      /\ (~Poised => rx.state = "STOP")
    BY Whereabouts
  <2>2. CASE LineStays
    <3>1. Rest' = Rest
      BY <1>0, <1>1, <2>2 DEF Rest, LineStays
    <3>2. rx.state = "DATA" /\ Armed => Split'
      BY <1>1, <3>1 DEF Content, Split
    <3>3. Lagging' <=> Lagging
      BY <1>0, <1>1, <2>2 DEF Lagging, LineStays
    <3> QED BY <1>0, <1>1, <2>2, <3>2, <3>3 DEF Content, LineStays
  <2>3. CASE ByteStarts /\ ccp2.flag
    <3>1. ~Poised /\ rx.state = "STOP" /\ ~brk
      BY <2>1, <2>3, Whereabouts DEF ByteStarts, Poised
    <3>2. Sent = came + 1
      BY <2>3, <3>1, RxTypes DEF Content, Lagging, One, ByteStarts
    <3>3. Lagging'
      BY <1>0, <1>1, <2>3, <3>1 DEF Lagging, ByteStarts
    <3>4. Sent' = came' + One(Loaded' \/ Armed') + One(Lagging')
      BY <1>0, <1>1, <2>3, <3>2, <3>3, RxTypes DEF ByteStarts, One
    <3> QED BY <1>0, <1>1, <3>1, <3>4 DEF Content
  <2>4. CASE LineRests /\ ccp2.flag
    <3>1. ~Poised /\ rx.state = "STOP" /\ ~brk
      BY <2>1, <2>4, Whereabouts DEF LineRests, Poised
    <3>2. Sent = came + 1
      BY <2>4, <3>1, RxTypes DEF Content, Lagging, One, LineRests
    <3>3. Lagging'
      BY <1>0, <1>1, <2>4, <3>1 DEF Lagging, LineRests
    <3>4. Sent' = came' + One(Loaded' \/ Armed') + One(Lagging')
      BY <1>0, <1>1, <2>4, <3>2, <3>3, RxTypes DEF LineRests, One
    <3> QED BY <1>0, <1>1, <3>1, <3>4 DEF Content
  <2> QED BY <2>2, <2>3, <2>4, IsrSender2
<1> QED BY <1>4, <1>5, <1>7, <1>8, <1>9

(* The other steps but the last of a frame fall while the line stays as it *)
(* is.                                                                     *)
LEMMA IsrStays ==
  ASSUME InMargins, TInv, Receiver, Live, LineInv, Isr, ccp1.flag,
         rx.state # "STOP", Armed => Symbol # Bits + 1
  PROVE  LineStays /\ (~Armed => tx'.state = tx.state)
<1>1. LineStays
  <2>1. Symbol # Bits + 1 \/ ~Armed
    OBVIOUS
  <2> QED BY <2>1, IsrSender2 DEF ByteStarts, LineRests
<1>2. ~Armed => ~ccp2.flag
  BY DEF TInv, Course
<1>3. ~Armed => tx' = tx
  BY <1>2, IsrTxEffect DEF LineInv, Wired, Live, TxNone, TxStops, TxTakes, TxShifts, TxEnds,
     TxNext
<1> QED BY <1>1, <1>3

LEMMA IsrBegins ==
  ASSUME InMargins, TInv, Receiver, Live, LineInv, Isr, RxTrusts \/ RxDoubts \/ RxDenies \/ RxAgrees
  PROVE  Wired' /\ Tracking' /\ Followed' /\ Broken' /\ Content'
<1> USE DEF LineInv
<1>0. /\ UNCHANGED <<t, pin, brk, held, pc, fast, txIn>> /\ Level' = Level /\ ~Loaded /\ ~Loaded'
      /\ UNCHANGED <<ccp1.ie, ccp1.cb, ccp2.cb>> /\ ~ccp1'.flag /\ ~ccp2'.flag
  BY IsrFrame, IsrRxEffect, IsrTxEffect DEF Wired, Live, Loaded
<1>1. /\ ccp1.flag /\ rx.state \in {"IDLE", "CONFIRM"} /\ UNCHANGED <<came, cameLast>>
      /\ rx'.state \in {"IDLE", "CONFIRM", "DATA"}
      /\ rx'.state = "IDLE" <=> ccp1'.mode = "capture"
      /\ ccp1'.mode # "off"
  BY DEF RxTrusts, RxDoubts, RxDenies, RxAgrees, RxStarts, RxQuiet
<1>2. Armed => Symbol = 0 /\ pin = 0 /\ Level = 0 /\ After = came + 1
  <2>1. ASSUME Armed PROVE Symbol = 0 /\ After = came + 1
    <3>1. CASE rx.state = "IDLE"
      BY <1>1, <2>1, <3>1, Whereabouts
    <3>2. CASE rx.state = "CONFIRM"
      BY <1>1, <2>1, <3>2, Whereabouts DEF Content, Target
    <3> QED BY <1>1, <3>1, <3>2
  <2>2. ASSUME Armed PROVE pin = 0 /\ Level = 0
    BY <2>1, <2>2 DEF Shape, Level
  <2> QED BY <2>1, <2>2
<1>3. LineStays /\ (~Armed => tx'.state = tx.state) /\ (Armed' <=> Armed)
  <2>1. Bits + 1 # 0
    BY Sizes
  <2> QED BY <1>1, <1>2, <2>1, IsrStays DEF LineStays
<1>4. Level = 0 => Armed \/ brk
  BY DEF Level, Shape
<1>5. brk => ~Armed /\ Level = 0 /\ tx.state = "IDLE" /\ pc \notin Busy
  BY DEF Broken, Level
<1>6. Wired'
  BY <1>0, <1>1 DEF Wired
<1>7. /\ held \in Nat /\ Bit \in Nat /\ Latency \in Nat /\ Half \in Nat /\ Over1 \in Nat
      /\ Overhead \in Nat /\ 2 * Half <= Bit /\ Latency < Half /\ Overhead <= Half
      /\ Half + 2 * Latency < Bit + Overhead /\ Over1 <= Latency /\ Bit > 0
  BY <1>1, LineTypes, Times, Margins, IsrTimes
<1>8. Armed \/ brk =>
        /\ rx.state = "IDLE" => Over1 = held
        /\ rx.state = "CONFIRM" => Over1 <= held /\ held + Latency < Bit + Over1
  <2>1. CASE Armed
    BY <1>1, <2>1, Whereabouts DEF Tracking
  <2>2. CASE brk
    BY <1>1, <1>7, <2>2 DEF Broken, Target
  <2> QED BY <2>1, <2>2
<1>9. (* the sample is set *)
      Armed \/ brk =>
        /\ rx'.state = "CONFIRM" => Due1' >= 1 /\ held + Due1' + Latency < Bit
        /\ rx'.state = "DATA" => /\ Due1' >= 1 /\ Bit <= held + Due1'
                                 /\ held + Due1' + Latency < 2 * Bit
  <2>1. CASE RxTrusts
    <3>1. rx'.state = "DATA" /\ Due1' = Bit + Half - Overhead /\ rx.state = "IDLE"
      BY <2>1, IsrTimes DEF RxTrusts, RxStarts
    <3> QED BY <1>7, <1>8, <3>1
  <2>2. CASE RxDoubts
    <3>1. rx'.state = "CONFIRM" /\ Due1' = Half - Over1 /\ rx.state = "IDLE"
      BY <2>2, IsrTimes DEF RxDoubts
    <3> QED BY <1>7, <1>8, <3>1
  <2>3. CASE RxDenies
    BY <2>3 DEF RxDenies
  <2>4. CASE RxAgrees
    <3>1. rx'.state = "DATA" /\ Due1' = Bit - Over1 /\ rx.state = "CONFIRM"
      BY <2>4, IsrTimes DEF RxAgrees, RxStarts
    <3> QED BY <1>7, <1>8, <3>1
  <2> QED BY <2>1, <2>2, <2>3, <2>4
<1>10. /\ rx'.state = "CONFIRM" => Target' = 0 /\ ~fast
       /\ rx'.state = "DATA" => Target' = 1 /\ rx'.idx = 0 /\ rx'.shift = 0 /\ Level = 0
       /\ rx'.state = "IDLE" => Level = 1
  BY <1>0 DEF RxTrusts, RxDoubts, RxDenies, RxAgrees, RxStarts, Target
<1>11. Armed => Symbol' = 0 /\ After' = came + 1 /\ (Poised' <=> Poised) /\ ~Poised
  <2>1. Symbol # Bits + 1 => ~Poised
    BY DEF Symbol
  <2>2. Bits + 1 # 0
    BY Sizes
  <2> QED BY <1>2, <1>3, <2>1, <2>2 DEF LineStays
<1>12. Tracking'
  BY <1>0, <1>1, <1>3, <1>9, <1>10, <1>11, <1>2 DEF Tracking
<1>13. Followed'
  BY <1>2, <1>3, <1>10 DEF Followed
<1>14. Broken'
  <2>1. (0 + 1) * Bit = Bit /\ (1 + 1) * Bit = 2 * Bit
    BY <1>7
  <2>2. ASSUME brk PROVE ~Armed' /\ tx'.state = "IDLE" /\ pc' \notin Busy
    BY <1>0, <1>3, <1>5, <2>2
  <2>3. ASSUME brk, rx'.state # "IDLE"
        PROVE  Due1' >= 1 /\ held + Due1' + Latency < (Target' + 1) * Bit
    BY <1>1, <1>9, <1>10, <2>1, <2>3
  <2> QED BY <1>0, <2>2, <2>3 DEF Broken
<1>15. Content'
  <2>1. rx'.state = "DATA" => Armed' \/ brk'
    BY <1>0, <1>3, <1>4, <1>10
  <2>2. ASSUME rx'.state = "DATA", Armed' PROVE Split'
    <3>1. rx'.idx = 0 /\ rx'.shift = 0 /\ Target' = 1 /\ Symbol' = 0 /\ After' = came + 1
      BY <1>3, <1>10, <1>11, <2>2
    <3>2. Rest' = came + 1
      BY <3>1 DEF Rest
    <3>3. 0 < 1 /\ 1 * Weight(0) = 2 * Top /\ 0 = 0 * Weight(0) /\ came + 1 = 0 + 1 * (came + 1)
      BY Weights, RxTypes
    <3> QED BY <1>1, <3>1, <3>2, <3>3 DEF Split
  <2>3. ~Lagging /\ ~Lagging'
    BY <1>1 DEF Lagging
  <2>4. Sent' = came' + One(Loaded' \/ Armed') + One(Lagging')
    BY <1>0, <1>1, <1>3, <2>3 DEF Content, LineStays, One
  <2> QED BY <1>0, <1>1, <1>3, <1>10, <1>11, <2>1, <2>2, <2>4 DEF Content
<1> QED BY <1>6, <1>12, <1>13, <1>14, <1>15

LEMMA IsrSamples ==
  ASSUME InMargins, TInv, Receiver, Live, LineInv, Isr, RxSamples
  PROVE  Wired' /\ Tracking' /\ Followed' /\ Broken' /\ Content'
<1> USE DEF LineInv
<1> DEFINE k == rx.idx
<1>0. /\ UNCHANGED <<t, pin, brk, held, pc, fast, txIn>> /\ Level' = Level /\ ~Loaded /\ ~Loaded'
      /\ UNCHANGED <<ccp1.ie, ccp1.cb, ccp2.cb>> /\ ~ccp1'.flag /\ ~ccp2'.flag
  BY IsrFrame, IsrRxEffect, IsrTxEffect DEF Wired, Live, Loaded
<1>1. /\ ccp1.flag /\ rx.state = "DATA" /\ rx'.idx = k + 1 /\ UNCHANGED <<came, cameLast>>
      /\ rx'.state = IF k + 1 < Bits THEN "DATA" ELSE "STOP"
      /\ rx'.shift = (rx.shift \div 2) + Level * Top
      /\ ccp1'.mode = "soft" /\ ccp1'.reg = Later(ccp1.reg, Bit)
  BY DEF RxSamples, RxQuiet
<1>2. k \in 0 .. Bits - 1 /\ k \in Nat /\ Bits \in Nat /\ (k + 1 < Bits \/ k + 1 = Bits)
  BY <1>1, RxTypes, Sizes
<1>3. Target = k + 1 /\ Target' = k + 2
  BY <1>1, <1>2 DEF Target
<1>4. Armed => Symbol = k + 1 /\ Level = pin /\ ~brk
  BY <1>1, <1>3, Whereabouts DEF Level
<1>5. LineStays /\ (~Armed => tx'.state = tx.state) /\ (Armed' <=> Armed)
  BY <1>1, <1>2, <1>4, IsrStays DEF LineStays
<1>6. Armed \/ brk
  BY <1>1 DEF Content
<1>7. Wired'
  BY <1>0, <1>1, <1>2 DEF Wired
<1>8. /\ held \in Nat /\ Bit \in Nat \ {0} /\ Latency \in Nat /\ Over1 \in Nat
      /\ Over1 <= Latency /\ 2 * Latency < Bit /\ Due1' = Bit - Over1
  BY <1>1, LineTypes, Times, IsrTimes
<1>9. Tracking'
  <2>1. Armed => Over1 <= held /\ held + Latency < Bit + Over1
    BY <1>1 DEF Tracking
  <2>2. Armed => Target' = Symbol' + 1
    BY <1>2, <1>3, <1>4, <1>5 DEF LineStays
  <2> QED BY <1>0, <1>5, <1>8, <2>1, <2>2 DEF Tracking
<1>10. Followed'
  BY <1>1 DEF Followed
<1>11. Broken'
  <2>1. ASSUME brk PROVE ~Armed' /\ tx'.state = "IDLE" /\ pc' \notin Busy
    BY <1>0, <1>5, <2>1 DEF Broken
  <2>2. ASSUME brk PROVE Due1' >= 1 /\ held + Due1' + Latency < (Target' + 1) * Bit
    <3>1. held + Latency < (Target + 1) * Bit + Over1
      BY <1>1, <2>2 DEF Broken
    <3>2. (Target' + 1) * Bit = (Target + 1) * Bit + Bit
      BY <1>2, <1>3, <1>8
    <3>3. (Target + 1) * Bit \in Nat
      BY <1>2, <1>3, <1>8
    <3> QED BY <1>8, <3>1, <3>2, <3>3
  <2> QED BY <1>0, <1>1, <2>1, <2>2 DEF Broken
<1>12. ASSUME Armed
       PROVE  /\ k + 1 < Bits => Split'
              /\ k + 1 = Bits => rx'.shift = came + 1
  <2>1. PICK low \in Nat, w \in Nat :
          /\ low < w /\ w * Weight(k) = 2 * Top /\ rx.shift = low * Weight(k)
          /\ came + 1 = low + w * Rest
    BY <1>1, <1>12 DEF Content, Split
  <2>2. Rest = pin + 2 * After
    BY <1>3, <1>4, <1>12 DEF Rest
  <2>3. After \in Nat /\ pin \in {0, 1} /\ came + 1 \in Nat /\ rx.shift \in Nat
    <3>1. NextPin \in {0, 1} /\ tx.shift \in Nat
      BY TxTypes DEF NextPin
    <3> QED BY <3>1, LineTypes, RxTypes DEF After
  <2>4. /\ low + w * pin < 2 * w /\ low + w * pin \in Nat /\ 2 * w \in Nat
        /\ (2 * w) * Weight(k + 1) = 2 * Top
        /\ (rx.shift \div 2) + pin * Top = (low + w * pin) * Weight(k + 1)
        /\ came + 1 = (low + w * pin) + (2 * w) * After
        /\ k + 1 = Bits /\ came + 1 < 2 * Top => (rx.shift \div 2) + pin * Top = came + 1
    <3> DEFINE n == came + 1
               a == After
               s == rx.shift
    <3>1. Samples(k, low, w, pin, n, s, a)
      BY <1>2, <2>1, <2>2, <2>3 DEF Samples
    <3> HIDE DEF k, n, a, s
    <3>2. /\ low + w * pin < 2 * w /\ low + w * pin \in Nat /\ 2 * w \in Nat
          /\ (2 * w) * Weight(k + 1) = 2 * Top
          /\ (s \div 2) + pin * Top = (low + w * pin) * Weight(k + 1)
          /\ n = (low + w * pin) + (2 * w) * a
          /\ k + 1 = Bits /\ n < 2 * Top => (s \div 2) + pin * Top = n
      BY <3>1, SplitStep
    <3> QED BY <3>2 DEF n, a, s
  <2>5. rx'.shift = (rx.shift \div 2) + pin * Top
    BY <1>1, <1>4, <1>12
  <2>6. came + 1 < 2 * Top
    <3>1. Sent >= came + 1
      BY <1>0, <1>12, RxTypes DEF Content, One
    <3>2. Sent <= MaxTx /\ Sent \in Int
      BY WaitingType, TxTypes, Sizes
    <3> QED BY <3>1, <3>2, Sizes, RxTypes DEF Bytes
  <2>7. ASSUME k + 1 < Bits PROVE Split'
    <3>1. Rest' = After
      <4>1. Target' # Symbol' /\ After' = After
        BY <1>2, <1>3, <1>4, <1>5, <1>12 DEF LineStays
      <4> QED BY <4>1 DEF Rest
    <3>2. rx'.idx = k + 1 /\ came' = came
      BY <1>1
    <3> HIDE DEF k
    <3> QED BY <2>4, <2>5, <3>1, <3>2 DEF Split
  <2> QED BY <2>4, <2>5, <2>6, <2>7
<1>13. Content'
  <2>1. ~Lagging
    BY <1>1 DEF Lagging
  <2>2. Armed => ~Poised'
    <3>1. Poised => Symbol = Bits + 1
      BY DEF Symbol
    <3> QED BY <1>2, <1>4, <1>5, <3>1 DEF LineStays
  <2>3. ~Lagging'
    BY <1>0, <1>5, <1>6, <2>2 DEF Lagging
  <2>4. Sent' = came' + One(Loaded' \/ Armed') + One(Lagging')
    BY <1>0, <1>1, <1>5, <2>1, <2>3 DEF Content, LineStays, One
  <2>5. ~Armed /\ rx'.state = "STOP" => brk'
    BY <1>0, <1>6
  <2> QED BY <1>0, <1>1, <1>2, <1>5, <1>6, <1>12, <2>4, <2>5 DEF Content
<1> QED BY <1>7, <1>9, <1>10, <1>11, <1>13

LEMMA IsrEnds ==
  ASSUME InMargins, TInv, Receiver, Live, LineInv, Isr, RxEnds
  PROVE  /\ Wired' /\ Tracking' /\ Followed' /\ Broken' /\ Content'
         /\ Level = 1 => rx.shift = came + 1 /\ came < txIn
<1> USE DEF LineInv
<1>0. /\ UNCHANGED <<t, pin, brk, held, pc, fast, txIn>> /\ Level' = Level /\ ~Loaded /\ ~Loaded'
      /\ UNCHANGED <<ccp1.ie, ccp1.cb, ccp2.cb>> /\ ~ccp1'.flag /\ ~ccp2'.flag
  BY IsrFrame, IsrRxEffect, IsrTxEffect DEF Wired, Live, Loaded
<1>1. /\ ccp1.flag /\ rx.state = "STOP" /\ rx'.state = "IDLE" /\ ccp1'.mode = "capture"
      /\ came' = came + Level /\ cameLast' = IF Level = 1 THEN rx.shift ELSE cameLast
  BY DEF RxEnds
<1>2. Armed => Symbol = Bits + 1 /\ pin = 1 /\ ~brk
  BY <1>1, Whereabouts
<1>3. Level = IF brk THEN 0 ELSE 1
  BY <1>2 DEF Level, Shape
<1>4. ~brk => rx.shift = came + 1
  BY <1>1 DEF Content
<1>5. Sent = came + One(Armed) + One(Lagging) /\ came \in Nat /\ Sent \in Int /\ Sent <= txIn
      /\ txIn \in Nat
  <2>1. One(Loaded \/ Armed) = One(Armed)
    BY <1>0 DEF One
  <2>2. Sent = came + One(Armed) + One(Lagging)
    BY <2>1 DEF Content
  <2> QED BY <2>2, RxTypes, WaitingType, TxTypes
<1>6. ~brk => came < txIn
  <2>1. ~brk => Armed \/ Lagging
    BY <1>1 DEF Lagging
  <2> QED BY <1>5, <2>1 DEF One
<1>7. Wired'
  BY <1>0, <1>1, <1>3, <1>4, <1>5 DEF Wired
<1>8. Tracking'
  BY <1>1 DEF Tracking
<1>9. Armed' => Poised' /\ ~brk
  <2>1. CASE LineStays /\ UNCHANGED ccp2.reg /\ ~ccp2.flag
    <3>1. ASSUME Armed PROVE Poised
      <4>1. ~Poised => Symbol = Begins - 1
        BY <2>1 DEF Symbol
      <4>2. Begins \in Int /\ Begins <= Bits + 1 /\ Bits \in Nat
        BY TxTypes, Sizes DEF Begins
      <4> QED BY <1>2, <3>1, <4>1, <4>2
    <3> QED BY <1>2, <2>1, <3>1 DEF LineStays
  <2>2. CASE LineStays /\ ccp2.flag /\ Armed /\ ~Poised'
    <3>1. Symbol' = Begins' - 1 /\ Symbol' = Bits + 1
      <4>1. Symbol' = Begins' - 1
        BY <1>0, <2>2 DEF Symbol
      <4> QED BY <1>2, <2>2, <4>1 DEF LineStays
    <3>2. Begins' \in Int /\ Begins' <= Bits + 1 /\ Bits \in Nat
      <4>1. TInv => tx.idx \in 0 .. Bits
        BY TxTypes
      <4>2. tx'.idx \in Int /\ tx'.idx <= Bits + 1
        <5>1. TxNone \/ TxStops \/ TxTakes \/ TxShifts \/ TxEnds
          BY IsrTxEffect DEF Wired, Live
        <5>2. tx.idx \in 0 .. Bits /\ Bits \in Nat
          BY TxTypes, Sizes
        <5> QED BY <5>1, <5>2 DEF TxNone, TxStops, TxTakes, TxShifts, TxEnds
      <4>3. Bits \in Nat
        BY Sizes
      <4>4. Begins' \in {Bits + 1, tx'.idx}
        BY DEF Begins
      <4> QED BY <4>2, <4>3, <4>4
    <3>3. Begins' - 1 = Bits + 1
      BY <3>1
    <3>4. \A b \in Int, n \in Nat : b <= n + 1 => b - 1 # n + 1
      OBVIOUS
    <3> QED BY <3>2, <3>3, <3>4
  <2>3. CASE ByteStarts
    BY <1>2, <2>3 DEF ByteStarts
  <2>4. CASE LineRests
    BY <2>4 DEF LineRests
  <2> QED BY <2>1, <2>2, <2>3, <2>4, IsrSender2
<1>10. Followed'
  BY <1>9 DEF Followed
<1>11. Broken'
  <2>1. ASSUME brk PROVE ~Armed' /\ tx'.state = "IDLE" /\ pc' \notin Busy
    <3>1. ~Armed /\ tx.state = "IDLE" /\ pc \notin Busy /\ ~ccp2.flag
      BY <2>1 DEF Broken, TInv, Course
    <3>2. tx' = tx
      BY <3>1, IsrTxEffect DEF Wired, Live, TxNone, TxStops, TxTakes, TxShifts, TxEnds, TxNext
    <3> QED BY <1>0, <1>9, <2>1, <3>1, <3>2
  <2> QED BY <1>0, <1>1, <2>1 DEF Broken
<1>12. Content'
  <2>1. ~Lagging'
    BY <1>1 DEF Lagging
  <2>2. Sent' = came' + One(Armed')
    <3>1. CASE brk
      <4>1. ~Armed /\ ~Lagging /\ ~Armed'
        BY <1>9, <3>1 DEF Broken, Lagging
      <4>2. Sent' = Sent
        BY <4>1, IsrSender2 DEF LineStays, ByteStarts, LineRests
      <4> QED BY <1>1, <1>3, <1>5, <3>1, <4>1, <4>2 DEF One
    <3>2. CASE ~brk
      <4>1. came' = came + 1 /\ (Lagging <=> Poised \/ ~Armed)
        BY <1>1, <1>3, <3>2 DEF Lagging
      <4>2. CASE LineStays
        <5>1. Armed' => Poised
          BY <1>9, <4>2 DEF LineStays
        <5> QED BY <1>5, <4>1, <4>2, <5>1 DEF LineStays, One
      <4>3. CASE ByteStarts /\ ccp2.flag
        BY <1>5, <4>1, <4>3 DEF ByteStarts, One, Poised
      <4>4. CASE LineRests /\ ccp2.flag
        BY <1>5, <4>1, <4>4 DEF LineRests, One, Poised
      <4> QED BY <4>2, <4>3, <4>4, IsrSender2
    <3> QED BY <3>1, <3>2
  <2>3. Sent' = came' + One(Loaded' \/ Armed') + One(Lagging')
    <3>1. came' \in Int
      BY <1>1, <1>3, <1>5
    <3> QED BY <1>0, <2>1, <2>2, <3>1 DEF One
  <2> QED BY <1>0, <1>1, <2>3 DEF Content
<1> QED BY <1>3, <1>4, <1>6, <1>7, <1>8, <1>10, <1>11, <1>12

(* The service routine keeps the line, and hands over the next byte or     *)
(* none.                                                                   *)
Delivers == came' = came + 1 /\ cameLast' = came + 1 /\ came < txIn

LEMMA IsrLine ==
  ASSUME InMargins, TInv, Receiver, Live, LineInv, Isr
  PROVE  LineInv' /\ (Delivers \/ UNCHANGED <<came, cameLast>>)
<1>1. \/ RxNone \/ RxIgnores \/ RxTrusts \/ RxDoubts \/ RxDenies \/ RxAgrees
      \/ RxSamples \/ RxEnds
  BY IsrRxEffect DEF LineInv, Wired, Live
<1>2. Shape' /\ Pace' /\ Gap' /\ Outbox'
  BY IsrSender2, IsrPace
<1>3. Wired' /\ Tracking' /\ Followed' /\ Broken' /\ Content'
  BY <1>1, IsrIdle, IsrBegins, IsrSamples, IsrEnds
<1>4. CASE RxEnds
  <2>1. /\ came' = came + Level /\ cameLast' = IF Level = 1 THEN rx.shift ELSE cameLast
        /\ Level \in {0, 1} /\ came \in Nat
    BY <1>4, LineTypes, RxTypes DEF RxEnds
  <2>2. Level = 1 => rx.shift = came + 1 /\ came < txIn
    BY <1>4, IsrEnds
  <2>3. Delivers \/ UNCHANGED <<came, cameLast>>
    BY <2>1, <2>2 DEF Delivers
  <2> QED BY <1>2, <1>3, <2>3 DEF LineInv
<1>5. ~RxEnds => UNCHANGED <<came, cameLast>>
  BY <1>1 DEF RxNone, RxIgnores, RxTrusts, RxDoubts, RxDenies, RxAgrees, RxSamples, RxStarts,
     RxQuiet
<1> QED BY <1>2, <1>3, <1>4, <1>5 DEF LineInv

-----------------------------------------------------------------------------
(* A tick.  What falls in it: a match of the transmitter's compare, a      *)
(* match of the receiver's, the edge of a start bit.                       *)
Match2 == Armed /\ ~ccp2.flag /\ Due = 1
Match1 == rx.state # "IDLE" /\ ~ccp1.flag /\ Due1 = 1
Falls  == Match2 /\ ~brk /\ rx.state = "IDLE" /\ pin = 1 /\ NextPin = 0

LEMMA TickClock ==
  ASSUME InMargins, TInv, Receiver, Live, LineInv, Tick
  PROVE  /\ UNCHANGED <<tx, rx, pc, brk, fast, txIn, came, cameLast, chan, gie>>
         /\ UNCHANGED <<ccp2.mode, ccp2.reg, ccp2.ie, ccp2.cb>>
         /\ ccp1.flag \/ ccp2.flag => wait < Latency /\ wait' = wait + 1
         /\ pc # "idle" => spent < CallTime /\ spent' = spent + 1
         /\ ccp2'.flag <=> ccp2.flag \/ Match2
         /\ pin' = IF Match2 THEN NextPin ELSE pin
         /\ held' = IF Match2 THEN 0
                    ELSE IF held < IF brk THEN Frame ELSE Bit THEN held + 1 ELSE held
         /\ Match2 => Over' = 0
         /\ Armed /\ ccp2.flag => Over' = Over + 1 /\ Over < Latency
         /\ Armed /\ ~ccp2.flag /\ ~Match2 => Due >= 2 /\ Due' = Due - 1
<1> USE DEF LineInv
<1> DEFINE m == Matches(ccp2, t')
<1>1. UNCHANGED <<tx, rx, pc, brk, fast, txIn, came, cameLast, chan, gie>>
      /\ t' = Later(t, 1)
  BY DEF Tick, rxHist, hist, bounds
<1>2. ccp2' = [ccp2 EXCEPT !.flag = ccp2.flag \/ m]
  BY DEF Tick
<1>3. UNCHANGED <<ccp2.mode, ccp2.reg, ccp2.ie, ccp2.cb>> /\ ccp2'.flag = (ccp2.flag \/ m)
  BY <1>2 DEF TInv, Ccps, CcpType
<1>4. ccp1.flag \/ ccp2.flag => Pending
  BY DEF Pending, Wired, TInv, EventsOn
<1>5. ccp1.flag \/ ccp2.flag => wait < Latency /\ wait' = wait + 1
  BY <1>4 DEF Tick
<1>6. pc # "idle" => spent < CallTime /\ spent' = spent + 1
  BY DEF Tick
<1>7. /\ ccp2.reg \in 0 .. Wrap - 1 /\ t \in 0 .. Wrap - 1
      /\ Due \in Nat /\ Over \in Nat /\ wait \in 0 .. Latency /\ ccp2.flag \in BOOLEAN
      /\ ccp2.mode \in Names2
  BY LineTypes
<1>8. Armed /\ ccp2.flag => Over < Latency
  BY <1>5, <1>7, Times DEF TInv, Course
<1>9. Due' = Ahead(ccp2.reg, t') /\ Over' = Ahead(t', ccp2.reg)
  BY <1>3 DEF Due, Over
<1>10. /\ Due = 1 => t' = ccp2.reg
       /\ Due >= 1 => Due' = Due - 1
       /\ Over + 1 < Wrap => t' # ccp2.reg /\ Over' = Over + 1
       /\ t' = ccp2.reg => Due = 1 /\ Over' = 0
  BY <1>1, <1>7, <1>9, AheadStep DEF Due, Over
<1>11. m <=> Armed /\ ccp2.reg = t'
  BY <1>7 DEF Matches, Armed, Names2
<1>12. Armed /\ ccp2.flag => ~m /\ Over' = Over + 1
  BY <1>7, <1>8, <1>10, <1>11, Times
<1>13. Armed /\ ~ccp2.flag => (m <=> Due = 1) /\ Due >= 1 /\ (m => Over' = 0)
  BY <1>7, <1>10, <1>11 DEF Pace
<1>14. m <=> Match2
  BY <1>11, <1>12, <1>13 DEF Match2
<1>15. Armed /\ ~ccp2.flag /\ ~Match2 => Due >= 2 /\ Due' = Due - 1
  BY <1>7, <1>10, <1>13 DEF Match2
<1>16. pin' = IF Match2 THEN NextPin ELSE pin
  BY <1>14 DEF Tick, NextPin
<1>17. held' = IF Match2 THEN 0
               ELSE IF held < IF brk THEN Frame ELSE Bit THEN held + 1 ELSE held
  BY <1>14 DEF Tick
<1>18. Match2 => Over' = 0
  BY <1>13, <1>14 DEF Match2
<1> QED BY <1>1, <1>3, <1>5, <1>6, <1>8, <1>12, <1>14, <1>15, <1>16, <1>17, <1>18

LEMMA TickEdge ==
  ASSUME InMargins, TInv, Receiver, Live, LineInv, Tick
  PROVE  /\ UNCHANGED <<ccp1.mode, ccp1.ie, ccp1.cb>>
         /\ ccp1'.flag <=> ccp1.flag \/ Match1 \/ Falls
         /\ ccp1.flag => Over1 < Latency /\ (~Falls => Over1' = Over1 + 1)
         /\ Falls \/ Match1 => Over1' = 0
         /\ rx.state # "IDLE" /\ ~ccp1.flag /\ ~Match1 /\ Due1 >= 1 =>
              Due1 >= 2 /\ Due1' = Due1 - 1
<1> USE DEF LineInv
<1> DEFINE falls == Level' < Level /\ ccp1.mode = "capture"
           m == Matches(ccp1, t')
<1>1. brk' = brk /\ rx' = rx /\ t' = Later(t, 1) /\ t' \in 0 .. Wrap - 1
      /\ pin' = IF Match2 THEN NextPin ELSE pin
  BY TickClock, LaterType, LineTypes, Times DEF Tick
<1>2. ccp1' = [ccp1 EXCEPT !.flag = ccp1.flag \/ falls \/ m,
                           !.reg = IF falls THEN t' ELSE ccp1.reg]
  BY DEF Tick
<1>3. /\ UNCHANGED <<ccp1.mode, ccp1.ie, ccp1.cb>> /\ ccp1'.flag = (ccp1.flag \/ falls \/ m)
      /\ ccp1'.reg = IF falls THEN t' ELSE ccp1.reg
  <2> HIDE DEF falls, m
  <2> QED BY <1>2 DEF TInv, Ccps, CcpType
<1>4. falls <=> Falls
  <2>1. NextPin \in {0, 1} /\ pin \in {0, 1}
    BY LineTypes DEF NextPin
  <2>2. Level' < Level <=> ~brk /\ Match2 /\ pin = 1 /\ NextPin = 0
    BY <1>1, <2>1 DEF Level
  <2> QED BY <2>2 DEF Falls, Wired
<1>5. /\ ccp1.reg \in 0 .. Wrap - 1 /\ t \in 0 .. Wrap - 1
      /\ Due1 \in Nat /\ Over1 \in Nat /\ wait \in 0 .. Latency /\ ccp1.flag \in BOOLEAN
      /\ ccp1.mode \in Names1
  BY LineTypes
<1>6. ccp1.flag => Over1 < Latency
  <2>1. ccp1.flag => wait < Latency
    BY TickClock
  <2>2. ccp1.flag => Over1 <= wait
    BY DEF Wired
  <2> QED BY <1>5, <2>1, <2>2, Times
<1>7. /\ ~falls => Due1' = Ahead(ccp1.reg, t') /\ Over1' = Ahead(t', ccp1.reg)
      /\ falls => Over1' = Ahead(t', t')
  BY <1>3 DEF Due1, Over1
<1>8. Ahead(t', t') = 0
  BY <1>1 DEF Ahead
<1>9. /\ Due1 = 1 => t' = ccp1.reg
      /\ Due1 >= 1 => Ahead(ccp1.reg, t') = Due1 - 1
      /\ Over1 + 1 < Wrap => t' # ccp1.reg /\ Ahead(t', ccp1.reg) = Over1 + 1
      /\ t' = ccp1.reg => Due1 = 1 /\ Ahead(t', ccp1.reg) = 0
  BY <1>1, <1>5, AheadStep DEF Due1, Over1
<1>10. m <=> rx.state # "IDLE" /\ ccp1.reg = t'
  BY <1>5 DEF Matches, Names1, Wired
<1>11. falls => rx.state = "IDLE"
  BY <1>4 DEF Falls
<1>12. ccp1.flag => ~m /\ (~falls => Over1' = Over1 + 1)
  BY <1>5, <1>6, <1>7, <1>9, <1>10, Times
<1>13. ~ccp1.flag => (m <=> Match1)
  BY <1>9, <1>10 DEF Match1
<1>14. Match1 => Over1' = 0
  BY <1>7, <1>9, <1>11 DEF Match1
<1>15. falls => Over1' = 0
  BY <1>7, <1>8
<1>16. rx.state # "IDLE" /\ ~ccp1.flag /\ ~Match1 /\ Due1 >= 1 => Due1 >= 2 /\ Due1' = Due1 - 1
  BY <1>5, <1>7, <1>9, <1>11 DEF Match1
<1>17. ccp1'.flag <=> ccp1.flag \/ Match1 \/ Falls
  BY <1>3, <1>4, <1>12, <1>13 DEF Match1
<1> HIDE DEF falls, m
<1> QED BY <1>3, <1>4, <1>6, <1>12, <1>14, <1>15, <1>16, <1>17

(* A match of the transmitter's: the edge the receiver waits for, or the   *)
(* end of a symbol whose sample has been taken.                            *)
LEMMA TickMatch ==
  ASSUME InMargins, TInv, Receiver, Live, LineInv, Tick, Match2
  PROVE  /\ ~brk /\ (~Poised => Symbol = Begins - 1)
         /\ \/ Poised /\ rx.state = "IDLE" /\ tx.state = "DATA" /\ tx.idx = 0
            \/ /\ ~Poised /\ rx.state \in {"DATA", "STOP"} /\ Target = Symbol + 1 /\ ~ccp1.flag
               /\ Due1 >= 1 /\ Bit <= held + Due1 /\ held + Due1 + Latency < 2 * Bit
               /\ held = Bit - 1
<1> USE DEF LineInv
<1>1. Armed /\ ~ccp2.flag /\ Due = 1
  BY DEF Match2
<1>2. ~brk /\ (~Poised => Symbol = Begins - 1)
  BY <1>1 DEF Broken, Symbol
<1>3. /\ Bits \in Nat \ {0} /\ tx.state \in TxNames /\ rx.state \in RxNames
      /\ rx.idx \in 0 .. Bits /\ tx.idx \in 0 .. Bits /\ rx.state = "DATA" => rx.idx < Bits
      /\ held \in Nat /\ Due1 \in Nat /\ Over1 \in Nat /\ wait \in 0 .. Latency
      /\ Bit \in Nat \ {0} /\ Latency \in Nat
  BY TxTypes, RxTypes, Sizes, LineTypes, Times
<1>4. CASE rx.state = "IDLE"
  BY <1>1, <1>2, <1>4 DEF Followed, Poised
<1>5. CASE rx.state # "IDLE"
  <2>1. Poised => rx.state = "STOP"
    <3>1. Poised => Symbol = Bits + 1
      BY DEF Symbol
    <3> QED BY <1>1, <1>5, <3>1, Whereabouts
  <2>2. held = Bit - 1
    BY <1>1, <1>3, <2>1 DEF Pace
  <2>3. ~ccp1.flag
    <3>1. ccp1.flag => Over1 < Latency
      BY TickEdge
    <3>2. ccp1.flag => held + Latency < Bit + Over1
      BY <1>1, <1>5 DEF Tracking
    <3> QED BY <1>3, <2>2, <3>1, <3>2
  <2>4. /\ Target = Symbol + 1 /\ Due1 >= 1 /\ Bit <= held + Due1
        /\ held + Due1 + Latency < 2 * Bit
    <3>1. ~(Due1 >= 1 /\ held + Due1 + Latency < Bit)
      BY <1>3, <2>2
    <3> QED BY <1>1, <1>5, <2>3, <3>1 DEF Tracking
  <2>5. ~Poised
    <3>1. Poised => Symbol = Bits + 1 /\ Target = Bits + 1
      BY <1>1, <2>1, Whereabouts DEF Symbol
    <3> QED BY <1>3, <2>4, <3>1
  <2>6. rx.state # "CONFIRM"
    <3>1. ASSUME Begins = 0 PROVE Poised
      BY <1>1, <1>3, <3>1 DEF Begins, Poised, Shape, TxNames
    <3>2. rx.state = "CONFIRM" => 0 = (Begins - 1) + 1
      BY <1>2, <2>4, <2>5 DEF Target
    <3>3. Begins \in Int
      <4>1. Begins \in {Bits + 1, tx.idx}
        BY DEF Begins
      <4> QED BY <1>3, <4>1
    <3> QED BY <2>5, <3>1, <3>2, <3>3
  <2> QED BY <1>2, <1>3, <1>5, <2>2, <2>3, <2>4, <2>5, <2>6 DEF RxNames
<1> QED BY <1>4, <1>5

(* The transmitter's half after a tick.                                    *)
LEMMA TickSymbol ==
  ASSUME InMargins, TInv, Receiver, Live, LineInv, Tick
  PROVE  /\ Armed' <=> Armed
         /\ Begins' = Begins /\ NextPin' = NextPin /\ Target' = Target /\ Sent' = Sent
         /\ ~Match2 => /\ Symbol' = Symbol /\ After' = After /\ (Poised' <=> Poised)
                       /\ pin' = pin /\ Level' = Level /\ (ccp2'.flag <=> ccp2.flag)
         /\ Match2 => /\ ~Poised' /\ Symbol' = Begins /\ After' = tx.shift /\ ccp2'.flag
                      /\ pin' = NextPin
<1>1. /\ UNCHANGED <<tx, rx, pc, brk, txIn, ccp2.mode>>
      /\ ccp2'.flag <=> ccp2.flag \/ Match2
      /\ pin' = IF Match2 THEN NextPin ELSE pin
  BY TickClock
<1>2. /\ Armed' <=> Armed
      /\ Begins' = Begins /\ NextPin' = NextPin /\ Target' = Target /\ Sent' = Sent
  BY <1>1 DEF Armed, Begins, NextPin, Target, Sent, Waiting
<1>3. CASE ~Match2
  <2>1. (ccp2'.flag <=> ccp2.flag) /\ pin' = pin
    BY <1>1, <1>3
  <2> QED BY <1>1, <1>2, <1>3, <2>1 DEF Symbol, After, Poised, Level
<1>4. CASE Match2
  <2>1. ccp2'.flag /\ pin' = NextPin
    BY <1>1, <1>4
  <2> QED BY <1>1, <1>2, <1>4, <2>1 DEF Symbol, After, Poised
<1> QED BY <1>2, <1>3, <1>4

LEMMA TickSends ==
  ASSUME InMargins, TInv, Receiver, Live, LineInv, Tick
  PROVE  Shape' /\ Pace' /\ Gap' /\ Outbox'
<1> USE DEF LineInv
<1>1. /\ UNCHANGED <<tx, rx, pc, brk, txIn, ccp2.mode>>
      /\ pc # "idle" => spent < CallTime /\ spent' = spent + 1
      /\ ccp2'.flag <=> ccp2.flag \/ Match2
      /\ held' = IF Match2 THEN 0
                 ELSE IF held < IF brk THEN Frame ELSE Bit THEN held + 1 ELSE held
      /\ Match2 => Over' = 0
      /\ Armed /\ ccp2.flag => Over' = Over + 1 /\ Over < Latency
      /\ Armed /\ ~ccp2.flag /\ ~Match2 => Due >= 2 /\ Due' = Due - 1
  BY TickClock
<1>2. /\ Bits \in Nat \ {0} /\ tx.state \in TxNames /\ tx.idx \in 0 .. Bits
      /\ held \in Nat /\ Due \in Nat /\ Over \in Nat /\ spent \in 0 .. CallTime
      /\ Bit \in Nat \ {0} /\ Latency \in Nat /\ CallTime \in Nat /\ CallTime < Bit
      /\ Latency < Bit /\ ccp2.flag \in BOOLEAN
  BY TxTypes, Sizes, LineTypes, Times
<1>3. (Arming' <=> Arming) /\ (Writing' <=> Writing) /\ (Starting' <=> Starting)
      /\ (Loaded' <=> Loaded) /\ (Fresh' <=> Fresh) /\ Waiting' = Waiting
  BY <1>1 DEF Arming, Writing, Starting, Loaded, Fresh, Waiting
<1>4. Armed => ~brk
  BY DEF Broken
<1>5. Shape'
  <2>1. CASE ~Match2
    BY <1>1, <1>3, <2>1, TickSymbol DEF Shape
  <2>2. CASE Match2
    <3>1. Begins = 0 => NextPin = 0
      BY <1>2, <2>2 DEF Match2, Begins, Shape, NextPin, TxNames
    <3> QED BY <1>1, <1>3, <2>2, <3>1, TickSymbol DEF Shape, Match2
  <2> QED BY <2>1, <2>2
<1>6. Pace'
  <2>1. CASE Match2
    BY <1>1, <2>1, TickSymbol DEF Pace
  <2>2. CASE Armed /\ ccp2.flag
    <3>1. ~Match2 /\ held = Over
      BY <2>2 DEF Match2, Pace
    <3>2. held' = held + 1
      BY <1>1, <1>2, <1>4, <2>2, <3>1
    <3> QED BY <1>1, <2>2, <3>1, <3>2, TickSymbol DEF Pace
  <2>3. CASE Armed /\ ~ccp2.flag /\ ~Match2
    <3>1. ~ccp2'.flag /\ Due' = Due - 1 /\ Due >= 2
      BY <1>1, <2>3
    <3>2. ASSUME ~Poised' \/ rx'.state = "STOP" PROVE held' + Due' = Bit
      <4>1. held + Due = Bit
        BY <1>1, <2>3, <3>2, TickSymbol DEF Pace
      <4>2. held < Bit
        BY <1>2, <3>1, <4>1
      <4>3. held' = held + 1
        BY <1>1, <1>4, <2>3, <4>2
      <4> QED BY <1>2, <3>1, <4>1, <4>3
    <3>3. Due' >= 1
      BY <1>2, <3>1
    <3> QED BY <3>1, <3>2, <3>3 DEF Pace
  <2> QED BY <2>1, <2>2, <2>3, TickSymbol DEF Pace
<1>7. Gap'
  <2>1. ASSUME Writing, tx.state = "DATA", ccp2'.flag
        PROVE  Over' + CallTime < Bit + spent'
    <3>1. spent' = spent + 1
      BY <1>1, <2>1 DEF Writing
    <3>2. CASE ccp2.flag
      <4>1. Over' = Over + 1 /\ Over + CallTime < Bit + spent
        BY <1>1, <2>1, <3>2 DEF Gap, TInv, Course
      <4> QED BY <1>2, <3>1, <4>1
    <3>3. CASE Match2
      BY <1>1, <1>2, <3>1, <3>3
    <3> QED BY <1>1, <2>1, <3>2, <3>3
  <2>2. ASSUME Writing, tx.state = "STOP"
        PROVE  ~ccp2'.flag /\ CallTime < Due' + spent'
    <3>1. ~ccp2.flag /\ CallTime < Due + spent /\ spent < CallTime /\ spent' = spent + 1
      BY <1>1, <2>2 DEF Gap, Writing
    <3>2. Armed
      BY <2>2 DEF Shape
    <3>3. Due >= 2
      BY <1>2, <3>1
    <3>4. ~Match2
      BY <1>2, <3>3 DEF Match2
    <3>5. Due' = Due - 1
      BY <1>1, <3>1, <3>2, <3>4
    <3> QED BY <1>1, <1>2, <3>1, <3>4, <3>5
  <2>3. Fresh => ~Armed' /\ ~ccp2'.flag /\ RxRest' /\ ~brk'
    <3>1. ASSUME Fresh PROVE ~Armed /\ ~ccp2.flag /\ RxRest /\ ~brk /\ ~Match1 /\ ~Match2
      BY <3>1 DEF Gap, RxRest, Match1, Match2
    <3>2. Fresh => ~ccp1'.flag
      BY <3>1, TickEdge DEF Falls, RxRest
    <3> QED BY <1>1, <3>1, <3>2, TickSymbol DEF RxRest
  <2> QED BY <1>1, <1>3, <2>1, <2>2, <2>3 DEF Gap
<1>8. Outbox'
  <2>1. Poised' => Poised
    BY TickSymbol
  <2> QED BY <1>1, <1>3, <2>1, TickSymbol DEF Outbox
<1> QED BY <1>5, <1>6, <1>7, <1>8

LEMMA TickHears ==
  ASSUME InMargins, TInv, Receiver, Live, LineInv, Tick
  PROVE  Wired' /\ Tracking' /\ Followed' /\ Broken'
<1> USE DEF LineInv
<1>1. /\ UNCHANGED <<tx, rx, pc, brk, came, cameLast, ccp2.cb, ccp1.mode, ccp1.ie, ccp1.cb>>
      /\ ccp1.flag \/ ccp2.flag => wait < Latency /\ wait' = wait + 1
      /\ ccp2'.flag <=> ccp2.flag \/ Match2
      /\ held' = IF Match2 THEN 0
                 ELSE IF held < IF brk THEN Frame ELSE Bit THEN held + 1 ELSE held
      /\ Armed /\ ccp2.flag => Over' = Over + 1 /\ Over < Latency
      /\ Armed /\ ~ccp2.flag /\ ~Match2 => Due >= 2 /\ Due' = Due - 1
  BY TickClock, TickEdge
<1>2. /\ ccp1'.flag <=> ccp1.flag \/ Match1 \/ Falls
      /\ ccp1.flag => Over1 < Latency /\ (~Falls => Over1' = Over1 + 1)
      /\ Falls \/ Match1 => Over1' = 0
      /\ rx.state # "IDLE" /\ ~ccp1.flag /\ ~Match1 /\ Due1 >= 1 => Due1 >= 2 /\ Due1' = Due1 - 1
  BY TickEdge
<1>3. /\ Bits \in Nat \ {0} /\ held \in Nat /\ Due \in Nat /\ Over \in Nat
      /\ Due1 \in Nat /\ Over1 \in Nat /\ wait \in 0 .. Latency /\ wait' \in Nat
      /\ Bit \in Nat \ {0} /\ Latency \in Nat /\ Latency < Bit /\ Bit <= Frame /\ Frame \in Nat
      /\ Target \in Nat /\ Symbol \in Int
  <2>1. Target \in Nat
    BY RxTypes, Sizes DEF Target
  <2>2. wait' \in Nat
    BY LineTypes, Times DEF Tick
  <2>3. Symbol \in Int
    <3>1. Begins \in {Bits + 1, tx.idx}
      BY DEF Begins
    <3>2. Symbol \in {Bits + 1, Begins, Begins - 1}
      BY DEF Symbol
    <3> QED BY <3>1, <3>2, TxTypes, Sizes
  <2> QED BY <2>1, <2>2, <2>3, Sizes, LineTypes, Times
<1>4. Armed => ~brk
  BY DEF Broken
<1>5. Wired'
  <2>1. ASSUME ccp1'.flag PROVE Over1' <= wait'
    <3>1. CASE Falls \/ Match1
      BY <1>2, <1>3, <3>1
    <3>2. CASE ccp1.flag /\ ~Falls
      BY <1>1, <1>2, <1>3, <3>2 DEF Wired
    <3> QED BY <1>2, <2>1, <3>1, <3>2
  <2> QED BY <1>1, <2>1 DEF Wired
<1>6. ASSUME Armed, rx.state # "IDLE", ~Match2
      PROVE  Tracking'
  <2>1. ~Poised \/ rx.state = "STOP"
    <3>1. Poised => Symbol = Bits + 1
      BY DEF Symbol
    <3> QED BY <1>6, <3>1, Whereabouts
  <2>2. /\ ccp2.flag => held = Over /\ Over < Latency
        /\ ~ccp2.flag => held + Due = Bit /\ Due >= 2
    BY <1>1, <1>6, <2>1 DEF Pace
  <2>3. held < Bit /\ held' = held + 1 /\ ~Falls
    <3>1. held < Bit
      BY <1>3, <2>2
    <3> QED BY <1>1, <1>4, <1>6, <3>1 DEF Falls
  <2>4. Symbol' = Symbol /\ Target' = Target
    BY <1>6, TickSymbol
  <2>5. CASE /\ ccp1.flag /\ Target = Symbol
             /\ Over1 <= held /\ held + Latency < Bit + Over1
    <3>1. Over1' = Over1 + 1 /\ ccp1'.flag
      BY <1>2, <2>3, <2>5
    <3> QED BY <1>3, <2>3, <2>4, <2>5, <3>1 DEF Tracking
  <2>6. CASE /\ ~ccp1.flag /\ Due1 >= 1 /\ Target = Symbol
             /\ held + Due1 + Latency < Bit
    <3>1. CASE Match1
      <4>1. ccp1'.flag /\ Over1' = 0 /\ Due1 = 1
        BY <1>2, <3>1 DEF Match1
      <4> QED BY <1>3, <2>3, <2>4, <2>6, <4>1 DEF Tracking
    <3>2. CASE ~Match1
      <4>1. ~ccp1'.flag /\ Due1' = Due1 - 1 /\ Due1 >= 2
        BY <1>2, <1>6, <2>3, <2>6, <3>2
      <4> QED BY <1>3, <2>3, <2>4, <2>6, <4>1 DEF Tracking
    <3> QED BY <3>1, <3>2
  <2>7. CASE /\ ~ccp1.flag /\ Due1 >= 1 /\ Target = Symbol + 1
             /\ Bit <= held + Due1 /\ held + Due1 + Latency < 2 * Bit
    <3>1. ~Match1
      <4>1. Due1 = 1 => held >= Bit - 1
        BY <1>3, <2>7
      <4>2. 2 * Latency < Bit
        BY Times
      <4> QED BY <1>3, <2>2, <4>1, <4>2 DEF Match1
    <3>2. ~ccp1'.flag /\ Due1' = Due1 - 1 /\ Due1 >= 2
      BY <1>2, <1>6, <2>3, <2>7, <3>1
    <3> QED BY <1>3, <2>3, <2>4, <2>7, <3>2 DEF Tracking
  <2> QED BY <1>6, <2>5, <2>6, <2>7 DEF Tracking
<1>7. ASSUME rx.state # "IDLE", Match2 PROVE Tracking'
  <2>1. /\ ~Poised /\ Target = Symbol + 1 /\ ~ccp1.flag
        /\ Due1 >= 1 /\ held + Due1 + Latency < 2 * Bit /\ held = Bit - 1
        /\ Symbol = Begins - 1
    BY <1>7, TickMatch
  <2>2. Symbol' = Symbol + 1 /\ Target' = Target /\ held' = 0 /\ ~Falls
    <3>1. Begins \in {Bits + 1, tx.idx}
      BY DEF Begins
    <3>2. Begins \in Int
      BY <3>1, TxTypes, Sizes
    <3> QED BY <1>1, <1>7, <2>1, <3>2, TickSymbol DEF Falls
  <2>3. CASE Match1
    <3>1. ccp1'.flag /\ Over1' = 0
      BY <1>2, <2>3
    <3> QED BY <1>3, <2>1, <2>2, <3>1 DEF Tracking
  <2>4. CASE ~Match1
    <3>1. ~ccp1'.flag /\ Due1' = Due1 - 1 /\ Due1 >= 2
      BY <1>2, <1>7, <2>1, <2>2, <2>4
    <3> QED BY <1>3, <2>1, <2>2, <3>1 DEF Tracking
  <2> QED BY <2>3, <2>4
<1>8. Tracking'
  BY <1>1, <1>6, <1>7, TickSymbol DEF Tracking
<1>9. Followed'
  <2>1. CASE Match2
    <3>1. ASSUME rx.state = "IDLE"
          PROVE  Falls /\ Symbol' = 0 /\ ccp2'.flag /\ held' = 0
      <4>1. Poised /\ tx.state = "DATA" /\ tx.idx = 0 /\ ~brk
        BY <2>1, <3>1, TickMatch
      <4>2. pin = 1 /\ NextPin = 0 /\ Begins = 0
        BY <4>1 DEF Shape, Poised, NextPin, Begins
      <4> QED BY <1>1, <2>1, <3>1, <4>1, <4>2, TickSymbol DEF Falls
    <3> QED BY <1>1, <1>2, <3>1 DEF Followed
  <2>2. CASE ~Match2
    <3>1. ASSUME Armed, ~Poised, rx.state = "IDLE"
          PROVE  ccp1'.flag /\ ccp2'.flag /\ Symbol' = 0 /\ Over1' = held'
      <4>1. ccp1.flag /\ ccp2.flag /\ Symbol = 0 /\ Over1 = held
        BY <3>1 DEF Followed
      <4>2. ~Falls /\ Over1' = Over1 + 1 /\ held < Bit
        BY <1>2, <1>3, <2>2, <4>1 DEF Falls
      <4>3. held' = held + 1
        BY <1>1, <1>4, <2>2, <3>1, <4>2
      <4> QED BY <1>1, <1>2, <2>2, <4>1, <4>2, <4>3, TickSymbol
    <3> QED BY <1>1, <2>2, <3>1, TickSymbol DEF Followed
  <2> QED BY <2>1, <2>2
<1>10. Broken'
  <2> SUFFICES ASSUME brk PROVE Broken'
    BY <1>1 DEF Broken
  <2>1. ~Armed /\ ~Match2 /\ ~Falls /\ tx.state = "IDLE" /\ pc \notin Busy
    BY DEF Broken, Match2, Falls
  <2>2. held' = IF held < Frame THEN held + 1 ELSE held
    BY <1>1, <2>1
  <2>3. ASSUME rx.state = "IDLE", ccp1'.flag PROVE Over1' = held'
    <3>1. ccp1.flag
      BY <1>2, <2>1, <2>3 DEF Match1
    <3>2. Over1 = held /\ Over1' = Over1 + 1 /\ Over1 < Latency
      BY <1>2, <2>1, <2>3, <3>1 DEF Broken
    <3> QED BY <1>3, <2>2, <3>2
  <2> DEFINE end == (Target + 1) * Bit
  <2>4. end \in Nat /\ end' = end
    <3>1. Target' = Target
      BY TickSymbol
    <3> QED BY <1>3, <3>1
  <2>5. ASSUME rx.state # "IDLE"
        PROVE  \/ ccp1'.flag /\ Over1' <= held' /\ held' + Latency < end + Over1'
               \/ ~ccp1'.flag /\ Due1' >= 1 /\ held' + Due1' + Latency < end
    <3>1. \/ ccp1.flag /\ Over1 <= held /\ held + Latency < end + Over1
          \/ ~ccp1.flag /\ Due1 >= 1 /\ held + Due1 + Latency < end
      BY <2>5 DEF Broken
    <3> HIDE DEF end
    <3>2. CASE ccp1.flag
      <4>1. ccp1'.flag /\ Over1' = Over1 + 1 /\ Over1 < Latency
        BY <1>2, <2>1, <3>2
      <4> QED BY <1>3, <2>2, <2>4, <3>1, <3>2, <4>1
    <3>3. CASE Match1
      <4>1. ccp1'.flag /\ Over1' = 0 /\ Due1 = 1 /\ ~ccp1.flag
        BY <1>2, <3>3 DEF Match1
      <4> QED BY <1>3, <2>2, <2>4, <3>1, <4>1
    <3>4. CASE ~ccp1.flag /\ ~Match1
      <4>1. ~ccp1'.flag /\ Due1' = Due1 - 1 /\ Due1 >= 2
        BY <1>2, <2>1, <2>5, <3>1, <3>4
      <4> QED BY <1>3, <2>2, <2>4, <3>1, <3>4, <4>1
    <3> QED BY <3>2, <3>3, <3>4
  <2> HIDE DEF end
  <2>6. end' = (Target' + 1) * Bit
    BY DEF end
  <2> QED BY <1>1, <2>1, <2>3, <2>4, <2>5, <2>6, TickSymbol DEF Broken
<1> QED BY <1>5, <1>8, <1>9, <1>10

LEMMA TickCarries ==
  ASSUME InMargins, TInv, Receiver, Live, LineInv, Tick
  PROVE  Content'
<1> USE DEF LineInv
<1>1. UNCHANGED <<tx, rx, pc, brk, fast, came>> /\ (Loaded' <=> Loaded)
  BY TickClock DEF Loaded
<1>2. CASE ~Match2
  <2>1. ~Falls
    BY <1>2 DEF Falls
  <2>2. rx.state = "IDLE" => (ccp1'.flag <=> ccp1.flag)
    BY <2>1, TickEdge DEF Match1
  <2>3. (Lagging' <=> Lagging) /\ Rest' = Rest
    BY <1>1, <1>2, TickSymbol DEF Lagging, Rest
  <2>4. Split => Split'
    BY <1>1, <2>3 DEF Split
  <2> QED BY <1>1, <1>2, <2>2, <2>3, <2>4, TickSymbol DEF Content
<1>3. CASE Match2
  <2>1. Armed /\ Armed' /\ Symbol' = Begins /\ After' = tx.shift /\ pin' = NextPin /\ ~Poised'
        /\ Target' = Target /\ Sent' = Sent /\ ~ccp2.flag
    BY <1>3, TickSymbol DEF Match2
  <2>2. came \in Nat
    BY RxTypes
  <2>3. CASE Poised /\ rx.state = "IDLE"
    <3>1. ~Lagging /\ ~Lagging'
      BY <1>1, <2>3 DEF Lagging
    <3>2. tx.shift = Sent /\ Sent = came + 1
      BY <2>1, <2>2, <2>3, <3>1 DEF Outbox, Content, One
    <3>3. Sent' = came' + One(Loaded' \/ Armed') + One(Lagging')
      BY <1>1, <2>1, <2>2, <3>1, <3>2 DEF One
    <3> QED BY <1>1, <2>1, <2>3, <3>2, <3>3 DEF Content
  <2>4. CASE /\ ~Poised /\ rx.state \in {"DATA", "STOP"} /\ Target = Symbol + 1
             /\ Symbol = Begins - 1 /\ ~brk
    <3>1. ~Lagging /\ ~Lagging'
      BY <1>1, <2>1, <2>4 DEF Lagging
    <3>2. Target = Begins /\ Target # Symbol
      <4>1. Begins \in {Bits + 1, tx.idx}
        BY DEF Begins
      <4> QED BY <2>4, <4>1, TxTypes, Sizes
    <3>3. rx.state = "DATA" => Split'
      <4>1. ASSUME rx.state = "DATA" PROVE Rest' = Rest
        <5>1. Target < Bits + 1
          BY <4>1, RxTypes, Sizes DEF Target
        <5>2. tx.state # "IDLE"
          BY <3>2, <5>1, Sizes DEF Begins
        <5>3. After = NextPin + 2 * tx.shift
          BY <2>1, <5>2 DEF After
        <5> QED BY <2>1, <3>2, <5>3 DEF Rest
      <4> QED BY <1>1, <2>1, <4>1 DEF Content, Split
    <3>4. Sent' = came' + One(Loaded' \/ Armed') + One(Lagging')
      BY <1>1, <2>1, <3>1 DEF Content, One
    <3> QED BY <1>1, <2>1, <2>4, <3>3, <3>4 DEF Content
  <2> QED BY <1>3, <2>3, <2>4, TickMatch
<1> QED BY <1>2, <1>3

LEMMA TickLine ==
  ASSUME InMargins, TInv, Receiver, Live, LineInv, Tick
  PROVE  LineInv'
BY TickSends, TickHears, TickCarries DEF LineInv

-----------------------------------------------------------------------------
(* Steps of the main line.  Most leave both halves of the line alone, or   *)
(* touch the ring only.                                                    *)
LEMMA LineKept ==
  ASSUME LineInv,
         UNCHANGED <<t, pin, brk, held, wait, fast, ccp1, ccp2, came, cameLast>>,
         UNCHANGED <<rx.state, rx.idx, rx.shift, tx.state, tx.idx, tx.shift>>,
         Arming' <=> Arming, Loaded' <=> Loaded, brk => pc' \notin Busy,
         Gap', Outbox', Sent' = Sent
  PROVE  LineInv'
<1> USE DEF LineInv
<1>1. /\ (Armed' <=> Armed) /\ (Poised' <=> Poised) /\ Begins' = Begins /\ NextPin' = NextPin
      /\ Due' = Due /\ Over' = Over /\ Due1' = Due1 /\ Over1' = Over1 /\ Target' = Target
  BY DEF Armed, Poised, Begins, NextPin, Due, Over, Due1, Over1, Target
<1>2. Symbol' = Symbol /\ After' = After /\ (Lagging' <=> Lagging)
  BY <1>1 DEF Symbol, After, Lagging
<1>3. Shape' /\ Pace'
  BY <1>1, <1>2 DEF Shape, Pace
<1>4. Wired' /\ Tracking' /\ Followed' /\ Broken'
  BY <1>1, <1>2 DEF Wired, Tracking, Followed, Broken
<1>5. Content'
  <2>1. Rest' = Rest
    BY <1>1, <1>2 DEF Rest
  <2>2. Split => Split'
    BY <2>1 DEF Split
  <2> QED BY <1>1, <1>2, <2>2 DEF Content
<1> QED BY <1>3, <1>4, <1>5

(* A line at rest.                                                         *)
LEMMA RestLine ==
  ASSUME Wired', Shape', Gap', Outbox', ~Armed', RxRest', ~brk', came' \in Nat,
         Sent' = came' + One(Loaded')
  PROVE  LineInv'
<1>1. Pace' /\ Tracking' /\ Followed' /\ Broken'
  BY DEF Pace, Tracking, Followed, Broken
<1>2. Content'
  <2>1. ~Lagging' /\ One(Loaded' \/ Armed') = One(Loaded')
    BY DEF Lagging, RxRest, One
  <2>2. One(Loaded') \in Nat /\ One(Lagging') = 0
    BY <2>1 DEF One
  <2> QED BY <2>1, <2>2 DEF Content, RxRest
<1> QED BY <1>1, <1>2 DEF LineInv

(* Read, GetErrorCount, and the steps of none: nothing the line depends    *)
(* on.                                                                     *)
LEMMA OtherLine ==
  ASSUME LineInv,
         UNCHANGED <<t, pin, brk, held, wait, fast, ccp1, ccp2, came, cameLast, tx, txIn>>,
         UNCHANGED <<rx.state, rx.idx, rx.shift>>,
         \/ UNCHANGED <<pc, spent>>
         \/ pc \notin Busy /\ pc' \notin Busy
  PROVE  LineInv'
<1> USE DEF LineInv
<1>1. CASE UNCHANGED <<pc, spent>>
  <2>1. /\ (Arming' <=> Arming) /\ (Loaded' <=> Loaded) /\ (Fresh' <=> Fresh)
        /\ (Writing' <=> Writing) /\ Waiting' = Waiting /\ Sent' = Sent
        /\ Due' = Due /\ Over' = Over /\ (Armed' <=> Armed) /\ (RxRest' <=> RxRest)
        /\ (Poised' <=> Poised)
    BY <1>1 DEF Arming, Loaded, Fresh, Writing, Starting, Waiting, Sent, Due, Over, Armed,
       RxRest, Poised
  <2>2. Gap'
    BY <1>1, <2>1 DEF Gap
  <2>3. Outbox'
    BY <1>1, <2>1 DEF Outbox
  <2>4. brk => pc' \notin Busy
    BY <1>1 DEF Broken
  <2> QED BY <2>1, <2>2, <2>3, <2>4, LineKept
<1>2. CASE pc \notin Busy /\ pc' \notin Busy
  <2>1. /\ ~Arming' /\ ~Arming /\ ~Loaded /\ ~Loaded' /\ ~Fresh' /\ ~Writing'
        /\ pc # "wCount" /\ pc # "aCount" /\ pc' # "wCount" /\ pc' # "aCount" /\ pc' # "aTail"
    BY <1>2 DEF Busy, Arming, Loaded, Fresh, Writing, Starting
  <2>2. Waiting' = Waiting /\ Sent' = Sent /\ (Poised' <=> Poised)
    BY <2>1 DEF Waiting, Sent, Poised, Armed
  <2>3. Gap'
    BY <2>1 DEF Gap
  <2>4. Outbox'
    BY <2>1, <2>2 DEF Outbox
  <2> QED BY <1>2, <2>1, <2>2, <2>3, <2>4, LineKept
<1> QED BY <1>1, <1>2

LEMMA ReadLine ==
  ASSUME Receiver, LineInv,
         \/ AppErrors \/ AppRead \/ ReadTest \/ ReadLoad \/ ReadCount
         \/ ErrLo("eLo", "eHi") \/ ErrFirst \/ ErrLo("eLo2", "eHi2") \/ ErrSecond
         \/ UNCHANGED vars
  PROVE  LineInv' /\ UNCHANGED <<came, cameLast, txIn>>
<1> USE DEF Call, Step, At, Others, NoTime, clock, ccps
<1>1. CASE UNCHANGED vars
  <2>1. /\ UNCHANGED <<t, pin, brk, held, wait, fast, ccp1, ccp2, came, cameLast, tx, txIn>>
        /\ UNCHANGED <<rx, pc, spent>>
    BY <1>1 DEF vars, rxHist, hist, bounds
  <2> QED BY <2>1, OtherLine
<1>2. CASE \/ AppErrors \/ AppRead \/ ReadTest \/ ReadLoad \/ ReadCount
           \/ ErrLo("eLo", "eHi") \/ ErrFirst \/ ErrLo("eLo2", "eHi2") \/ ErrSecond
  <2>1. UNCHANGED <<t, pin, brk, held, wait, fast, ccp1, ccp2, came, cameLast, tx, txIn>>
    BY <1>2 DEF AppErrors, AppRead, ReadTest, ReadLoad, ReadCount, ErrLo, ErrFirst, ErrSecond,
       hist, bounds
  <2>2. /\ pc \in {"idle", "rTest", "rLoad", "rCount"} \cup InErrors
        /\ pc' \in {"idle", "rTest", "rLoad", "rCount"} \cup InErrors
    BY <1>2 DEF AppErrors, AppRead, ReadTest, ReadLoad, ReadCount, ErrLo, ErrFirst, ErrSecond,
       InErrors
  <2>3. UNCHANGED <<rx.state, rx.idx, rx.shift>>
    <3>1. rx' \in {rx, [rx EXCEPT !.tail = Succ(rx.tail)], [rx EXCEPT !.count = Dec(rx.count)]}
      BY <1>2 DEF AppErrors, AppRead, ReadTest, ReadLoad, ReadCount, ErrLo, ErrFirst, ErrSecond
    <3>2. rx \in [state : RxNames, shift : Bytes, idx : 0 .. Bits, buf : [Places -> Bytes],
                  head : Places, tail : Places, count : Levels]
      BY HandleIs DEF Receiver
    <3> QED BY <3>1, <3>2
  <2>4. pc \notin Busy /\ pc' \notin Busy
    BY <2>2 DEF Busy, InErrors
  <2> QED BY <2>1, <2>3, <2>4, OtherLine
<1> QED BY <1>1, <1>2

-----------------------------------------------------------------------------
(* Write.                                                                  *)
LEMMA TxRecord ==
  ASSUME TInv
  PROVE  tx \in [state : TxNames, shift : Bytes, idx : 0 .. Bits, buf : [Places -> Bytes],
                 head : Places, tail : Places, count : Levels]
BY HandleIs DEF TInv, Sender

LEMMA BeginLine ==
  ASSUME InMargins, TInv, Receiver, ~WritesAnyTime, CallFits, LineInv,
         NEW n \in 1 .. MaxTx, AppWrite(n)
  PROVE  LineInv' /\ UNCHANGED <<came, cameLast, txIn>>
<1> USE DEF LineInv
<1>1. /\ UNCHANGED <<t, pin, brk, held, wait, fast, ccp1, ccp2, came, cameLast, tx, rx, txIn>>
      /\ pc = "idle" /\ pc' = "wStore" /\ spent' = 0 /\ chan /\ ~brk
      /\ tx.state = "DATA" \/ Quiet
  BY DEF AppWrite, Call, At, Others, NoTime, clock, ccps, hist
<1>2. /\ ~Arming /\ ~Arming' /\ ~Loaded /\ ~Loaded' /\ Waiting' = Waiting /\ Sent' = Sent
      /\ (Fresh' <=> tx.state = "IDLE") /\ Writing'
  BY <1>1 DEF Arming, Loaded, Waiting, Sent, Fresh, Writing, Starting
<1>3. Gap'
  <2>1. ASSUME tx.state = "DATA", ccp2.flag PROVE Over' + CallTime < Bit + spent'
    <3>1. Live
      BY <1>1 DEF Live, InDeInit
    <3>2. Over' = Over /\ Over <= wait
      BY <1>1, <2>1, <3>1 DEF Over, TInv, Course
    <3> QED BY <1>1, <3>2, LineTypes, Times DEF CallFits
  <2>2. tx.state # "STOP"
    BY <1>1 DEF Quiet
  <2>3. tx.state = "IDLE" => ~Armed' /\ ~ccp2'.flag /\ RxRest' /\ ~brk'
    BY <1>1 DEF Quiet, Armed, RxRest
  <2> QED BY <1>1, <1>2, <2>1, <2>2, <2>3 DEF Gap
<1>4. Outbox'
  <2>1. Poised' <=> Poised
    BY <1>1 DEF Poised, Armed
  <2> QED BY <1>1, <1>2, <2>1 DEF Outbox
<1> QED BY <1>1, <1>2, <1>3, <1>4, LineKept

LEMMA StoreLine ==
  ASSUME InMargins, TInv, Receiver, LineInv, WriteStore
  PROVE  /\ LineInv' /\ UNCHANGED <<came, cameLast>>
         /\ txIn' = txIn \/ (txIn' = txIn + 1 /\ txIn < came + (SZ + 2))
<1> USE DEF LineInv
<1>1. /\ UNCHANGED <<t, pin, brk, held, wait, fast, ccp1, ccp2, came, cameLast, rx, spent>>
      /\ pc = "wStore"
  BY DEF WriteStore, Others, NoTime, clock, ccps
<1>2. /\ tx.head \in Places /\ tx.tail \in Places /\ tx.count \in Nat /\ tx.count <= SZ
      /\ SZ \in Nat \ {0} /\ txIn \in Nat /\ came \in Nat
      /\ Waiting = tx.count /\ Sent = txIn - tx.count
  BY <1>1, TxTypes, RxTypes, RingPlaces DEF Levels, Waiting, Sent, One
<1>3. brk => FALSE
  BY <1>1 DEF Broken, Busy
<1>4. CASE /\ pc' = "wTest" /\ UNCHANGED <<tx, txIn>>
  <2>1. /\ ~Arming /\ ~Arming' /\ ~Loaded /\ ~Loaded' /\ Waiting' = Waiting /\ Sent' = Sent
        /\ (Fresh' <=> Fresh) /\ (Writing' <=> Writing)
    BY <1>1, <1>4 DEF Arming, Loaded, Waiting, Sent, Fresh, Writing, Starting
  <2>2. /\ Due' = Due /\ Over' = Over /\ (Armed' <=> Armed) /\ (RxRest' <=> RxRest)
        /\ (Poised' <=> Poised)
    BY <1>1, <1>4 DEF Due, Over, Armed, RxRest, Poised
  <2>3. Gap' /\ Outbox'
    BY <1>1, <1>4, <2>1, <2>2 DEF Gap, Outbox
  <2> QED BY <1>1, <1>3, <1>4, <2>1, <2>3, LineKept
<1>5. CASE /\ tx.count < SZ /\ pc' = "wCount" /\ txIn' = txIn + 1
           /\ tx' = [tx EXCEPT !.buf[tx.head] = txIn + 1, !.head = Succ(tx.head)]
  <2>1. /\ tx'.buf = [tx.buf EXCEPT ![tx.head] = txIn + 1] /\ tx'.head = Succ(tx.head)
        /\ UNCHANGED <<tx.state, tx.idx, tx.shift, tx.tail, tx.count>>
    BY <1>5, TxRecord
  <2>2. Waiting' = Waiting + 1 /\ Sent' = Sent
    BY <1>1, <1>2, <1>5, <2>1 DEF Waiting, Sent, One
  <2>3. /\ ~Arming /\ ~Arming' /\ ~Loaded /\ ~Loaded'
        /\ (Fresh' <=> Fresh) /\ (Writing' <=> Writing)
    BY <1>1, <1>5, <2>1 DEF Arming, Loaded, Fresh, Writing, Starting
  <2>4. /\ Due' = Due /\ Over' = Over /\ (Armed' <=> Armed) /\ (RxRest' <=> RxRest)
        /\ (Poised' <=> Poised)
    BY <1>1, <2>1 DEF Due, Over, Armed, RxRest, Poised
  <2>5. Gap'
    BY <1>1, <2>1, <2>3, <2>4 DEF Gap
  <2>6. Waiting \in 0 .. SZ - 1 /\ tx.head = Place(tx.tail + Waiting)
    BY <1>2, <1>5 DEF Outbox
  <2>7. tx'.head = Place(tx'.tail + Waiting')
    <3>1. Succ(Place(tx.tail + Waiting)) = Place(tx.tail + (Waiting + 1))
      BY <1>2, <2>6, RingPlaces
    <3> QED BY <2>1, <2>2, <2>6, <3>1
  <2>8. ASSUME NEW i \in Places, i < Waiting'
        PROVE  tx'.buf[Place(tx'.tail + i)] = Sent' + 1 + i
    <3>1. i \in 0 .. SZ - 1 /\ Place(tx.tail + i) \in Places /\ tx.buf \in [Places -> Bytes]
      <4>1. i \in 0 .. SZ - 1 /\ i \in 0 .. SZ
        BY <1>2 DEF Places
      <4> QED BY <1>2, <4>1, RingPlaces, TxTypes
    <3>2. CASE i = Waiting
      <4>1. tx'.buf[tx.head] = txIn + 1
        BY <1>2, <2>1, <3>1
      <4> QED BY <1>2, <2>1, <2>2, <2>6, <3>2, <4>1
    <3>3. CASE i < Waiting
      <4>1. Place(tx.tail + i) # Place(tx.tail + Waiting)
        <5>1. tx.tail \in Places /\ Waiting \in 0 .. SZ - 1 /\ i \in 0 .. SZ - 1 /\ i # Waiting
          BY <1>2, <2>6, <3>1, <3>3
        <5> QED BY <5>1, RingPlaces, Zenon
      <4>2. tx.buf[Place(tx.tail + i)] = Sent + 1 + i
        BY <3>3 DEF Outbox
      <4>3. tx'.buf[Place(tx.tail + i)] = tx.buf[Place(tx.tail + i)]
        BY <2>1, <2>6, <3>1, <4>1
      <4> QED BY <2>1, <2>2, <4>2, <4>3
    <3> QED BY <1>2, <2>2, <2>8, <3>1, <3>2, <3>3
  <2>9. Outbox'
    <3>1. Waiting' \in Nat
      BY <1>2, <2>2
    <3> QED BY <1>5, <2>1, <2>2, <2>3, <2>4, <2>7, <2>8, <3>1 DEF Outbox
  <2>10. txIn < came + (SZ + 2)
    <3>1. Sent <= came + 2
      BY <1>2 DEF Content, One
    <3> QED BY <1>2, <1>5, <3>1
  <2> QED BY <1>1, <1>3, <1>5, <2>1, <2>2, <2>3, <2>5, <2>9, <2>10, LineKept
<1> QED BY <1>4, <1>5 DEF WriteStore

LEMMA CountLine ==
  ASSUME InMargins, TInv, Receiver, LineInv, WriteCount \/ WriteTest
  PROVE  LineInv' /\ UNCHANGED <<came, cameLast, txIn>>
<1> USE DEF LineInv
<1>1. /\ UNCHANGED <<t, pin, brk, held, wait, fast, ccp1, ccp2, came, cameLast, rx, spent, txIn>>
      /\ pc \in {"wCount", "wTest"}
  BY DEF WriteCount, WriteTest, Step, At, Others, NoTime, clock, ccps, hist
<1>2. ~brk
  BY <1>1 DEF Broken, Busy
<1>3. /\ UNCHANGED <<tx.state, tx.idx, tx.shift, tx.tail, tx.head, tx.buf>>
      /\ Waiting' = Waiting
      /\ pc' \in {"wStore", "idle"} \/ (pc' = "aLoad" /\ tx.state = "IDLE")
  <2>1. CASE WriteCount
    <3>1. /\ pc = "wCount" /\ pc' = "wStore" /\ tx' = [tx EXCEPT !.count = Inc(tx.count)]
          /\ tx.count < SZ /\ tx.count \in Levels
      BY <2>1, TxTypes DEF WriteCount, Step, At, TInv, Sender
    <3>2. Inc(tx.count) = tx.count + 1
      BY <3>1, Indices
    <3>3. /\ UNCHANGED <<tx.state, tx.idx, tx.shift, tx.tail, tx.head, tx.buf>>
          /\ tx'.count = tx.count + 1
      BY <3>1, <3>2, TxRecord
    <3> QED BY <3>1, <3>3, TxTypes DEF Waiting, One
  <2>2. CASE WriteTest
    BY <2>2 DEF WriteTest, Waiting
  <2> QED BY <2>1, <2>2
<1>4. /\ ~Arming /\ ~Arming' /\ ~Loaded /\ ~Loaded' /\ Sent' = Sent /\ Writing
  BY <1>1, <1>3 DEF Arming, Loaded, Sent, Writing
<1>5. /\ Due' = Due /\ Over' = Over /\ (Armed' <=> Armed) /\ (RxRest' <=> RxRest)
      /\ (Poised' <=> Poised)
  BY <1>1, <1>3 DEF Due, Over, Armed, RxRest, Poised
<1>6. Gap'
  <2>1. Fresh' => Fresh
    BY <1>3, <1>4 DEF Fresh, Writing, Starting
  <2> QED BY <1>1, <1>3, <1>4, <1>5, <2>1 DEF Gap
<1>7. Outbox'
  BY <1>1, <1>3, <1>4, <1>5 DEF Outbox
<1> QED BY <1>1, <1>2, <1>3, <1>4, <1>6, <1>7, LineKept

(* The start of a transmitter that is off, on a line at rest.              *)
LEMMA FreshLine ==
  ASSUME InMargins, TInv, Receiver, Live, LineInv, Fresh
  PROVE  /\ ~Armed /\ ~ccp2.flag /\ RxRest /\ ~brk /\ pin = 1 /\ ccp2.mode = "off"
         /\ Sent = came + One(Loaded) /\ came \in Nat /\ Sent \in Int
<1> USE DEF LineInv
<1>1. ~Armed /\ ~ccp2.flag /\ RxRest /\ ~brk
  BY DEF Gap
<1>2. pin = 1 /\ ccp2.mode = "off"
  BY <1>1 DEF Shape, Armed
<1>3. came \in Nat /\ Sent \in Int
  BY RxTypes, WaitingType
<1>4. Sent = came + One(Loaded)
  <2>1. ~Lagging /\ One(Loaded \/ Armed) = One(Loaded)
    BY <1>1 DEF Lagging, RxRest, One
  <2>2. One(Loaded) \in Nat /\ One(Lagging) = 0
    BY <2>1 DEF One
  <2>3. Sent = came + One(Loaded) + One(Lagging)
    BY <2>1 DEF Content
  <2> QED BY <1>3, <2>2, <2>3
<1> QED BY <1>1, <1>2, <1>3, <1>4

LEMMA LoadLine ==
  ASSUME InMargins, TInv, Receiver, LineInv,
         ArmLoad \/ ArmTail \/ ArmCount \/ ArmIndex \/ ArmState
  PROVE  LineInv' /\ UNCHANGED <<came, cameLast, txIn>>
<1> USE DEF LineInv
<1>1. /\ UNCHANGED <<t, pin, brk, held, wait, fast, ccp1, ccp2, came, cameLast, rx, spent, txIn>>
      /\ Starting /\ pc' \in {"aTail", "aCount", "aIndex", "aState", "aTime"}
  BY DEF ArmLoad, ArmTail, ArmCount, ArmIndex, ArmState, TxStep, Step, At, Others, NoTime,
     clock, ccps, hist, Starting
<1>2. tx.state = "IDLE" /\ Fresh /\ Live
  BY <1>1 DEF TInv, Sender, Fresh, Live, Starting, InDeInit, NInv, Open, InInit
<1>3. /\ ~Armed /\ ~ccp2.flag /\ RxRest /\ ~brk /\ pin = 1
      /\ Sent = came + One(Loaded) /\ came \in Nat /\ Sent \in Int
  BY <1>2, FreshLine
<1>4. /\ ~Armed' /\ ~ccp2'.flag /\ RxRest' /\ ~brk' /\ pin' = 1 /\ came' \in Nat /\ ~Writing'
      /\ ~Poised' /\ ~Poised
  BY <1>1, <1>3 DEF Armed, RxRest, Writing, Poised
<1>5. Wired'
  BY <1>1 DEF Wired, Over1
<1>6. Gap'
  BY <1>4 DEF Gap
<1>7. /\ tx.head \in Places /\ tx.tail \in Places /\ tx.count \in Nat /\ tx.count \in Levels
      /\ tx.buf \in [Places -> Bytes] /\ tx.count <= SZ /\ SZ \in Nat \ {0} /\ txIn \in Nat
  BY TxTypes, RingPlaces DEF Levels
<1>8. CASE ArmLoad
  <2>1. /\ pc = "aLoad" /\ pc' = "aTail" /\ tx' = [tx EXCEPT !.shift = tx.buf[tx.tail]]
    BY <1>8 DEF ArmLoad, TxStep, Step, At
  <2>2. /\ tx'.shift = tx.buf[tx.tail]
        /\ UNCHANGED <<tx.state, tx.idx, tx.tail, tx.head, tx.buf, tx.count>>
    BY <2>1, TxRecord
  <2>3. /\ Waiting' = Waiting /\ Sent' = Sent /\ ~Loaded /\ ~Loaded' /\ ~Arming'
    BY <1>1, <2>1, <2>2 DEF Waiting, Sent, Loaded, Arming
  <2>4. Shape'
    BY <1>2, <1>4, <2>2, <2>3 DEF Shape
  <2>5. Outbox'
    BY <1>4, <2>1, <2>2, <2>3 DEF Outbox
  <2>6. Sent' = came' + One(Loaded')
    BY <1>1, <1>3, <2>3 DEF One
  <2> QED BY <1>1, <1>4, <1>5, <1>6, <2>4, <2>5, <2>6, RestLine
<1>9. CASE ArmTail
  <2>1. /\ pc = "aTail" /\ pc' = "aCount" /\ tx' = [tx EXCEPT !.tail = Succ(tx.tail)]
        /\ tx.count > 0
    BY <1>9 DEF ArmTail, TxStep, Step, At, TInv, Sender
  <2>2. /\ tx'.tail = Succ(tx.tail)
        /\ UNCHANGED <<tx.state, tx.idx, tx.shift, tx.head, tx.buf, tx.count>>
    BY <2>1, TxRecord
  <2>3. /\ Waiting = tx.count /\ Waiting' = tx.count - 1 /\ Sent' = Sent + 1
        /\ ~Loaded /\ Loaded' /\ ~Arming'
    BY <1>1, <1>7, <2>1, <2>2 DEF Waiting, Sent, Loaded, Arming, One
  <2>4. Shape'
    BY <1>2, <1>4, <2>2, <2>3 DEF Shape
  <2>5. tx'.head = Place(tx'.tail + Waiting')
    <3>1. tx.count - 1 \in 0 .. SZ - 1 /\ (tx.count - 1) + 1 = tx.count
      BY <1>7, <2>1
    <3>2. Place(Succ(tx.tail) + (tx.count - 1)) = Place(tx.tail + ((tx.count - 1) + 1))
      BY <1>7, <3>1, RingPlaces
    <3> QED BY <2>2, <2>3, <3>1, <3>2 DEF Outbox
  <2>6. ASSUME NEW i \in Places, i < Waiting'
        PROVE  tx'.buf[Place(tx'.tail + i)] = Sent' + 1 + i
    <3>1. i + 1 \in Places /\ i + 1 < Waiting /\ i \in 0 .. SZ - 1
      BY <1>7, <2>3, <2>6 DEF Places
    <3>2. Place(Succ(tx.tail) + i) = Place(tx.tail + (i + 1))
      BY <1>7, <3>1, RingPlaces
    <3>3. tx.buf[Place(tx.tail + (i + 1))] = Sent + 1 + (i + 1)
      BY <3>1 DEF Outbox
    <3> QED BY <1>3, <2>2, <2>3, <3>1, <3>2, <3>3
  <2>7. tx'.shift = Sent'
    <3>1. 0 \in Places /\ 0 < Waiting /\ Place(tx.tail + 0) = tx.tail
      BY <1>7, <2>1, <2>3, RingPlaces, Indices
    <3>2. tx.buf[tx.tail] = Sent + 1 + 0 /\ tx.shift = tx.buf[tx.tail]
      BY <2>1, <3>1 DEF Outbox
    <3> QED BY <1>3, <2>2, <2>3, <3>2
  <2>8. Outbox'
    <3>1. Waiting' \in Nat
      BY <1>7, <2>1, <2>3
    <3> QED BY <2>1, <2>5, <2>6, <2>7, <3>1 DEF Outbox
  <2>9. Sent' = came' + One(Loaded')
    BY <1>1, <1>3, <2>3 DEF One
  <2> QED BY <1>1, <1>4, <1>5, <1>6, <2>4, <2>8, <2>9, RestLine
<1>10. CASE ArmCount \/ ArmIndex \/ ArmState
  <2>1. /\ pc \in {"aCount", "aIndex", "aState"} /\ pc' \in {"aIndex", "aState", "aTime"}
        /\ UNCHANGED <<tx.shift, tx.tail, tx.head, tx.buf>> /\ Waiting' = Waiting
        /\ pc' # "aTime" => tx'.state = "IDLE"
        /\ pc' = "aTime" => tx'.state = "DATA" /\ tx'.idx = 0
    <3>1. CASE ArmCount
      <4>1. /\ pc = "aCount" /\ pc' = "aIndex" /\ tx' = [tx EXCEPT !.count = Dec(tx.count)]
            /\ tx.count > 0
        BY <3>1 DEF ArmCount, TxStep, Step, At, TInv, Sender
      <4>2. Dec(tx.count) = tx.count - 1
        BY <1>7, <4>1, Indices
      <4>3. UNCHANGED <<tx.state, tx.shift, tx.tail, tx.head, tx.buf>>
            /\ tx'.count = tx.count - 1
        BY <4>1, <4>2, TxRecord
      <4> QED BY <1>2, <1>7, <4>1, <4>3 DEF Waiting, One
    <3>2. CASE ArmIndex
      <4>1. pc = "aIndex" /\ pc' = "aState" /\ tx' = [tx EXCEPT !.idx = 0]
        BY <3>2 DEF ArmIndex, TxStep, Step, At
      <4>2. UNCHANGED <<tx.state, tx.shift, tx.tail, tx.head, tx.buf, tx.count>>
        BY <4>1, TxRecord
      <4> QED BY <1>2, <4>1, <4>2 DEF Waiting
    <3>3. CASE ArmState
      <4>1. /\ pc = "aState" /\ pc' = "aTime" /\ tx' = [tx EXCEPT !.state = "DATA"]
            /\ tx.idx = 0
        BY <3>3 DEF ArmState, TxStep, Step, At, TInv, Sender
      <4>2. UNCHANGED <<tx.idx, tx.shift, tx.tail, tx.head, tx.buf, tx.count>>
            /\ tx'.state = "DATA"
        BY <4>1, TxRecord
      <4> QED BY <4>1, <4>2 DEF Waiting
    <3> QED BY <1>10, <3>1, <3>2, <3>3
  <2>2. Sent' = Sent /\ Loaded /\ Loaded' /\ (Arming' <=> pc' = "aTime")
    BY <1>1, <2>1 DEF Sent, Loaded, Arming
  <2>3. Shape'
    BY <1>4, <2>1, <2>2 DEF Shape
  <2>4. Outbox'
    BY <1>4, <2>1, <2>2 DEF Outbox
  <2>5. Sent' = came' + One(Loaded')
    BY <1>1, <1>3, <2>2 DEF One
  <2> QED BY <1>1, <1>4, <1>5, <1>6, <2>3, <2>4, <2>5, RestLine
<1> QED BY <1>1, <1>8, <1>9, <1>10

LEMMA ArmLine ==
  ASSUME InMargins, TInv, Receiver, LineInv, ArmTime \/ ArmMode
  PROVE  LineInv' /\ UNCHANGED <<came, cameLast, txIn>>
<1> USE DEF LineInv
<1>1. /\ UNCHANGED <<t, pin, brk, held, wait, fast, ccp1, came, cameLast, tx, rx, spent, txIn>>
      /\ pc \in {"aTime", "aMode"}
  BY DEF ArmTime, ArmMode, Ccp2Step, Step, At, Others, NoTime, clock, hist
<1>2. Arming /\ Loaded /\ Fresh /\ Live
  BY <1>1 DEF Arming, Loaded, Fresh, Live, InDeInit, TInv, NInv, Open, InInit
<1>3. /\ ~Armed /\ ~ccp2.flag /\ RxRest /\ ~brk /\ pin = 1 /\ ccp2.mode = "off"
      /\ Sent = came + 1 /\ came \in Nat /\ tx.state = "DATA" /\ tx.idx = 0
  BY <1>2, FreshLine DEF Shape, One
<1>4. Wired' /\ RxRest'
  <2>1. ccp2'.cb = ccp2.cb
    BY DEF ArmTime, ArmMode, Ccp2Step, TInv, Ccps, CcpType
  <2> QED BY <1>1, <1>3, <2>1 DEF Wired, Over1, RxRest
<1>5. CASE ArmTime
  <2>1. /\ pc' = "aMode" /\ UNCHANGED <<ccp2.mode, ccp2.flag>>
    BY <1>5 DEF ArmTime, Ccp2Step, Step, At, TInv, Ccps, CcpType
  <2>2. /\ ~Armed' /\ Arming' /\ Loaded' /\ Fresh' /\ ~Writing' /\ ~Poised'
        /\ Waiting' = Waiting /\ Sent' = Sent
    BY <1>1, <1>3, <2>1 DEF Armed, Arming, Loaded, Fresh, Writing, Poised, Waiting, Sent
  <2>3. Shape'
    BY <1>1, <1>3, <2>2 DEF Shape
  <2>4. Gap'
    BY <1>1, <1>3, <1>4, <2>1, <2>2 DEF Gap
  <2>5. Outbox'
    BY <1>1, <1>2, <2>1, <2>2 DEF Outbox
  <2>6. Sent' = came' + One(Loaded')
    BY <1>1, <1>3, <2>2 DEF One
  <2> QED BY <1>1, <1>3, <1>4, <2>2, <2>3, <2>4, <2>5, <2>6, RestLine
<1>6. CASE ArmMode
  <2>1. /\ pc = "aMode" /\ pc' = "idle" /\ UNCHANGED <<ccp2.reg, ccp2.flag>>
        /\ ccp2'.mode = "clear"
    BY <1>6 DEF ArmMode, Ccp2Step, Step, At, TInv, Ccps, CcpType
  <2>2. /\ Armed' /\ ~Arming' /\ ~Loaded' /\ ~Fresh' /\ ~Writing' /\ Poised' /\ ~ccp2'.flag
        /\ Waiting' = Waiting /\ Sent' = Sent /\ Symbol' = Bits + 1
    BY <1>1, <1>3, <2>1 DEF Armed, Arming, Loaded, Fresh, Writing, Starting, Poised, Waiting,
       Sent, Symbol
  <2>3. Shape'
    <3>1. Bits + 1 # 0
      BY Sizes
    <3> QED BY <1>1, <1>3, <2>1, <2>2, <3>1 DEF Shape
  <2>4. Due' >= 1
    <3>1. CallTime < Due + spent /\ Due' = Due
      BY <1>1, <2>1 DEF TInv, Clear, Due
    <3> QED BY <3>1, LineTypes, Times
  <2>5. Pace' /\ Tracking' /\ Followed' /\ Broken'
    BY <1>1, <1>3, <1>4, <2>2, <2>4 DEF Pace, Tracking, Followed, Broken, RxRest
  <2>6. Gap'
    BY <2>2 DEF Gap
  <2>7. Outbox'
    BY <1>1, <1>2, <2>1, <2>2 DEF Outbox
  <2>8. Content'
    <3>1. Sent' = came' + One(Loaded' \/ Armed') + One(Lagging')
      BY <1>1, <1>3, <1>4, <2>2 DEF One, Lagging, RxRest
    <3> QED BY <1>4, <3>1 DEF Content, RxRest
  <2> QED BY <1>1, <1>4, <2>3, <2>5, <2>6, <2>7, <2>8
<1> QED BY <1>5, <1>6

-----------------------------------------------------------------------------
(* Breaks and spikes.                                                      *)
LEMMA QuietLine ==
  ASSUME TInv, Receiver, LineInv, Quiet
  PROVE  /\ Live /\ ~Armed /\ pin = 1 /\ pc = "idle" /\ tx.state = "IDLE"
         /\ Sent = came /\ came \in Nat /\ ~Loaded /\ ~Poised
<1>1. /\ pc = "idle" /\ chan /\ ~Armed /\ pin = 1 /\ tx.state = "IDLE" /\ rx.state = "IDLE"
  BY DEF Quiet, Armed
<1>2. ~Loaded /\ Live /\ ~Lagging /\ ~Poised
  BY <1>1 DEF Loaded, Live, InDeInit, Lagging, Poised
<1>3. Sent = came + One(Loaded \/ Armed) + One(Lagging)
  BY DEF LineInv, Content
<1> QED BY <1>1, <1>2, <1>3, RxTypes DEF One

LEMMA NoiseLine ==
  ASSUME InMargins, TInv, Receiver, LineInv, BreakOn \/ Spike
  PROVE  LineInv' /\ UNCHANGED <<came, cameLast, txIn>>
<1> USE DEF LineInv
<1>1. /\ UNCHANGED <<t, pin, wait, fast, ccp2, came, cameLast, tx, rx, pc, spent, txIn>>
      /\ Quiet /\ ccp1' = [ccp1 EXCEPT !.flag = TRUE, !.reg = t]
      /\ brk' => held' = 0
  BY DEF BreakOn, Spike, Captured, rxHist, hist, clock, bounds, Quiet
<1>2. /\ Live /\ ~Armed /\ pin = 1 /\ pc = "idle" /\ tx.state = "IDLE"
      /\ Sent = came /\ came \in Nat /\ ~Loaded /\ ~Poised
  BY <1>1, QuietLine
<1>3. /\ ccp1'.flag /\ ccp1'.reg = t /\ UNCHANGED <<ccp1.mode, ccp1.ie, ccp1.cb>>
      /\ rx.state = "IDLE" /\ ccp1.mode = "capture"
  BY <1>1 DEF Quiet, TInv, Ccps, CcpType
<1>4. Over1' = 0
  BY <1>1, <1>3, LineTypes DEF Over1, Ahead
<1>5. /\ ~Armed' /\ ~Loaded' /\ ~Poised' /\ ~Arming' /\ ~Fresh' /\ ~Writing'
      /\ Waiting' = Waiting /\ Sent' = Sent /\ pc' \notin Busy
  BY <1>1, <1>2 DEF Armed, Loaded, Poised, Arming, Fresh, Writing, Starting, Waiting, Sent, Busy
<1>6. Shape' /\ Pace' /\ Gap' /\ Tracking' /\ Followed'
  BY <1>1, <1>2, <1>5 DEF Shape, Pace, Gap, Tracking, Followed
<1>7. Wired'
  BY <1>1, <1>3, <1>4, LineTypes DEF Wired
<1>8. Broken'
  BY <1>1, <1>2, <1>3, <1>4, <1>5 DEF Broken
<1>9. Outbox'
  BY <1>1, <1>2, <1>5 DEF Outbox
<1>10. Content'
  <2>1. Sent' = came' + One(Loaded' \/ Armed') + One(Lagging')
    BY <1>1, <1>2, <1>3, <1>5 DEF One, Lagging
  <2> QED BY <1>1, <1>3, <1>5, <2>1 DEF Content
<1> QED BY <1>1, <1>6, <1>7, <1>8, <1>9, <1>10

(* The receiver is done with a break before the line goes high again.      *)
LEMMA BreakOver ==
  ASSUME InMargins, TInv, Receiver, LineInv, brk, held = Frame
  PROVE  RxRest
<1> USE DEF LineInv
<1>1. /\ Bit \in Nat \ {0} /\ Latency \in Nat /\ 2 * Latency < Bit /\ Bit <= Frame
      /\ Frame \in Nat /\ Over1 \in Nat /\ Due1 \in Nat /\ wait \in 0 .. Latency
      /\ Bits \in Nat
  BY Times, LineTypes, Sizes
<1>2. ccp1.flag => Over1 <= Latency
  BY <1>1 DEF Wired
<1>3. CASE rx.state = "IDLE"
  BY <1>1, <1>2, <1>3 DEF Broken, RxRest
<1>4. CASE rx.state # "IDLE"
  <2>1. Target \in 0 .. Bits + 1
    BY <1>1, RxTypes DEF Target
  <2>2. (Target + 1) * Bit <= Frame /\ (Target + 1) * Bit \in Nat
    <3> DEFINE d == Bits + 1 - Target
    <3>1. d \in Nat /\ Bits + 2 = (Target + 1) + d
      BY <1>1, <2>1
    <3>2. Frame = (Target + 1) * Bit + d * Bit
      BY <1>1, <2>1, <3>1 DEF Frame
    <3>3. d * Bit \in Nat /\ (Target + 1) * Bit \in Nat
      BY <1>1, <2>1, <3>1
    <3> HIDE DEF d
    <3> QED BY <3>2, <3>3
  <2> DEFINE end == (Target + 1) * Bit
  <2>3. \/ ccp1.flag /\ held + Latency < end + Over1
        \/ Due1 >= 1 /\ held + Due1 + Latency < end
    BY <1>4 DEF Broken
  <2> HIDE DEF end
  <2>4. FALSE
    BY <1>1, <1>2, <2>2, <2>3 DEF end
  <2> QED BY <2>4
<1> QED BY <1>3, <1>4

LEMMA BreakLine ==
  ASSUME InMargins, TInv, Receiver, LineInv, BreakOff
  PROVE  LineInv' /\ UNCHANGED <<came, cameLast, txIn>>
<1> USE DEF LineInv
<1>1. /\ UNCHANGED <<t, pin, wait, fast, ccp1, ccp2, came, cameLast, tx, rx, pc, spent, txIn>>
      /\ brk /\ held = Frame /\ ~brk'
  BY DEF BreakOff, rxHist, hist, ccps, bounds
<1>2. RxRest /\ RxRest'
  BY <1>1, BreakOver DEF RxRest
<1>3. ~Armed /\ tx.state = "IDLE" /\ pc \notin Busy /\ pc' \notin Busy
  BY <1>1 DEF Broken
<1>4. /\ ~Armed' /\ ~Loaded' /\ ~Loaded /\ ~Poised' /\ ~Poised /\ ~Arming' /\ ~Arming
      /\ ~Fresh' /\ ~Writing' /\ Waiting' = Waiting /\ Sent' = Sent
  BY <1>1, <1>3 DEF Armed, Loaded, Poised, Arming, Fresh, Writing, Starting, Waiting, Sent, Busy
<1>5. Shape' /\ Gap' /\ Outbox'
  BY <1>1, <1>3, <1>4 DEF Shape, Gap, Outbox
<1>6. Wired'
  BY <1>1 DEF Wired, Over1
<1>7. Sent' = came' + One(Loaded')
  <2>1. ~Lagging /\ came \in Nat
    BY <1>1, RxTypes DEF Lagging
  <2> QED BY <1>1, <1>3, <1>4, <2>1 DEF Content, One
<1> QED BY <1>1, <1>2, <1>4, <1>5, <1>6, <1>7, RestLine, RxTypes

-----------------------------------------------------------------------------
(* Init sets the line up before the channel is there; DeInit takes the     *)
(* channel away while a byte may be on its way.                            *)
LEMMA OpenLine ==
  ASSUME TInv, Receiver, SettingUp, InitChan
  PROVE  LineInv' /\ UNCHANGED <<came, cameLast, txIn>>
<1>1. /\ UNCHANGED <<t, pin, brk, wait, fast, ccp1, ccp2, came, cameLast, tx, rx, txIn>>
      /\ pc = "iChan" /\ pc' = "idle"
  BY DEF InitChan, ChanStep, Step, At, Others, NoTime, clock, hist
<1>2. /\ tx = Handle /\ rx = Handle /\ pin = 1 /\ txIn = 0 /\ came = 0 /\ cameLast = 0
      /\ ccp1.mode = "capture" /\ ccp1.ie /\ ccp1.cb /\ ccp2.cb
  BY <1>1 DEF SettingUp
<1>3. ccp2.mode = "off" /\ ~ccp1.flag /\ ~ccp2.flag /\ ~brk
  <2>1. ~chan
    BY <1>1 DEF TInv, NInv, Open, InInit
  <2> QED BY <1>2, <2>1 DEF TInv, NInv, Open, Silence
<1>4. /\ tx.state = "IDLE" /\ tx.head = 0 /\ tx.tail = 0 /\ tx.count = 0
      /\ rx.state = "IDLE"
  BY <1>2 DEF Handle
<1>5. /\ ~Armed' /\ ~Loaded' /\ ~Poised' /\ ~Arming' /\ ~Fresh' /\ ~Writing'
      /\ Waiting' = 0 /\ Sent' = 0 /\ RxRest'
  BY <1>1, <1>2, <1>3, <1>4 DEF Armed, Loaded, Poised, Arming, Fresh, Writing, Starting,
     Waiting, Sent, One, RxRest
<1>6. Shape' /\ Gap'
  BY <1>1, <1>2, <1>4, <1>5 DEF Shape, Gap
<1>7. Outbox'
  <2>1. Place(0 + 0) = 0
    BY RingPlaces DEF Place
  <2>2. \A i \in Places : ~(i < 0)
    BY RingPlaces
  <2> QED BY <1>1, <1>4, <1>5, <2>1, <2>2 DEF Outbox
<1>8. Wired'
  BY <1>1, <1>2, <1>3, <1>4 DEF Wired
<1>9. Sent' = came' + One(Loaded') /\ came' \in Nat
  BY <1>1, <1>2, <1>5 DEF One
<1> QED BY <1>1, <1>3, <1>5, <1>6, <1>7, <1>8, <1>9, RestLine

LEMMA SetUpSteps ==
  ASSUME NInv, SettingUp, pc \in InInit, [Next]_vars, pc' \in InInit
  PROVE  SettingUp' /\ UNCHANGED <<came, cameLast, txIn>>
<1>1. ~chan /\ ~brk /\ ccp2.mode = "off"
  BY DEF NInv, Open, Silence, InInit
<1>2. CASE InitRx \/ InitTx \/ InitGie
  <2> USE DEF CcpStep, Step, At, Others, NoTime, clock, hist, SetUp, InInit
  <2>1. CASE InitRx
    BY <2>1 DEF InitRx, SettingUp
  <2>2. CASE InitTx
    BY <2>2 DEF InitTx, SettingUp
  <2>3. CASE InitGie
    BY <2>3 DEF InitGie, SettingUp
  <2> QED BY <1>2, <2>1, <2>2, <2>3
<1>3. CASE Isr \/ Tick \/ UNCHANGED vars
  <2>1. /\ UNCHANGED <<pc, tx, rx, txIn, came, cameLast>> /\ pin' = pin
    <3>1. CASE Isr
      BY <1>1, <3>1 DEF Isr, IsrRx, IsrTx, rxHist, hist, clock
    <3>2. CASE Tick
      BY <1>1, <3>2 DEF Tick, Matches, rxHist, hist
    <3>3. CASE UNCHANGED vars
      BY <3>3 DEF vars, rxHist, hist, clock
    <3> QED BY <1>3, <3>1, <3>2, <3>3
  <2>2. UNCHANGED <<ccp1.mode, ccp1.ie, ccp1.cb, ccp2.cb>>
    <3>1. CASE Isr
      <4>1. /\ ccp1' = [ccp1 EXCEPT !.flag = FALSE] /\ ccp2' = [ccp2 EXCEPT !.flag = FALSE]
        BY <1>1, <3>1 DEF Isr, IsrRx, IsrTx
      <4> QED BY <4>1 DEF NInv, Modes
    <3>2. CASE Tick
      <4>1. /\ \E f, r : ccp1' = [ccp1 EXCEPT !.flag = f, !.reg = r]
            /\ \E f : ccp2' = [ccp2 EXCEPT !.flag = f]
        BY <3>2 DEF Tick
      <4> QED BY <4>1 DEF NInv, Modes
    <3>3. CASE UNCHANGED vars
      BY <3>3 DEF vars, ccps
    <3> QED BY <1>3, <3>1, <3>2, <3>3
  <2> QED BY <2>1, <2>2 DEF SettingUp
<1>4. InitRx \/ InitTx \/ InitGie \/ Isr \/ Tick \/ UNCHANGED vars
  <2>1. ~BreakOn /\ ~BreakOff /\ ~Spike
    BY <1>1 DEF BreakOn, BreakOff, Spike, Quiet
  <2>2. ~App
    BY DEF App, InitHandle, AppDeInit, AppErrors, AppRead, AppWrite, Call, At, InInit
  <2>3. MainLine => InitRx \/ InitTx \/ InitGie
    BY DEF MainLine, WriteStore, WriteCount, WriteTest, ArmLoad, ArmTail, ArmCount, ArmIndex,
       ArmState, ArmTime, ArmMode, ReadTest, ReadLoad, ReadCount, ErrLo, ErrFirst, ErrSecond,
       InitChan, ChanStep, CcpStep, TxStep, Ccp2Step, DeInitDrop1, DeInitMute2, DeInitDrop2,
       DeInitChan, DeInitPin, Step, At, InInit
  <2> QED BY <2>1, <2>2, <2>3 DEF Next
<1> QED BY <1>2, <1>3, <1>4

-----------------------------------------------------------------------------
(* The first step of DeInit.                                               *)
LEMMA LeaveLine ==
  ASSUME InMargins, TInv, Receiver, LineInv, AppDeInit
  PROVE  Leaving' /\ UNCHANGED <<came, cameLast, txIn>>
<1> USE DEF LineInv
<1>1. /\ UNCHANGED <<t, came, cameLast, tx, rx, txIn>> /\ ~brk
      /\ ccp1' = [ccp1 EXCEPT !.ie = FALSE, !.flag = FALSE]
  BY DEF AppDeInit, Mute, Others, NoTime, clock, hist
<1>2. UNCHANGED <<ccp1.mode, ccp1.cb>> /\ ~ccp1'.flag
  BY <1>1 DEF TInv, Ccps, CcpType
<1>3. rx.state = "STOP" => rx.shift = came + 1 /\ came < txIn
  <2>1. ASSUME rx.state = "STOP" PROVE came < txIn
    <3>1. Armed \/ Lagging
      BY <1>1, <2>1 DEF Lagging
    <3>2. /\ Sent = came + One(Loaded \/ Armed) + One(Lagging) /\ came \in Nat
          /\ txIn \in Nat /\ Sent \in Int /\ Sent <= txIn
      BY WaitingType, RxTypes, TxTypes DEF Content
    <3>3. One(Loaded \/ Armed) + One(Lagging) >= 1
      BY <3>1 DEF One
    <3>4. One(Loaded \/ Armed) \in Nat /\ One(Lagging) \in Nat
      BY DEF One
    <3> QED BY <3>2, <3>3, <3>4
  <2> QED BY <1>1, <2>1 DEF Content
<1> QED BY <1>1, <1>2, <1>3 DEF Leaving, Wired

(* An event of the transmitter's still runs the handler of the receiver's: *)
(* the dispatcher asks for the flag and not for the enable bit.            *)
LEMMA LeaveIsr ==
  ASSUME InMargins, TInv, Receiver, pc = "dDrop1", Leaving, Isr
  PROVE  Leaving' /\ (Delivers \/ UNCHANGED <<came, cameLast>>) /\ UNCHANGED <<txIn, pc>>
<1>1. UNCHANGED <<t, txIn, pc, spent>>
  BY DEF Isr, clock, hist
<1>2. /\ UNCHANGED <<ccp1.ie, ccp1.cb>> /\ ~ccp1'.flag
      /\ \/ RxNone \/ RxIgnores \/ RxTrusts \/ RxDoubts \/ RxDenies \/ RxAgrees
         \/ RxSamples \/ RxEnds
  <2>1. chan /\ ccp1.cb
    BY DEF TInv, NInv, Open, InInit, Leaving
  <2> QED BY <2>1, IsrRxEffect
<1>3. came \in Nat /\ cameLast = came /\ ccp1.mode # "off" /\ ccp1.cb
  BY RxTypes DEF Leaving
<1>4. CASE RxNone
  <2>1. Over1' = Over1 /\ Due1' = Due1
    BY <1>1, <1>4 DEF RxNone, Over1, Due1
  <2> QED BY <1>1, <1>2, <1>4, <2>1 DEF RxNone, RxQuiet, Leaving
<1>5. CASE RxIgnores
  BY <1>1, <1>2, <1>5 DEF RxIgnores, RxQuiet, Leaving
<1>6. CASE RxTrusts \/ RxAgrees \/ RxDoubts \/ RxDenies
  BY <1>1, <1>2, <1>3, <1>6
     DEF RxTrusts, RxAgrees, RxDoubts, RxDenies, RxStarts, RxQuiet, Leaving
<1>7. CASE RxSamples
  <2>1. /\ UNCHANGED <<came, cameLast>> /\ ccp1'.mode = "soft" /\ rx'.state \in {"DATA", "STOP"}
        /\ ccp1'.reg = Later(ccp1.reg, Bit) /\ ccp1.flag /\ rx.state = "DATA"
    BY <1>7 DEF RxSamples, RxQuiet
  <2>2. Over1 <= spent /\ spent \in 0 .. CallTime /\ Over1 \in Nat
    BY <2>1, LineTypes DEF Leaving
  <2>3. CallTime \in Nat /\ CallTime < Bit /\ Bit \in Nat /\ Bit < Wrap /\ Wrap \in Nat
    BY SwUartAssumption, Times, Margins
  <2>4. Due1' = Bit - Over1
    <3>1. /\ ccp1.reg \in 0 .. Wrap - 1 /\ t \in 0 .. Wrap - 1 /\ Bit \in 0 .. Wrap - 1
      BY <2>3, LineTypes
    <3>2. Ahead(Later(ccp1.reg, Bit), t) = Bit - Ahead(t, ccp1.reg)
      BY <2>2, <2>3, <3>1, AheadSum DEF Over1
    <3> QED BY <1>1, <2>1, <3>2 DEF Due1, Over1
  <2>5. CallTime < Due1' + spent'
    BY <1>1, <2>2, <2>3, <2>4
  <2> QED BY <1>1, <1>2, <1>3, <2>1, <2>5 DEF Leaving
<1>8. CASE RxEnds
  <2>1. /\ rx.state = "STOP" /\ ccp1.flag /\ rx'.state = "IDLE" /\ ccp1'.mode = "capture"
        /\ came' = came + Level /\ cameLast' = IF Level = 1 THEN rx.shift ELSE cameLast
        /\ Level \in {0, 1}
    BY <1>8, LineTypes DEF RxEnds
  <2>2. rx.shift = came + 1 /\ came < txIn
    BY <2>1 DEF Leaving
  <2>3. cameLast' = came' /\ (Delivers \/ UNCHANGED <<came, cameLast>>)
    BY <1>3, <2>1, <2>2 DEF Delivers
  <2> QED BY <1>1, <1>2, <1>3, <2>1, <2>3 DEF Leaving
<1> QED BY <1>2, <1>4, <1>5, <1>6, <1>7, <1>8

LEMMA LeaveTick ==
  ASSUME InMargins, TInv, Receiver, pc = "dDrop1", Leaving, Tick
  PROVE  Leaving' /\ UNCHANGED <<came, cameLast, txIn, pc>>
<1> DEFINE falls == Level' < Level /\ ccp1.mode = "capture"
           m == Matches(ccp1, t')
<1>1. /\ UNCHANGED <<rx, came, cameLast, txIn, pc>> /\ t' = Later(t, 1)
      /\ spent < CallTime /\ spent' = spent + 1
  BY DEF Tick, rxHist, hist
<1>2. ccp1' = [ccp1 EXCEPT !.flag = ccp1.flag \/ falls \/ m,
                           !.reg = IF falls THEN t' ELSE ccp1.reg]
  BY DEF Tick
<1>3. /\ UNCHANGED <<ccp1.mode, ccp1.ie, ccp1.cb>> /\ ccp1'.flag = (ccp1.flag \/ falls \/ m)
      /\ ccp1'.reg = IF falls THEN t' ELSE ccp1.reg
  <2> HIDE DEF falls, m
  <2> QED BY <1>2 DEF TInv, Ccps, CcpType
<1>4. rx.state # "IDLE" => ~falls
  BY DEF Leaving
<1>5. /\ ccp1.reg \in 0 .. Wrap - 1 /\ t \in 0 .. Wrap - 1
      /\ Due1 \in Nat /\ Over1 \in Nat /\ spent \in 0 .. CallTime /\ ccp1.flag \in BOOLEAN
      /\ CallTime \in Nat /\ CallTime < Bit /\ Bit \in Nat /\ Bit < Wrap /\ Wrap \in Nat
  BY LineTypes, SwUartAssumption, Times, Margins
<1>6. m => ccp1.reg = t'
  BY DEF Matches
<1> HIDE DEF falls, m
<1>7. ~falls => Due1' = Ahead(ccp1.reg, t') /\ Over1' = Ahead(t', ccp1.reg)
  BY <1>3 DEF Due1, Over1
<1>8. /\ Due1 >= 1 => Ahead(ccp1.reg, t') = Due1 - 1
      /\ Over1 + 1 < Wrap => Ahead(t', ccp1.reg) = Over1 + 1
      /\ t' = ccp1.reg => Due1 = 1 /\ Ahead(t', ccp1.reg) = 0
  BY <1>1, <1>5, AheadStep DEF Due1, Over1
<1>9. ASSUME rx.state = "DATA", ccp1'.flag PROVE Over1' <= spent'
  <2>1. CASE m
    BY <1>1, <1>4, <1>5, <1>6, <1>7, <1>8, <1>9, <2>1
  <2>2. CASE ~m
    <3>1. ccp1.flag /\ Over1 <= spent
      BY <1>3, <1>4, <1>9, <2>2 DEF Leaving
    <3> QED BY <1>1, <1>4, <1>5, <1>7, <1>8, <1>9, <3>1
  <2> QED BY <2>1, <2>2
<1>10. ASSUME rx.state = "STOP"
       PROVE  \/ rx.shift = came + 1 /\ came < txIn
              \/ ~ccp1'.flag /\ CallTime < Due1' + spent'
  <2>1. CASE ~ccp1.flag /\ CallTime < Due1 + spent
    <3>1. Due1 >= 2
      BY <1>1, <1>5, <2>1
    <3>2. ~m
      BY <1>6, <1>8, <3>1
    <3>3. ~falls
      BY <1>4, <1>10
    <3>4. Due1' = Due1 - 1
      BY <1>5, <1>7, <1>8, <3>1, <3>3
    <3>5. CallTime < Due1' + spent'
      BY <1>1, <1>5, <2>1, <3>4
    <3> QED BY <1>3, <2>1, <3>2, <3>3, <3>5
  <2> QED BY <1>10, <2>1 DEF Leaving
<1> QED BY <1>1, <1>3, <1>9, <1>10 DEF Leaving

LEMMA LeaveSteps ==
  ASSUME InMargins, TInv, Receiver, pc = "dDrop1", Leaving, [Next]_vars
  PROVE  /\ pc' = "dDrop1" => Leaving'
         /\ pc' \in {"dDrop1", "dMute2"}
         /\ UNCHANGED txIn /\ (Delivers \/ UNCHANGED <<came, cameLast>>)
<1>1. ~brk
  BY DEF TInv, NInv, Open, InDeInit
<1>2. CASE UNCHANGED vars
  <2>1. UNCHANGED <<t, spent, ccp1, rx, pc, txIn, came, cameLast>>
    BY <1>2 DEF vars, clock, ccps, rxHist, hist
  <2>2. Over1' = Over1 /\ Due1' = Due1
    BY <2>1 DEF Over1, Due1
  <2> QED BY <2>1, <2>2 DEF Leaving
<1>3. CASE DeInitDrop1
  BY <1>3 DEF DeInitDrop1, CcpStep, Step, At, Others, hist
<1>4. DeInitDrop1 \/ Isr \/ Tick \/ UNCHANGED vars
  <2>1. ~BreakOn /\ ~BreakOff /\ ~Spike
    BY <1>1 DEF BreakOn, BreakOff, Spike, Quiet
  <2>2. ~App
    BY DEF App, InitHandle, AppDeInit, AppErrors, AppRead, AppWrite, Call, At
  <2>3. MainLine => DeInitDrop1
    BY DEF MainLine, WriteStore, WriteCount, WriteTest, ArmLoad, ArmTail, ArmCount, ArmIndex,
       ArmState, ArmTime, ArmMode, ReadTest, ReadLoad, ReadCount, ErrLo, ErrFirst, ErrSecond,
       InitRx, InitTx, InitGie, InitChan, ChanStep, CcpStep, TxStep, Ccp2Step, DeInitMute2,
       DeInitDrop2, DeInitChan, DeInitPin, Step, At
  <2> QED BY <2>1, <2>2, <2>3 DEF Next
<1> QED BY <1>2, <1>3, <1>4, LeaveIsr, LeaveTick

-----------------------------------------------------------------------------
(* With the receiver unhooked, or without a channel, no byte comes in.     *)
Down == pc \in {"dMute2", "dDrop2", "dChan", "dPin"} \/ (pc = "idle" /\ ~chan)

LEMMA DownSteps ==
  ASSUME TInv, Down, [Next]_vars
  PROVE  InitHandle \/ (Down' /\ UNCHANGED <<came, cameLast, txIn>>)
<1>1. ~brk /\ (~chan \/ ~ccp1.cb)
  BY DEF Down, TInv, NInv, Open, Unhooked, InDeInit
<1>2. CASE DeInitMute2 \/ DeInitDrop2 \/ DeInitChan \/ DeInitPin
  BY <1>2, <1>1 DEF DeInitMute2, DeInitDrop2, DeInitChan, DeInitPin, CcpStep, ChanStep, Step, At,
     Others, hist, rxHist, Down, ccps, TInv, NInv, Open, InInit
<1>3. CASE Isr
  BY <1>1, <1>3 DEF Isr, IsrRx, rxHist, hist, Down
<1>4. CASE Tick \/ UNCHANGED vars
  BY <1>4 DEF Tick, vars, ccps, rxHist, hist, Down
<1>5. \/ DeInitMute2 \/ DeInitDrop2 \/ DeInitChan \/ DeInitPin \/ Isr \/ Tick
      \/ UNCHANGED vars \/ InitHandle
  <2>1. ~BreakOn /\ ~BreakOff /\ ~Spike
    BY <1>1 DEF BreakOn, BreakOff, Spike, Quiet, Down
  <2>2. App => InitHandle
    BY DEF App, AppDeInit, AppErrors, AppRead, AppWrite, Call, At, Down
  <2>3. MainLine => DeInitMute2 \/ DeInitDrop2 \/ DeInitChan \/ DeInitPin
    BY DEF MainLine, WriteStore, WriteCount, WriteTest, ArmLoad, ArmTail, ArmCount, ArmIndex,
       ArmState, ArmTime, ArmMode, ReadTest, ReadLoad, ReadCount, ErrLo, ErrFirst, ErrSecond,
       InitRx, InitTx, InitGie, InitChan, ChanStep, CcpStep, TxStep, Ccp2Step, DeInitDrop1,
       Step, At, Down
  <2> QED BY <2>1, <2>2, <2>3 DEF Next
<1> QED BY <1>2, <1>3, <1>4, <1>5

LEMMA InitLeaves ==
  ASSUME NInv, pc \in InInit, [Next]_vars, pc' \notin InInit
  PROVE  InitChan
<1>1. ~chan /\ ~brk
  BY DEF NInv, Open
<1>2. pc' # pc
  OBVIOUS
<1>3. ~Isr /\ ~Tick /\ ~BreakOn /\ ~BreakOff /\ ~Spike /\ ~UNCHANGED vars
  BY <1>2 DEF Isr, Tick, BreakOn, BreakOff, Spike, vars
<1>4. ~App
  BY DEF App, InitHandle, AppDeInit, AppErrors, AppRead, AppWrite, Call, At, InInit
<1>5. MainLine => InitRx \/ InitTx \/ InitGie \/ InitChan
  BY DEF MainLine, WriteStore, WriteCount, WriteTest, ArmLoad, ArmTail, ArmCount, ArmIndex,
     ArmState, ArmTime, ArmMode, ReadTest, ReadLoad, ReadCount, ErrLo, ErrFirst, ErrSecond,
     ChanStep, CcpStep, TxStep, Ccp2Step, DeInitDrop1, DeInitMute2, DeInitDrop2,
     DeInitChan, DeInitPin, Step, At, InInit
<1>6. ~InitRx /\ ~InitTx /\ ~InitGie
  BY DEF InitRx, InitTx, InitGie, CcpStep, Step, At, InInit
<1> QED BY <1>3, <1>4, <1>5, <1>6 DEF Next

LEMMA RestartSetsUp ==
  ASSUME InitHandle
  PROVE  SettingUp' /\ pc' = "iRx"
BY DEF InitHandle, Call, At, SettingUp

-----------------------------------------------------------------------------
(* An open channel.                                                        *)
LEMMA LivePlace ==
  ASSUME TInv, Live
  PROVE  chan /\ pc \notin InInit /\ pc \notin InDeInit /\ pc # "dPin"
BY DEF TInv, NInv, Open, Live

LEMMA LiveSteps ==
  ASSUME InMargins, ~WritesAnyTime, CallFits, TInv, Receiver, Live, LineInv, [Next]_vars, ~AppDeInit
  PROVE  LineInv' /\ [Channel!Next]_(Channel!channel)
<1> USE DEF Channel!channel, Channel!Next
<1>1. CASE Isr
  <2>1. UNCHANGED txIn
    BY <1>1 DEF Isr, hist
  <2> QED BY <1>1, <2>1, IsrLine DEF Delivers, Channel!Deliver
<1>2. CASE Tick
  <2>1. UNCHANGED <<txIn, came, cameLast>>
    BY <1>2 DEF Tick, hist, rxHist
  <2> QED BY <1>2, <2>1, TickLine
<1>3. CASE WriteStore
  BY <1>3, StoreLine DEF Channel!Accept
<1>4. CASE \E n \in 1 .. MaxTx : AppWrite(n)
  BY <1>4, BeginLine
<1>5. CASE \/ WriteCount \/ WriteTest \/ ArmLoad \/ ArmTail \/ ArmCount \/ ArmIndex \/ ArmState
           \/ ArmTime \/ ArmMode \/ BreakOn \/ Spike \/ BreakOff
  BY <1>5, CountLine, LoadLine, ArmLine, NoiseLine, BreakLine
<1>6. CASE \/ AppErrors \/ AppRead \/ ReadTest \/ ReadLoad \/ ReadCount
           \/ ErrLo("eLo", "eHi") \/ ErrFirst \/ ErrLo("eLo2", "eHi2") \/ ErrSecond
           \/ UNCHANGED vars
  BY <1>6, ReadLine
<1>7. /\ ~InitHandle /\ ~InitRx /\ ~InitTx /\ ~InitGie /\ ~InitChan
      /\ ~DeInitDrop1 /\ ~DeInitMute2 /\ ~DeInitDrop2 /\ ~DeInitChan /\ ~DeInitPin
  BY LivePlace DEF InitHandle, InitRx, InitTx, InitGie, InitChan, DeInitDrop1, DeInitMute2,
     DeInitDrop2, DeInitChan, DeInitPin, CcpStep, ChanStep, Call, Step, At, InInit, InDeInit
<1> QED BY <1>1, <1>2, <1>3, <1>4, <1>5, <1>6, <1>7 DEF Next, App, MainLine

LEMMA LiveStays ==
  ASSUME TInv, Live, [Next]_vars, ~AppDeInit
  PROVE  Live'
<1> USE LivePlace DEF Call, Step, At, Live, InInit, InDeInit
<1>1. CASE App
  BY <1>1 DEF App, InitHandle, AppErrors, AppRead, AppWrite, ccps
<1>2. CASE \/ WriteStore \/ WriteCount \/ WriteTest \/ ArmLoad \/ ArmTail \/ ArmCount \/ ArmIndex
           \/ ArmState \/ ArmTime \/ ArmMode \/ ReadTest \/ ReadLoad \/ ReadCount
           \/ ErrLo("eLo", "eHi") \/ ErrFirst \/ ErrLo("eLo2", "eHi2") \/ ErrSecond
  BY <1>2 DEF WriteStore, WriteCount, WriteTest, ArmLoad, ArmTail, ArmCount, ArmIndex,
     ArmState, ArmTime, ArmMode, ReadTest, ReadLoad, ReadCount, ErrLo, ErrFirst, ErrSecond,
     TxStep, Ccp2Step, Peripheral, ccps
<1>3. CASE Isr \/ Tick \/ BreakOn \/ BreakOff \/ Spike \/ UNCHANGED vars
  BY <1>3 DEF Isr, Tick, BreakOn, BreakOff, Spike, vars, ccps
<1>4. CASE \/ InitRx \/ InitTx \/ InitGie \/ InitChan \/ DeInitDrop1 \/ DeInitMute2 \/ DeInitDrop2
           \/ DeInitChan \/ DeInitPin
  BY <1>4 DEF InitRx, InitTx, InitGie, InitChan, DeInitDrop1, DeInitMute2,
     DeInitDrop2, DeInitChan, DeInitPin, CcpStep, ChanStep
<1> QED BY <1>1, <1>2, <1>3, <1>4 DEF Next, MainLine

-----------------------------------------------------------------------------
LEMMA CInvInit ==
  ASSUME InMargins
  PROVE  Init => CInv
<1> SUFFICES ASSUME Init PROVE CInv
  OBVIOUS
<1>1. TInv /\ Receiver
  BY TInvInit, ReceiverInit
<1> QED BY <1>1 DEF CInv, Init, Live, InInit

LEMMA CInvSteps ==
  ASSUME InMargins, ~WritesAnyTime, CallFits, CInv, [Next]_vars
  PROVE  CInv' /\ [Channel!Next \/ Restart]_(Channel!channel)
<1> USE DEF Channel!channel, Channel!Next
<1>1. TInv /\ Receiver /\ TInv' /\ Receiver'
  BY TInvSteps, ReceiverSteps DEF CInv, TInv
<1>2. Live => pc \notin InInit /\ pc # "dDrop1"
  BY <1>1, LivePlace DEF InDeInit
<1>3. Live' => pc' \notin InInit /\ pc' # "dDrop1"
  BY <1>1 DEF TInv, NInv, Open, Live, InDeInit
<1>4. pc' \in InInit => ~(pc' = "dDrop1")
  BY DEF InInit
<1>5. CASE Live /\ ~AppDeInit
  BY <1>1, <1>3, <1>5, LiveSteps, LiveStays DEF CInv
<1>6. CASE Live /\ AppDeInit
  <2>1. Leaving' /\ UNCHANGED <<came, cameLast, txIn>> /\ pc' = "dDrop1"
    BY <1>1, <1>6, LeaveLine DEF CInv, AppDeInit, Call, At
  <2> QED BY <1>1, <1>3, <1>4, <2>1 DEF CInv
<1>7. CASE pc = "dDrop1"
  <2>1. /\ pc' = "dDrop1" => Leaving'
        /\ pc' \in {"dDrop1", "dMute2"}
        /\ UNCHANGED txIn /\ (Delivers \/ UNCHANGED <<came, cameLast>>)
    BY <1>1, <1>7, LeaveSteps DEF CInv
  <2>2. ~Live' /\ pc' \notin InInit
    BY <2>1 DEF Live, InDeInit, InInit
  <2> QED BY <1>1, <2>1, <2>2 DEF CInv, Delivers, Channel!Deliver
<1>8. CASE pc \in InInit
  <2>1. CASE pc' \in InInit
    <3>1. SettingUp' /\ UNCHANGED <<came, cameLast, txIn>>
      BY <1>1, <1>8, <2>1, SetUpSteps DEF CInv, TInv
    <3> QED BY <1>1, <1>3, <1>4, <2>1, <3>1 DEF CInv
  <2>2. CASE pc' \notin InInit
    <3>1. InitChan
      BY <1>8, <2>2, <1>1, InitLeaves DEF TInv
    <3>2. LineInv' /\ UNCHANGED <<came, cameLast, txIn>> /\ pc' = "idle"
      BY <1>1, <1>8, <3>1, OpenLine DEF CInv, InitChan, ChanStep, Step, At
    <3> QED BY <1>1, <2>2, <3>2 DEF CInv
  <2> QED BY <2>1, <2>2
<1>9. CASE ~Live /\ pc # "dDrop1" /\ pc \notin InInit
  <2>1. Down
    BY <1>1, <1>9 DEF Down, Live, InDeInit, TInv, NInv, Open, InInit
  <2>2. CASE InitHandle
    BY <1>1, <1>3, <1>4, <2>2, RestartSetsUp DEF CInv, Restart, InInit
  <2>3. CASE Down' /\ UNCHANGED <<came, cameLast, txIn>>
    <3>1. ~Live' /\ pc' # "dDrop1" /\ pc' \notin InInit
      BY <1>1, <2>3 DEF Down, Live, InDeInit, InInit, TInv, NInv, Open
    <3> QED BY <1>1, <2>3, <3>1 DEF CInv
  <2> QED BY <1>1, <2>1, <2>2, <2>3, DownSteps
<1> QED BY <1>5, <1>6, <1>7, <1>8, <1>9

(* What Write stores comes in at the other end complete, in order and      *)
(* once, with the bits it went out with, and no byte is made up: for every *)
(* bit time, ring size, latency and number of bits, whenever the service   *)
(* routine runs, whatever spikes and breaks come before a frame, and       *)
(* across the wrap of Timer1.  Two margins beyond the library's: a call    *)
(* fits into a bit, and Write starts on a line at rest or adds to a byte   *)
(* being shifted.                                                          *)
THEOREM SwUartEndToEnd ==
  ASSUME InMargins, ~WritesAnyTime, CallFits
  PROVE  Spec => EndToEnd
<1>1. Init => CInv /\ Channel!Init
  BY CInvInit DEF Init, Channel!Init
<1>2. CInv /\ [Next]_vars => CInv' /\ [Channel!Next \/ Restart]_(Channel!channel)
  BY CInvSteps
<1> QED BY <1>1, <1>2, PTL DEF Spec, EndToEnd

-----------------------------------------------------------------------------
(* The ring of the receiver: the bytes Read has not taken lie in the order *)
(* they came, after the last one it took.                                  *)
Unread   == rx.count - One(pc = "rCount")
Entry(i) == rx.buf[Place(rx.tail + i)]

Inbox ==
  /\ rx.head = Place(rx.tail + Unread)
  /\ rxLast <= came
  /\ \A i \in Places : i < Unread => rxLast < Entry(i) /\ Entry(i) <= came
  /\ \A i, j \in Places : j < i /\ i < Unread => Entry(j) < Entry(i)

(* Every frame that came and every break is read, in the ring, or an       *)
(* error, or a break the receiver is still in.                             *)
Account == came + breaks = rxOut + Unread + errs + One(brk /\ ~RxRest)

Cleared == rxOut = 0 /\ errs = 0 /\ breaks = 0 /\ rxLast = 0

RInv == /\ CInv /\ ErrorsRead
        /\ Live => Inbox /\ Account
        /\ pc \in InInit => Cleared

LEMMA UnreadType ==
  ASSUME Receiver
  PROVE  /\ rx.count \in 0 .. SZ /\ Unread \in 0 .. SZ /\ rx.tail \in Places /\ rx.head \in Places
         /\ rx.buf \in [Places -> Bytes] /\ SZ \in Nat \ {0}
         /\ rx.count < SZ => Unread \in 0 .. SZ - 1
         /\ \A i \in Places : Place(rx.tail + i) \in Places /\ Entry(i) \in Nat
         /\ came \in Nat /\ rxLast \in Nat /\ rxOut \in Nat /\ rx.shift \in Nat
<1>1. /\ rx.count \in 0 .. SZ /\ rx.tail \in Places /\ rx.head \in Places
      /\ rx.buf \in [Places -> Bytes] /\ SZ \in Nat \ {0} /\ rx.shift \in Nat
  BY RxTypes, RingPlaces DEF Levels
<1>2. Unread \in 0 .. SZ /\ (rx.count < SZ => Unread \in 0 .. SZ - 1)
  BY <1>1 DEF Unread, One, Receiver
<1>3. ASSUME NEW i \in Places PROVE Place(rx.tail + i) \in Places
  <2>1. i \in 0 .. SZ
    BY <1>1 DEF Places
  <2> QED BY <1>1, <2>1, RingPlaces
<1>4. \A i \in Places : Entry(i) \in Bytes
  BY <1>1, <1>3 DEF Entry
<1>5. Bytes \subseteq Nat
  BY Sizes DEF Bytes
<1> QED BY <1>1, <1>2, <1>3, <1>4, <1>5 DEF Receiver

LEMMA InboxKept ==
  ASSUME Inbox, UNCHANGED <<rx.buf, rx.head, rx.tail, rxLast, came>>, Unread' = Unread
  PROVE  Inbox'
<1>1. \A i : Entry(i)' = Entry(i)
  BY DEF Entry
<1> QED BY <1>1 DEF Inbox

-----------------------------------------------------------------------------
LEMMA IsrReads ==
  ASSUME InMargins, TInv, Receiver, Live, LineInv, ErrorsRead, Inbox, Account, Isr
  PROVE  Inbox' /\ Account' /\ UNCHANGED <<rxLast, rxOut>>
<1>1. UNCHANGED <<pc, rxLast, rxOut, breaks, brk>> /\ Level' = Level
  BY DEF Isr, hist, bounds, clock, Level
<1>2. /\ ~ccp1'.flag
      /\ \/ RxNone \/ RxIgnores \/ RxTrusts \/ RxDoubts \/ RxDenies \/ RxAgrees
         \/ RxSamples \/ RxEnds
  BY IsrRxEffect DEF LineInv, Wired, Live
<1>3. /\ came \in Nat /\ rxLast \in Nat /\ rxOut \in Nat /\ errs \in Nat /\ breaks \in Nat
      /\ Unread \in Nat /\ Level \in {0, 1} /\ brk \in BOOLEAN
  BY UnreadType, LineTypes DEF ErrorsRead, TInv, Clocks
<1>4. brk => Level = 0
  BY DEF Level
<1>5. CASE ~RxEnds
  <2>1. UNCHANGED <<rx.buf, rx.head, rx.tail, rx.count, errs, came>>
    BY <1>2, <1>5 DEF RxNone, RxIgnores, RxTrusts, RxDoubts, RxDenies, RxAgrees, RxSamples,
       RxStarts, RxQuiet, RxRing
  <2>2. Unread' = Unread
    BY <1>1, <2>1 DEF Unread
  <2>3. brk => (RxRest' <=> RxRest)
    BY <1>2, <1>4, <1>5 DEF RxNone, RxIgnores, RxTrusts, RxDoubts, RxDenies, RxAgrees,
       RxSamples, RxStarts, RxRest
  <2> QED BY <1>1, <2>1, <2>2, <2>3, InboxKept DEF Account
<1>6. CASE RxEnds
  <2>1. /\ ccp1.flag /\ rx.state = "STOP" /\ rx'.state = "IDLE" /\ UNCHANGED rx.tail
        /\ came' = came + Level
        /\ \/ /\ Level = 1 /\ rx.count < SZ /\ rx'.count = rx.count + 1
              /\ rx'.buf = [rx.buf EXCEPT ![rx.head] = rx.shift]
              /\ rx'.head = Succ(rx.head) /\ UNCHANGED errs
           \/ /\ Level = 0 \/ rx.count >= SZ
              /\ RxRing /\ errs' = errs + 1
    BY <1>6 DEF RxEnds
  <2>2. RxRest' /\ ~RxRest
    BY <1>2, <2>1 DEF RxRest
  <2>3. Level = 1 => rx.shift = came + 1
    BY <1>6, IsrEnds
  <2>4. Level = 0 => brk
    <3>1. Armed => pin = 1
      BY <2>1, Whereabouts
    <3> QED BY <1>3, <3>1 DEF Level, Shape, LineInv
  <2>5. One(brk' /\ ~RxRest') = 0 /\ One(brk /\ ~RxRest) = 1 - Level
    BY <1>3, <1>4, <2>2, <2>4 DEF One, Level
  <2>6. CASE /\ Level = 1 /\ rx.count < SZ /\ rx'.count = rx.count + 1
             /\ rx'.buf = [rx.buf EXCEPT ![rx.head] = rx.shift]
             /\ rx'.head = Succ(rx.head) /\ UNCHANGED errs
    <3>1. Unread' = Unread + 1 /\ came' = came + 1
      BY <1>1, <1>3, <2>1, <2>6, UnreadType DEF Unread, One
    <3>2. Account'
      BY <1>1, <1>3, <2>5, <2>6, <3>1 DEF Account
    <3>3. Unread \in 0 .. SZ - 1 /\ Unread \in Places /\ rx.head = Place(rx.tail + Unread)
      BY <2>6, UnreadType DEF Inbox, Places
    <3>4. ASSUME NEW i \in Places, i = Unread
          PROVE  Entry(i)' = came + 1
      <4>1. Entry(i)' = rx'.buf[rx.head]
        BY <2>1, <3>3, <3>4 DEF Entry
      <4> QED BY <2>3, <2>6, <4>1, UnreadType
    <3>5. ASSUME NEW i \in Places, i < Unread
          PROVE  Entry(i)' = Entry(i)
      <4>1. rx.tail \in Places /\ i \in 0 .. SZ - 1 /\ i # Unread
        BY <3>3, <3>5, UnreadType DEF Places
      <4>2. Place(rx.tail + i) # Place(rx.tail + Unread)
        BY <3>3, <4>1, RingPlaces, Zenon
      <4> QED BY <2>1, <2>6, <3>3, <4>2, UnreadType DEF Entry
    <3>6. rx'.head = Place(rx'.tail + Unread')
      <4>1. Succ(Place(rx.tail + Unread)) = Place(rx.tail + (Unread + 1))
        BY <3>3, UnreadType, RingPlaces
      <4> QED BY <2>1, <2>6, <3>1, <3>3, <4>1
    <3>7. rxLast' <= came'
      BY <1>1, <1>3, <3>1 DEF Inbox
    <3>8. ASSUME NEW i \in Places, i < Unread'
          PROVE  /\ rxLast' < Entry(i)' /\ Entry(i)' <= came'
                 /\ \A j \in Places : j < i => Entry(j)' < Entry(i)'
      <4>0. Places \subseteq Nat
        BY DEF Places
      <4>1. CASE i < Unread
        <5>1. Entry(i)' = Entry(i) /\ rxLast < Entry(i) /\ Entry(i) <= came /\ Entry(i) \in Nat
          BY <3>5, <4>1, UnreadType DEF Inbox
        <5>2. ASSUME NEW j \in Places, j < i PROVE Entry(j)' < Entry(i)'
          <6>1. j < Unread
            BY <1>3, <4>0, <4>1, <5>2
          <6> QED BY <3>5, <4>1, <5>1, <5>2, <6>1 DEF Inbox
        <5> QED BY <1>1, <1>3, <3>1, <5>1, <5>2
      <4>2. CASE i = Unread
        <5>1. ASSUME NEW j \in Places, j < i PROVE Entry(j)' < Entry(i)'
          <6>1. Entry(j)' = Entry(j) /\ Entry(j) <= came /\ Entry(j) \in Nat
            BY <3>5, <4>2, <5>1, UnreadType DEF Inbox
          <6> QED BY <1>3, <3>4, <4>2, <6>1
        <5>2. rxLast <= came
          BY DEF Inbox
        <5> QED BY <1>1, <1>3, <3>1, <3>4, <4>2, <5>1, <5>2
      <4> QED BY <1>3, <3>1, <3>8, <4>0, <4>1, <4>2
    <3>9. Inbox'
      BY <3>6, <3>7, <3>8 DEF Inbox
    <3> QED BY <1>1, <3>2, <3>9
  <2>7. CASE RxRing /\ errs' = errs + 1
    <3>1. Unread' = Unread /\ UNCHANGED <<rx.buf, rx.head, rx.tail>>
      BY <1>1, <2>7 DEF Unread, RxRing
    <3>2. Account'
      BY <1>1, <1>3, <2>1, <2>5, <2>7, <3>1 DEF Account
    <3>3. \A i \in Places : Entry(i)' = Entry(i) /\ Entry(i) \in Nat
      BY <3>1, UnreadType DEF Entry
    <3>4. came' >= came /\ came' \in Nat
      BY <1>3, <2>1
    <3>5. Inbox'
      BY <1>1, <1>3, <3>1, <3>3, <3>4 DEF Inbox
    <3> QED BY <1>1, <3>2, <3>5
  <2> QED BY <2>1, <2>6, <2>7
<1> QED BY <1>5, <1>6

(* Read takes the oldest byte of the ring.                                 *)
LEMMA TakesOldest ==
  ASSUME TInv, Receiver, ErrorsRead, Inbox, Account, ReadLoad
  PROVE  Inbox' /\ Account' /\ rxLast' > rxLast /\ rxOut' = rxOut + 1
<1>1. /\ UNCHANGED <<brk, ccp1, errs, came, breaks>> /\ pc = "rLoad" /\ pc' = "rCount"
      /\ rxOut' = rxOut + 1 /\ rxLast' = rx.buf[rx.tail]
      /\ rx' = [rx EXCEPT !.tail = Succ(rx.tail)]
  BY DEF ReadLoad, Step, At, Others, NoTime, clock, ccps
<1>2. rx'.tail = Succ(rx.tail) /\ UNCHANGED <<rx.buf, rx.head, rx.count, rx.state>>
  BY <1>1, HandleIs DEF Receiver
<1>3. /\ came \in Nat /\ rxLast \in Nat /\ rxOut \in Nat /\ errs \in Nat /\ breaks \in Nat
      /\ rx.tail \in Places /\ Unread \in 1 .. SZ /\ Unread' = Unread - 1 /\ SZ \in Nat \ {0}
  BY <1>1, <1>2, UnreadType DEF ErrorsRead, TInv, Clocks, Unread, One, Receiver
<1>4. (RxRest' <=> RxRest) /\ Account'
  <2>1. RxRest' <=> RxRest
    BY <1>1, <1>2 DEF RxRest
  <2>2. One(brk /\ ~RxRest) \in Nat
    BY DEF One
  <2> QED BY <1>1, <1>3, <2>1, <2>2 DEF Account
<1>5. 0 \in Places /\ Entry(0) = rxLast'
  BY <1>1, <1>3, RingPlaces DEF Places, Entry
<1>6. rxLast < rxLast' /\ rxLast' <= came
  BY <1>3, <1>5 DEF Inbox
<1>7. ASSUME NEW i \in Places, i < Unread'
      PROVE  i + 1 \in Places /\ Entry(i)' = Entry(i + 1)
  <2>1. i \in 0 .. SZ - 1 /\ i + 1 \in 0 .. SZ - 1
    BY <1>3, <1>7 DEF Places
  <2>2. Place(Succ(rx.tail) + i) = Place(rx.tail + (i + 1))
    BY <1>3, <2>1, RingPlaces
  <2> QED BY <1>2, <2>1, <2>2 DEF Entry, Places
<1>8. rx'.head = Place(rx'.tail + Unread')
  <2>1. Unread - 1 \in 0 .. SZ - 1 /\ (Unread - 1) + 1 = Unread
    BY <1>3
  <2>2. Place(Succ(rx.tail) + (Unread - 1)) = Place(rx.tail + Unread)
    BY <1>3, <2>1, RingPlaces
  <2> QED BY <1>2, <1>3, <2>2 DEF Inbox
<1>9. ASSUME NEW i \in Places, i < Unread'
      PROVE  /\ rxLast' < Entry(i)' /\ Entry(i)' <= came'
             /\ \A j \in Places : j < i => Entry(j)' < Entry(i)'
  <2>1. i \in Nat /\ i + 1 \in Places /\ Entry(i)' = Entry(i + 1) /\ i + 1 < Unread /\ 0 < i + 1
    <3>1. i \in Nat
      BY DEF Places
    <3> QED BY <1>3, <1>7, <1>9, <3>1
  <2>2. Entry(i + 1) <= came /\ Entry(0) < Entry(i + 1)
    BY <1>5, <2>1 DEF Inbox
  <2>3. ASSUME NEW j \in Places, j < i PROVE Entry(j)' < Entry(i)'
    <3>1. j < Unread' /\ j + 1 < i + 1
      <4>1. j \in Nat
        BY DEF Places
      <4> QED BY <1>3, <1>9, <2>1, <2>3, <4>1
    <3>2. j + 1 \in Places /\ Entry(j)' = Entry(j + 1)
      BY <1>7, <3>1
    <3> QED BY <2>1, <3>1, <3>2 DEF Inbox
  <2> QED BY <1>1, <1>5, <2>1, <2>2, <2>3
<1>10. Inbox'
  BY <1>1, <1>6, <1>8, <1>9 DEF Inbox
<1> QED BY <1>1, <1>4, <1>6, <1>10

(* The steps that leave the ring and the accounts as they are.             *)
LEMMA StillReads ==
  ASSUME Inbox, Account, ErrorsRead,
         UNCHANGED <<rx.buf, rx.head, rx.tail, rx.state, came, breaks, errs, rxOut, rxLast, brk>>,
         Unread' = Unread, brk => (ccp1'.flag <=> ccp1.flag) \/ rx.state # "IDLE"
  PROVE  Inbox' /\ Account'
<1>1. (brk /\ ~RxRest)' <=> (brk /\ ~RxRest)
  BY DEF RxRest
<1> QED BY <1>1, InboxKept DEF Account, One

LEMMA MainReads ==
  ASSUME TInv, Receiver, ErrorsRead, Inbox, Account,
         \/ AppErrors \/ AppRead \/ ReadTest \/ ReadCount
         \/ ErrLo("eLo", "eHi") \/ ErrFirst \/ ErrLo("eLo2", "eHi2") \/ ErrSecond
         \/ WriteStore \/ WriteCount \/ WriteTest \/ ArmLoad \/ ArmTail \/ ArmCount \/ ArmIndex
         \/ ArmState \/ ArmTime \/ ArmMode \/ (\E n \in 1 .. MaxTx : AppWrite(n))
  PROVE  Inbox' /\ Account' /\ UNCHANGED <<rxOut, rxLast>>
<1> USE DEF Call, Step, At, Others, NoTime, clock, ccps, hist
<1>1. CASE ReadCount
  <2>1. /\ UNCHANGED <<brk, ccp1, errs, came, breaks, rxOut, rxLast>>
        /\ pc = "rCount" /\ pc' = "rTest" /\ rx' = [rx EXCEPT !.count = Dec(rx.count)]
    BY <1>1 DEF ReadCount
  <2>2. /\ rx'.count = Dec(rx.count)
        /\ UNCHANGED <<rx.buf, rx.head, rx.tail, rx.state>>
    BY <2>1, HandleIs DEF Receiver
  <2>3. Unread' = Unread
    <3>1. Dec(rx.count) = rx.count - 1 /\ rx.count \in Nat
      BY <2>1, RxTypes, Indices DEF Receiver
    <3> QED BY <2>1, <2>2, <3>1 DEF Unread, One
  <2> QED BY <2>1, <2>2, <2>3, StillReads
<1>2. CASE \/ AppErrors \/ AppRead \/ ReadTest
           \/ ErrLo("eLo", "eHi") \/ ErrFirst \/ ErrLo("eLo2", "eHi2") \/ ErrSecond
           \/ WriteStore \/ WriteCount \/ WriteTest \/ ArmLoad \/ ArmTail \/ ArmCount \/ ArmIndex
           \/ ArmState \/ ArmTime \/ ArmMode \/ (\E n \in 1 .. MaxTx : AppWrite(n))
  <2>1. /\ UNCHANGED <<brk, ccp1, rx, errs, came, breaks, rxOut, rxLast>>
        /\ pc # "rCount" /\ pc' # "rCount"
    BY <1>2 DEF AppErrors, AppRead, ReadTest, ErrLo, ErrFirst, ErrSecond, WriteStore, WriteCount,
       WriteTest, ArmLoad, ArmTail, ArmCount, ArmIndex, ArmState, ArmTime, ArmMode, AppWrite,
       TxStep, Ccp2Step
  <2>2. Unread' = Unread
    BY <2>1 DEF Unread
  <2> QED BY <2>1, <2>2, StillReads
<1> QED BY <1>1, <1>2

LEMMA LineReads ==
  ASSUME InMargins, TInv, Receiver, Live, LineInv, ErrorsRead, Inbox, Account,
         Tick \/ BreakOn \/ BreakOff \/ Spike \/ UNCHANGED vars
  PROVE  Inbox' /\ Account' /\ UNCHANGED <<rxOut, rxLast>>
<1>1. /\ UNCHANGED <<rx, pc, errs, came, rxOut, rxLast>>
  BY DEF Tick, BreakOn, BreakOff, Spike, vars, rxHist, hist
<1>2. Unread' = Unread /\ Inbox'
  BY <1>1, InboxKept DEF Unread
<1>3. CASE Tick
  <2>1. UNCHANGED <<brk, breaks>>
    BY <1>3 DEF Tick, bounds
  <2>2. ccp1'.flag <=> ccp1.flag \/ Match1 \/ Falls
    BY <1>3, TickEdge
  <2>3. brk => (ccp1'.flag <=> ccp1.flag) \/ rx.state # "IDLE"
    BY <2>2 DEF Match1, Falls
  <2> QED BY <1>1, <1>2, <2>1, <2>3, StillReads
<1>4. CASE BreakOn
  <2>1. /\ breaks' = breaks + 1 /\ brk' /\ ~brk /\ ccp1' = [ccp1 EXCEPT !.flag = TRUE, !.reg = t]
    BY <1>4 DEF BreakOn, Captured, Quiet
  <2>2. ~RxRest'
    BY <2>1 DEF RxRest, TInv, Ccps, CcpType
  <2>3. /\ came \in Nat /\ rxOut \in Nat /\ errs \in Nat /\ breaks \in Nat /\ Unread \in Nat
    BY UnreadType DEF ErrorsRead, TInv, Clocks
  <2> QED BY <1>1, <1>2, <2>1, <2>2, <2>3 DEF Account, One
<1>5. CASE BreakOff
  <2>1. /\ UNCHANGED <<ccp1, breaks>> /\ brk /\ held = Frame /\ ~brk'
    BY <1>5 DEF BreakOff, ccps, bounds
  <2>2. RxRest
    BY <2>1, BreakOver
  <2> QED BY <1>1, <1>2, <2>1, <2>2 DEF Account, One
<1>6. CASE Spike
  <2>1. ~brk /\ UNCHANGED <<brk, breaks>>
    BY <1>6 DEF Spike, Quiet, clock
  <2> QED BY <1>1, <1>2, <2>1 DEF Account, One
<1>7. CASE UNCHANGED vars
  <2>1. UNCHANGED <<brk, breaks, ccp1>>
    BY <1>7 DEF vars, clock, bounds, ccps
  <2> QED BY <1>1, <1>2, <2>1, StillReads
<1> QED BY <1>3, <1>4, <1>5, <1>6, <1>7

LEMMA LiveReads ==
  ASSUME InMargins, TInv, Receiver, Live, LineInv, ErrorsRead, Inbox, Account,
         [Next]_vars, ~AppDeInit
  PROVE  Inbox' /\ Account' /\ (rxOut' = rxOut + 1 => rxLast' > rxLast)
<1>1. rxOut \in Nat /\ (UNCHANGED rxOut => rxOut' # rxOut + 1)
  BY UnreadType
<1>2. /\ ~InitHandle /\ ~InitRx /\ ~InitTx /\ ~InitGie /\ ~InitChan
      /\ ~DeInitDrop1 /\ ~DeInitMute2 /\ ~DeInitDrop2 /\ ~DeInitChan /\ ~DeInitPin
  BY LivePlace DEF InitHandle, InitRx, InitTx, InitGie, InitChan, DeInitDrop1, DeInitMute2,
     DeInitDrop2, DeInitChan, DeInitPin, CcpStep, ChanStep, Call, Step, At, InInit, InDeInit
<1> QED BY <1>1, <1>2, IsrReads, TakesOldest, MainReads, LineReads DEF Next, App, MainLine

(* Nothing is read of a channel that is not open.                          *)
LEMMA ClosedReads ==
  ASSUME TInv, Receiver, [Next]_vars, (~Live) \/ AppDeInit
  PROVE  /\ ~(rxOut' = rxOut + 1)
         /\ InitHandle \/ UNCHANGED <<rxOut, rxLast>>
<1>1. rxOut \in Nat
  BY DEF Receiver
<1>2. ~ReadLoad
  BY DEF ReadLoad, Step, At, AppDeInit, Call, Live, InDeInit, TInv, NInv, Open, InInit
<1>3. InitHandle \/ UNCHANGED <<rxOut, rxLast>>
  <2> USE DEF hist, Others
  <2>1. CASE App \/ Isr \/ Tick \/ BreakOn \/ BreakOff \/ Spike \/ UNCHANGED vars
    BY <2>1 DEF App, AppDeInit, AppErrors, AppRead, AppWrite, Isr, Tick, BreakOn, BreakOff,
       Spike, vars
  <2>2. CASE MainLine
    BY <1>2, <2>2 DEF MainLine, WriteStore, WriteCount, WriteTest, ArmLoad, ArmTail, ArmCount,
       ArmIndex, ArmState, ArmTime, ArmMode, ReadTest, ReadCount, ErrLo, ErrFirst, ErrSecond,
       InitRx, InitTx, InitGie, InitChan, ChanStep, CcpStep, TxStep, Ccp2Step, DeInitDrop1,
       DeInitMute2, DeInitDrop2, DeInitChan, DeInitPin
  <2> QED BY <2>1, <2>2 DEF Next
<1>4. InitHandle => rxOut' = 0
  BY DEF InitHandle
<1> QED BY <1>1, <1>3, <1>4

-----------------------------------------------------------------------------
LEMMA RInvInit ==
  ASSUME InMargins
  PROVE  Init => RInv
<1> SUFFICES ASSUME Init PROVE RInv
  OBVIOUS
<1>1. CInv
  BY CInvInit
<1> QED BY <1>1 DEF RInv, Init, Live, InInit, ErrorsRead

LEMMA ClearSteps ==
  ASSUME NInv, pc \in InInit, Cleared, [Next]_vars
  PROVE  Cleared'
<1>1. ~chan /\ ~brk
  BY DEF NInv, Open
<1>2. CASE Isr \/ Tick \/ UNCHANGED vars
  BY <1>1, <1>2 DEF Isr, IsrRx, Tick, vars, hist, bounds, Cleared
<1>3. CASE InitRx \/ InitTx \/ InitGie \/ InitChan
  BY <1>3 DEF InitRx, InitTx, InitGie, InitChan, CcpStep, ChanStep, Others, hist, Cleared
<1>4. \/ Isr \/ Tick \/ UNCHANGED vars \/ InitRx \/ InitTx \/ InitGie \/ InitChan
  <2>1. ~BreakOn /\ ~BreakOff /\ ~Spike
    BY <1>1 DEF BreakOn, BreakOff, Spike, Quiet
  <2>2. ~App
    BY DEF App, InitHandle, AppDeInit, AppErrors, AppRead, AppWrite, Call, At, InInit
  <2>3. MainLine => InitRx \/ InitTx \/ InitGie \/ InitChan
    BY DEF MainLine, WriteStore, WriteCount, WriteTest, ArmLoad, ArmTail, ArmCount, ArmIndex,
       ArmState, ArmTime, ArmMode, ReadTest, ReadLoad, ReadCount, ErrLo, ErrFirst, ErrSecond,
       ChanStep, CcpStep, TxStep, Ccp2Step, DeInitDrop1, DeInitMute2, DeInitDrop2,
       DeInitChan, DeInitPin, Step, At, InInit
  <2> QED BY <2>1, <2>2, <2>3 DEF Next
<1> QED BY <1>2, <1>3, <1>4

LEMMA OpenReads ==
  ASSUME TInv, SettingUp, Cleared, InitChan
  PROVE  Inbox' /\ Account'
<1>1. /\ UNCHANGED <<rx, errs, came, breaks, rxOut, rxLast, brk>> /\ pc = "iChan" /\ pc' = "idle"
  BY DEF InitChan, ChanStep, Step, At, Others, NoTime, clock, hist
<1>2. ~brk
  BY <1>1 DEF TInv, NInv, Open, InInit
<1>3. rx.count = 0 /\ rx.head = 0 /\ rx.tail = 0 /\ came = 0
  BY DEF SettingUp, Handle
<1>4. Unread' = 0 /\ SZ \in Nat \ {0}
  BY <1>1, <1>3, RingPlaces DEF Unread, One
<1>5. rxOut = 0 /\ errs = 0 /\ breaks = 0 /\ rxLast = 0
  BY DEF Cleared
<1>6. Account'
  BY <1>1, <1>2, <1>3, <1>4, <1>5 DEF Account, One
<1>7. Place(0 + 0) = 0
  BY <1>4 DEF Place
<1>8. \A i \in Places : ~(i < 0)
  BY <1>4 DEF Places
<1>9. Inbox'
  BY <1>1, <1>3, <1>4, <1>5, <1>7, <1>8 DEF Inbox
<1> QED BY <1>6, <1>9

(* How a channel is opened, and how its set-up begins.                     *)
LEMMA Opens ==
  ASSUME TInv, TInv', [Next]_vars, Live', (~Live) \/ AppDeInit
  PROVE  InitChan
<1>1. chan' /\ pc' \notin InDeInit
  BY DEF Live
<1>2. ~AppDeInit /\ ~Live
  BY <1>1 DEF AppDeInit, Call, At, InDeInit
<1>3. (~chan) \/ pc \in InDeInit
  BY <1>2 DEF Live
<1>4. CASE ~chan
  BY <1>1, <1>4 DEF Next, App, InitHandle, AppDeInit, AppErrors, AppRead, AppWrite, MainLine,
     WriteStore, WriteCount, WriteTest, ArmLoad, ArmTail, ArmCount, ArmIndex, ArmState, ArmTime,
     ArmMode, ReadTest, ReadLoad, ReadCount, ErrLo, ErrFirst, ErrSecond, InitRx, InitTx,
     InitGie, ChanStep, CcpStep, TxStep, Ccp2Step, DeInitDrop1, DeInitMute2,
     DeInitDrop2, DeInitChan, DeInitPin, Peripheral, Isr, Tick, BreakOn, BreakOff, Spike, vars, ccps
<1>5. CASE pc \in InDeInit
  <2>1. pc' \in InDeInit \/ pc' = "dPin"
    BY <1>5 DEF InDeInit, Next, App, InitHandle, AppDeInit, AppErrors, AppRead, AppWrite, MainLine,
       WriteStore, WriteCount, WriteTest, ArmLoad, ArmTail, ArmCount, ArmIndex, ArmState, ArmTime,
       ArmMode, ReadTest, ReadLoad, ReadCount, ErrLo, ErrFirst, ErrSecond, InitRx, InitTx,
       InitGie, InitChan, ChanStep, CcpStep, TxStep, Ccp2Step, DeInitDrop1, DeInitMute2,
       DeInitDrop2, DeInitChan, DeInitPin, Isr, Tick, BreakOn, BreakOff, Spike, vars, Quiet,
       Call, Step, At
  <2> QED BY <1>1, <2>1 DEF TInv, NInv, Open
<1> QED BY <1>3, <1>4, <1>5

LEMMA Enters ==
  ASSUME [Next]_vars, pc' \in InInit
  PROVE  InitHandle \/ pc \in InInit
BY DEF InInit, Next, App, AppDeInit, AppErrors, AppRead, AppWrite, MainLine,
   WriteStore, WriteCount, WriteTest, ArmLoad, ArmTail, ArmCount, ArmIndex, ArmState, ArmTime,
   ArmMode, ReadTest, ReadLoad, ReadCount, ErrLo, ErrFirst, ErrSecond, InitRx, InitTx,
   InitGie, InitChan, ChanStep, CcpStep, TxStep, Ccp2Step, DeInitDrop1, DeInitMute2,
   DeInitDrop2, DeInitChan, DeInitPin, Isr, Tick, BreakOn, BreakOff, Spike, vars, Call, Step, At

LEMMA RInvSteps ==
  ASSUME InMargins, ~WritesAnyTime, CallFits, RInv, [Next]_vars
  PROVE  RInv' /\ (rxOut' = rxOut + 1 => rxLast' > rxLast)
<1>1. CInv' /\ ErrorsRead' /\ TInv /\ Receiver /\ TInv'
  BY CInvSteps, ErrorsStep DEF RInv, CInv
<1>2. Live' => pc' \notin InInit
  BY <1>1 DEF TInv, NInv, Open, Live
<1>3. CASE Live /\ ~AppDeInit
  <2>1. Live' /\ Inbox' /\ Account' /\ (rxOut' = rxOut + 1 => rxLast' > rxLast)
    BY <1>1, <1>3, LiveStays, LiveReads DEF RInv, CInv
  <2> QED BY <1>1, <1>2, <2>1 DEF RInv
<1>4. CASE (~Live) \/ AppDeInit
  <2>1. ~(rxOut' = rxOut + 1)
    BY <1>1, <1>4, ClosedReads
  <2>2. ASSUME Live' PROVE Inbox' /\ Account'
    <3>1. InitChan
      BY <1>1, <1>4, <2>2, Opens
    <3>2. pc \in InInit
      BY <3>1 DEF InitChan, ChanStep, Step, At, InInit
    <3> QED BY <1>1, <3>1, <3>2, OpenReads DEF RInv, CInv
  <2>3. ASSUME pc' \in InInit PROVE Cleared'
    <3>1. CASE InitHandle
      BY <3>1 DEF InitHandle, Cleared
    <3>2. CASE pc \in InInit
      BY <1>1, <3>2, ClearSteps DEF RInv, TInv
    <3>3. InitHandle \/ pc \in InInit
      BY <1>1, <2>3, Enters DEF TInv
    <3> QED BY <3>1, <3>2, <3>3
  <2> QED BY <1>1, <2>1, <2>2, <2>3 DEF RInv
<1> QED BY <1>3, <1>4

(* Read hands bytes over in the order they came and never twice, whatever  *)
(* the receiver pushes between two of its accesses, for every ring size.   *)
THEOREM SwUartReadInOrder ==
  ASSUME InMargins, ~WritesAnyTime, CallFits
  PROVE  Spec => ReadInOrder
<1>1. Init => RInv
  BY RInvInit
<1>2. RInv /\ [Next]_vars => RInv' /\ [rxOut' = rxOut + 1 => rxLast' > rxLast]_<<rxOut, rxLast>>
  BY RInvSteps
<1> QED BY <1>1, <1>2, PTL DEF Spec, ReadInOrder

(* With the line at rest every byte written has been read, is in the ring  *)
(* or is counted as an error, and so is every break: nothing is lost       *)
(* silently, however long the program lets the ring stay full.             *)
THEOREM SwUartLossCounted ==
  ASSUME InMargins, ~WritesAnyTime, CallFits
  PROVE  Spec => []LossCounted
<1>1. Init => RInv
  BY RInvInit
<1>2. RInv /\ [Next]_vars => RInv'
  BY RInvSteps
<1>3. RInv => LossCounted
  <2> SUFFICES ASSUME RInv, Quiet PROVE txIn + breaks = rxOut + rx.count + errs
    BY DEF LossCounted
  <2>1. TInv /\ Receiver /\ ErrorsRead
    BY DEF RInv, CInv
  <2>2. chan /\ pc = "idle" /\ tx.count = 0 /\ ~brk
    BY DEF Quiet
  <2>3. Live
    BY <2>2 DEF Live, InDeInit
  <2>4. LineInv /\ Account
    BY <2>3 DEF RInv, CInv
  <2>5. Sent = came /\ came \in Nat
    BY <2>1, <2>4, QuietLine
  <2>6. txIn = came
    <3>1. Waiting = 0 /\ txIn \in Nat
      BY <2>1, <2>2, TxTypes DEF Waiting, One
    <3> QED BY <2>5, <3>1 DEF Sent
  <2>7. Unread = rx.count /\ rx.count \in Nat
    BY <2>1, <2>2, UnreadType DEF Unread, One
  <2>8. /\ rxOut \in Nat /\ errs \in Nat /\ breaks \in Nat
        /\ One(brk /\ ~RxRest) = 0
    BY <2>1, <2>2, UnreadType DEF ErrorsRead, TInv, Clocks, One
  <2>9. txIn + breaks = rxOut + rx.count + errs + 0
    BY <2>4, <2>6, <2>7, <2>8 DEF Account
  <2> QED BY <2>7, <2>8, <2>9
<1> QED BY <1>1, <1>2, <1>3, PTL DEF Spec

=============================================================================
