-------------------------- MODULE ModbusPaceProofs --------------------------
(***************************************************************************)
(* Proofs about the pace of the slave and of the master: which times let a *)
(* slave that polls in time answer before the master sends again, and hear *)
(* every request no fault has hit.                                         *)
(***************************************************************************)
EXTENDS ModbusProofs

(* The times of a prompt slave.  The master waits long enough for a slave  *)
(* that polls in time to read a request, to tell its end, to notice that   *)
(* and to answer, one call after the other; and it is silent for longer    *)
(* than the slave takes to let the bus go.                                 *)
Patient ==
  /\ T35 * Ms + 2 * Prompt + 4 * CallTime + Reply <= Timeout + 1
  /\ 2 * CallTime < Gap

(* The characters of an answer still to leave.                             *)
Owed      == left + txq + (IF busy THEN 1 ELSE 0)
Answering == pc \in {"enable", "write", "flush"}

Lag == Prompt + 2 * CallTime    (* from a character to its stamp           *)
Due == T35 * Ms - 1 + Lag       (* to the poll that finds the silence      *)

Prompted == pc = "rest" => since <= Prompt

(* What is in the ring now, this call empties.                             *)
Swept ==
  /\ pc = "read" => Len(ring) <= Adu - Len(frame) + surplus
  /\ pc = "drain" => Len(ring) <= surplus
  /\ pc = "stamp" => ring = << >>

(* While the master waits for a request that was not performed so far, the *)
(* characters are read and the silence is told in time.                    *)
ReadSoon ==
  mst = "wait" /\ served < asked =>
    /\ pc = "rest" /\ ring # << >> => gap <= CallTime + since
    /\ pc \in {"read", "drain", "stamp"} =>
         gap <= since \/ (Swept /\ gap <= CallTime + Prompt + since)
    /\ pc = "check" /\ ring # << >> => gap <= since
    /\ pc \in {"rest", "check"} /\ ring = << >> /\ frame # << >> =>
         /\ gap <= Due + since + IF pc = "check" THEN Prompt ELSE 0
         /\ elapsed < T35 => gap <= Age + Lag

(* No request for this slave is left of those the master has given up.     *)
Stale(c)  == c[2] # 0 /\ dest[c[1]] = "us" /\ (c[1] # asked \/ mst = "rest")
NoneStale == /\ \A i \in 1 .. Len(frame) : ~Stale(frame[i])
             /\ \A i \in 1 .. Len(ring) : ~Stale(ring[i])

(* An answer is under way while the master waits for it, and it ends in    *)
(* time; then the driver is let go.                                        *)
InAnswer ==
  /\ mst = "wait" /\ dest[asked] = "us" /\ served = asked /\ Owed > 0
  /\ gap + Owed <= Due + Prompt + CallTime + Reply
                   + IF pc \in {"enable", "write"} THEN since ELSE CallTime
AfterAnswer ==
  mst = "rest" /\ Owed = 0 /\ gap <= since + IF pc = "flush" THEN CallTime ELSE 0
AnswersSoon == Owed > 0 \/ Answering => InAnswer \/ AfterAnswer

Soon == Prompted /\ ReadSoon /\ NoneStale /\ AnswersSoon
InStep == Typed /\ Held /\ Order /\ Soon /\ ~torn

(* A step that is not the race.                                            *)
Unraced == (\E d \in Dests : Ask(d)) \/ Send \/ GiveUp \/ Main \/ Unit

LEMMA UnracedStep ==
  ASSUME [Next]_vars, ~torn'
  PROVE  [Unraced]_vars /\ ~torn
<1>1. ~Race
  BY DEF Race
<1>2. torn' = torn
  BY <1>1 DEF Next, Main, vars, Ask, Send, GiveUp, Poll, Read, Drain, Stamp, Check, Reject,
     Process, Enable, Write, Written, Release, Unit, Steady
<1> QED BY <1>1, <1>2 DEF Next, Unraced

LEMMA LateKept ==
  ASSUME [Next]_vars
  PROVE  late' = late
BY DEF Next, Main, vars, Ask, Send, GiveUp, Poll, Read, Drain, Stamp, Check, Reject,
   Process, Enable, Write, Written, Release, Race, Unit, Steady

LEMMA Limits ==
  /\ Lag \in Nat /\ Due \in Nat /\ Lag <= Due /\ T35 * Ms \in Nat /\ T35 * Ms >= 1
  /\ Due = T35 * Ms - 1 + Lag
  /\ Patient => Due + Prompt + 2 * CallTime + Reply <= Timeout
<1>1. T35 * Ms \in Nat /\ 1 * Ms <= T35 * Ms
  BY Sizes, Times, TimesOrder
<1>2. T35 * Ms >= 1
  BY <1>1, Sizes
<1> QED BY <1>1, <1>2, Sizes DEF Lag, Due, Patient

LEMMA AgeYoung ==
  ASSUME Typed, elapsed < T35
  PROVE  Age <= T35 * Ms - 1
<1>1. elapsed \in Nat /\ phase \in Nat /\ phase <= Ms - 1 /\ elapsed + 1 <= T35
  BY AgeTyped, Sizes
<1>2. /\ (elapsed + 1) * Ms = elapsed * Ms + Ms /\ elapsed * Ms \in Nat
      /\ (elapsed + 1) * Ms <= T35 * Ms
  BY <1>1, Sizes, Times, TimesOrder
<1> QED BY <1>1, <1>2, Sizes, Limits DEF Age

(* While a frame is collected a unit adds one to its age.                  *)
LEMMA AgeGrows ==
  ASSUME Typed, Unit, frame # << >>, elapsed < T35
  PROVE  Age' = Age + 1
<1>1. elapsed \in Nat /\ phase \in 0 .. Ms - 1 /\ Ms \in Nat \ {0} /\ T35 \in Nat
  BY Sizes DEF Typed, Timed
<1>2. phase' = IF phase + 1 = Ms THEN 0 ELSE phase + 1
  BY <1>1, NextPhase DEF Unit
<1>3. elapsed' = IF phase' = 0 THEN elapsed + 1 ELSE elapsed
  BY <1>1 DEF Unit
<1>4. elapsed * Ms \in Nat /\ (elapsed + 1) * Ms = elapsed * Ms + Ms
  BY <1>1, Times
<1>5. CASE phase + 1 = Ms
  BY <1>1, <1>2, <1>3, <1>4, <1>5 DEF Age
<1>6. CASE phase + 1 # Ms
  BY <1>1, <1>2, <1>3, <1>4, <1>6 DEF Age
<1> QED BY <1>5, <1>6

LEMMA OwedTyped ==
  ASSUME Typed
  PROVE  Owed \in Nat /\ (Owed = 0 <=> left = 0 /\ txq = 0 /\ ~busy)
BY Sizes DEF Typed, Timed, Flags, Owed

(* A prompt program polls in time.                                         *)
LEMMA PromptedStep ==
  ASSUME Typed, Prompted, ~late, [Unraced]_vars
  PROVE  Prompted'
<1> USE Sizes DEF Prompted, Steady, Step, time, poll
<1>1. CASE (\E d \in Dests : Ask(d)) \/ Send \/ GiveUp \/ UNCHANGED vars
  BY <1>1 DEF Ask, Send, GiveUp, vars
<1>2. CASE Poll \/ Read \/ Drain \/ Stamp \/ Check \/ Reject
  BY <1>2 DEF Poll, Read, Drain, Stamp, Check, Reject
<1>3. CASE Process
  BY <1>3 DEF Process
<1>4. CASE Enable \/ Write \/ Written \/ Release
  BY <1>4 DEF Enable, Write, Written, Release
<1>5. CASE Unit
  <2>1. pc = "rest" => since < Prompt /\ since' = since + 1 /\ pc' = pc
    BY <1>5 DEF Unit, Ready, Waiting, WaitsFull, WaitsEmpty
  <2>2. pc' = pc
    BY <1>5 DEF Unit
  <2> QED BY <2>1, <2>2 DEF Typed, Timed
<1> QED BY <1>1, <1>2, <1>3, <1>4, <1>5 DEF Unraced, Main

-----------------------------------------------------------------------------
(* Each step of a poll leaves the characters and the silence in time.      *)
LEMMA ReadSoonMaster ==
  ASSUME InStep, (\E d \in Dests : Ask(d)) \/ Send \/ GiveUp
  PROVE  ReadSoon'
<1>1. mst' = "wait" => Send /\ gap' = 0
  BY DEF Ask, Send, GiveUp
<1>2. Send => UNCHANGED <<frame, elapsed, phase, pc, since, surplus>>
  BY DEF Send, slave, time, poll
<1>3. since \in Nat /\ Age \in Nat /\ Prompt \in Nat /\ CallTime \in Nat
  BY AgeTyped, Sizes DEF InStep
<1>4. Send => Age' = Age
  BY <1>2 DEF Age
<1> QED BY <1>1, <1>2, <1>3, <1>4, Limits DEF ReadSoon

LEMMA ReadSoonPoll ==
  ASSUME InStep, Poll
  PROVE  ReadSoon'
<1>1. /\ pc = "rest" /\ since' = 0
      /\ UNCHANGED <<mst, asked, served, gap, ring, frame, elapsed, phase>>
  BY DEF Poll, Steady, master, uart
<1>2. Age' = Age
  BY <1>1 DEF Age
<1>3. gap \in Nat /\ since \in Nat /\ Prompt \in Nat /\ CallTime \in Nat /\ since <= Prompt
  BY <1>1, AgeTyped, Sizes DEF InStep, Soon, Prompted
<1>4. Len(ring) \in Nat /\ Len(frame) \in Nat /\ Len(frame) <= Adu /\ Adu \in Nat
  BY Sizes DEF InStep, Typed, Buffers
<1>5. CASE ring = << >> /\ pc' = "check"
  BY <1>1, <1>2, <1>3, <1>5, Limits DEF InStep, Soon, ReadSoon
<1>6. CASE /\ ring # << >> /\ pc' = "read"
           /\ surplus' = IF Len(ring) > Adu - Len(frame)
                         THEN Len(ring) - (Adu - Len(frame)) ELSE 0
  <2>1. Swept'
    BY <1>1, <1>4, <1>6 DEF Swept
  <2> QED BY <1>1, <1>3, <1>6, <2>1 DEF InStep, Soon, ReadSoon
<1> QED BY <1>5, <1>6 DEF Poll

LEMMA ReadSoonRead ==
  ASSUME InStep, Read \/ Drain
  PROVE  ReadSoon'
<1>1. /\ pc \in {"read", "drain"} /\ pc' \in {"read", "drain", "stamp"}
      /\ UNCHANGED <<mst, served, gap, since>>
  BY DEF Read, Drain, Steady, master, work
<1>2. Len(ring) \in Nat /\ Len(frame) \in Nat /\ surplus \in Nat /\ Adu \in Nat
  BY Sizes DEF InStep, Typed, Buffers, Timed
<1>3. Swept => Swept'
  <2>1. CASE Read
    <3>1. CASE /\ ring # << >> /\ frame' = Append(frame, Head(ring)) /\ ring' = Tail(ring)
               /\ pc' = "read"
      <4>1. Len(frame') = Len(frame) + 1 /\ Len(ring') = Len(ring) - 1
        BY <3>1 DEF InStep, Typed, Buffers
      <4> QED BY <1>2, <2>1, <3>1, <4>1 DEF Swept, Read, Steady
    <3>2. CASE /\ Len(frame) = Adu \/ ring = << >>
               /\ pc' = "drain" /\ UNCHANGED <<frame, ring>>
      BY <1>2, <2>1, <3>2 DEF Swept, Read
    <3> QED BY <2>1, <3>1, <3>2 DEF Read
  <2>2. CASE Drain
    <3>1. CASE ring # << >> /\ ring' = Tail(ring) /\ surplus' = surplus - 1 /\ pc' = "drain"
      <4>1. Len(ring') = Len(ring) - 1
        BY <3>1 DEF InStep, Typed, Buffers
      <4> QED BY <1>2, <2>2, <3>1, <4>1 DEF Swept, Drain
    <3>2. CASE (surplus = 0 \/ ring = << >>) /\ pc' = "stamp" /\ ring' = ring
      <4>1. Len(ring) = 0 => ring = << >>
        BY DEF InStep, Typed, Buffers
      <4> QED BY <1>2, <2>2, <3>2, <4>1 DEF Swept, Drain
    <3> QED BY <2>2, <3>1, <3>2 DEF Drain
  <2> QED BY <2>1, <2>2
<1>4. mst = "wait" /\ served < asked =>
        gap <= since \/ (Swept /\ gap <= CallTime + Prompt + since)
  BY <1>1 DEF InStep, Soon, ReadSoon
<1>5. asked' = asked
  BY DEF Read, Drain, Steady, master
<1> QED BY <1>1, <1>3, <1>4, <1>5 DEF ReadSoon

LEMMA ReadSoonStamp ==
  ASSUME InStep, Stamp
  PROVE  ReadSoon'
<1>1. /\ pc = "stamp" /\ pc' = "check" /\ elapsed' = 0
      /\ UNCHANGED <<mst, served, asked, gap, since, ring, frame, phase>>
  BY DEF Stamp, Step, Steady, master, uart, work
<1>2. /\ gap \in Nat /\ since \in Nat /\ phase \in Nat /\ Prompt \in Nat /\ CallTime \in Nat
      /\ since <= CallTime
  BY <1>1, AgeTyped, Sizes DEF InStep, Typed, Timed
<1>3. Age' = phase
  BY <1>1, <1>2, Sizes DEF Age
<1>4. mst = "wait" /\ served < asked =>
        gap <= since \/ (ring = << >> /\ gap <= CallTime + Prompt + since)
  BY <1>1 DEF InStep, Soon, ReadSoon, Swept
<1>5. gap <= since \/ gap <= CallTime + Prompt + since => gap <= Lag /\ gap <= Due
  BY <1>2, Limits DEF Lag
<1> QED BY <1>1, <1>2, <1>3, <1>4, <1>5, Limits DEF ReadSoon

LEMMA ReadSoonCheck ==
  ASSUME InStep, Check \/ Reject \/ Process
  PROVE  ReadSoon'
<1>1. /\ pc = "check" /\ since' = 0 /\ pc' \in {"rest", "enable"}
      /\ UNCHANGED <<mst, asked, gap, ring, elapsed, phase>>
      /\ frame' = << >> \/ (frame' = frame /\ ~Silent)
  BY DEF Check, Reject, Process, Act, Steady, master, uart
<1>2. /\ gap \in Nat /\ since \in Nat /\ Age \in Nat /\ Prompt \in Nat /\ CallTime \in Nat
      /\ since <= CallTime /\ elapsed \in Nat
  BY <1>1, AgeTyped, Sizes DEF InStep, Typed, Timed
<1>3. Age' = Age
  BY <1>1 DEF Age
<1>4. served' < asked => served < asked
  <2>1. CASE Process
    <3>1. PICK n \in 1 .. asked : FrameOf(n) /\ served' = n
      BY <2>1 DEF Process, Act
    <3> QED BY <3>1, FrameWhole DEF InStep, Typed, Numbered
  <2>2. CASE Check \/ Reject
    BY <2>2 DEF Check, Reject, work
  <2> QED BY <2>1, <2>2
<1>5. CASE mst = "wait" /\ served < asked /\ pc' = "rest"
  <2>1. ring # << >> => gap <= CallTime
    BY <1>1, <1>2, <1>5 DEF InStep, Soon, ReadSoon
  <2>2. ring = << >> /\ frame' # << >> => gap <= Due /\ gap <= Age + Lag
    <3>1. frame' # << >> => frame' = frame /\ elapsed < T35
      BY <1>1, <1>2, Sizes DEF Silent
    <3>2. ring = << >> /\ frame' # << >> => gap <= Age + Lag
      BY <1>1, <1>5, <3>1 DEF InStep, Soon, ReadSoon
    <3>3. elapsed < T35 => Age <= T35 * Ms - 1
      BY AgeYoung DEF InStep
    <3> QED BY <1>2, <3>1, <3>2, <3>3, Limits
  <2> QED BY <1>1, <1>2, <1>3, <1>5, <2>1, <2>2, Limits DEF ReadSoon
<1> QED BY <1>1, <1>4, <1>5 DEF ReadSoon

LEMMA ReadSoonUnit ==
  ASSUME InStep, Unit
  PROVE  ReadSoon'
<1>1. /\ UNCHANGED <<pc, served, asked, ring, frame, surplus>>
      /\ mst' = "wait" => mst = "wait" /\ gap' = gap + 1
  BY DEF Unit, poll
<1>2. ~Answering => since' = since + 1
  BY DEF Unit, Waiting, WaitsFull, WaitsEmpty, Answering
<1>3. /\ gap \in Nat /\ since \in Nat /\ Age \in Nat /\ Prompt \in Nat /\ CallTime \in Nat
      /\ elapsed \in Nat
  BY AgeTyped, Sizes DEF InStep
<1>4. CASE mst' = "wait" /\ served < asked /\ ~Answering
  <2>1. pc = "rest" /\ ring # << >> => gap' <= CallTime + since'
    BY <1>1, <1>2, <1>3, <1>4 DEF InStep, Soon, ReadSoon
  <2>2. pc \in {"read", "drain", "stamp"} =>
          gap' <= since' \/ (Swept' /\ gap' <= CallTime + Prompt + since')
    <3>1. Swept => Swept'
      BY <1>1 DEF Swept
    <3>2. pc \in {"read", "drain", "stamp"} =>
            gap <= since \/ (Swept /\ gap <= CallTime + Prompt + since)
      BY <1>1, <1>4 DEF InStep, Soon, ReadSoon
    <3> QED BY <1>1, <1>2, <1>3, <1>4, <3>1, <3>2
  <2>3. pc = "check" /\ ring # << >> => gap' <= since'
    BY <1>1, <1>2, <1>3, <1>4 DEF InStep, Soon, ReadSoon
  <2>4. pc \in {"rest", "check"} /\ ring = << >> /\ frame # << >> =>
          /\ gap' <= Due + since' + IF pc = "check" THEN Prompt ELSE 0
          /\ elapsed' < T35 => gap' <= Age' + Lag
    <3> SUFFICES ASSUME pc \in {"rest", "check"}, ring = << >>, frame # << >>
                 PROVE  /\ gap' <= Due + since' + IF pc = "check" THEN Prompt ELSE 0
                        /\ elapsed' < T35 => gap' <= Age' + Lag
      OBVIOUS
    <3>1. /\ gap <= Due + since + IF pc = "check" THEN Prompt ELSE 0
          /\ elapsed < T35 => gap <= Age + Lag
      BY <1>1, <1>4 DEF InStep, Soon, ReadSoon
    <3>2. elapsed' < T35 => elapsed < T35
      BY <1>3, Sizes DEF Unit
    <3>3. elapsed < T35 => Age' = Age + 1
      BY AgeGrows DEF InStep
    <3> QED BY <1>1, <1>2, <1>3, <1>4, <3>1, <3>2, <3>3, Limits
  <2> QED BY <1>1, <2>1, <2>2, <2>3, <2>4 DEF ReadSoon
<1> QED BY <1>1, <1>4 DEF ReadSoon, Answering

LEMMA ReadSoonStep ==
  ASSUME InStep, [Unraced]_vars
  PROVE  ReadSoon'
<1>1. CASE Enable \/ Write
  <2>1. pc' = "write"
    BY <1>1 DEF Enable, Write, Step
  <2> QED BY <2>1 DEF ReadSoon
<1>2. CASE Written \/ Release
  <2>1. UNCHANGED <<asked, mst, served>> /\ Answering
    BY <1>2 DEF Written, Release, Step, Steady, master, work, Answering
  <2>2. mst = "wait" => served = asked
    BY <2>1 DEF InStep, Soon, AnswersSoon, InAnswer, AfterAnswer
  <2>3. asked \in Nat /\ served \in Nat
    BY Sizes DEF InStep, Typed, Numbered
  <2> QED BY <2>1, <2>2, <2>3 DEF ReadSoon
<1>3. CASE UNCHANGED vars
  BY <1>3 DEF vars, master, uart, slave, time, poll, work, InStep, Soon, ReadSoon, Swept, Age
<1> QED BY <1>1, <1>2, <1>3, ReadSoonMaster, ReadSoonPoll, ReadSoonRead, ReadSoonStamp,
        ReadSoonCheck, ReadSoonUnit DEF Unraced, Main

-----------------------------------------------------------------------------
(* What was received is dealt with when the master has waited so long.     *)
Quiet == frame = << >> /\ ring = << >> /\ pc \notin {"read", "drain", "stamp"}

LEMMA NothingLeft ==
  ASSUME InStep, mst = "wait", served < asked, gap > Due + Prompt + CallTime
  PROVE  Quiet
<1>1. /\ gap \in Nat /\ since \in Nat /\ Prompt \in Nat /\ CallTime \in Nat
      /\ served \in Nat /\ asked \in Nat
      /\ pc # "rest" => since <= CallTime
      /\ pc = "rest" => since <= Prompt
  BY AgeTyped, Sizes DEF InStep, Typed, Timed, Numbered, Soon, Prompted
<1>2. ~Answering
  BY <1>1 DEF InStep, Soon, AnswersSoon, InAnswer, AfterAnswer
<1>3. Due \in Nat /\ Lag \in Nat /\ Lag <= Due /\ Lag = Prompt + 2 * CallTime
  BY Limits DEF Lag
<1>4. pc \in {"rest", "check"} => ring = << >>
  BY <1>1, <1>3 DEF InStep, Soon, ReadSoon
<1>5. pc \in {"rest", "check"} => frame = << >>
  BY <1>1, <1>3, <1>4 DEF InStep, Soon, ReadSoon
<1>6. pc \notin {"read", "drain", "stamp"}
  BY <1>1, <1>3 DEF InStep, Soon, ReadSoon
<1> QED BY <1>2, <1>4, <1>5, <1>6 DEF Answering, InStep, Typed, Timed, Quiet

(* What was performed leaves nothing that passes the CRC.                  *)
LEMMA ServedNotStale ==
  ASSUME InStep, served = asked
  PROVE  /\ \A i \in 1 .. Len(frame) : frame[i][2] = 0
         /\ \A i \in 1 .. Len(ring) : ring[i][2] = 0
BY DEF InStep, Order, AllKnown, Known

LEMMA StaleMaster ==
  ASSUME Patient, InStep, (\E d \in Dests : Ask(d)) \/ Send \/ GiveUp
  PROVE  NoneStale'
<1>0. /\ \A i \in 1 .. Len(frame) : frame[i] \in Chars /\ Known(frame[i])
      /\ \A i \in 1 .. Len(ring) : ring[i] \in Chars /\ Known(ring[i])
  BY CharsTyped DEF InStep, Order, AllKnown
<1>1. ASSUME NEW d \in Dests, Ask(d)
      PROVE  NoneStale'
  <2>1. UNCHANGED <<frame, ring>> /\ mst = "rest" /\ asked' = asked + 1
        /\ asked \in Nat /\ asked < MaxAsk
    BY <1>1, Sizes DEF Ask, uart, slave, InStep, Typed, Numbered
  <2>2. ASSUME NEW c \in Chars, Known(c), ~Stale(c)
        PROVE  ~Stale(c)'
    <3>1. dest'[c[1]] = dest[c[1]]
      BY <1>1, <2>1, <2>2, CharTyped, Sizes DEF Ask, Known, InStep, Typed, Numbered
    <3> QED BY <2>1, <2>2, <3>1 DEF Stale
  <2> QED BY <1>0, <2>1, <2>2 DEF InStep, Soon, NoneStale, Stale
<1>2. CASE Send
  <2>1. UNCHANGED <<frame, asked, dest>> /\ mst' # "rest"
    BY <1>2 DEF Send, slave
  <2>2. \A c : ~Stale(c) => ~Stale(c)'
    BY <2>1 DEF Stale
  <2>3. PICK c : c[1] = asked /\ (ring' = Append(ring, c) \/ ring' = ring)
    <3>1. <<asked, pos + 1>>[1] = asked /\ <<asked, 0>>[1] = asked
      OBVIOUS
    <3>2. \/ ring' = ring
          \/ ring' = Append(ring, <<asked, pos + 1>>)
          \/ ring' = Append(ring, <<asked, 0>>)
      BY <1>2 DEF Send, Receive
    <3> QED BY <3>1, <3>2
  <2>4. ~Stale(c)'
    BY <2>1, <2>3 DEF Stale
  <2>5. CASE ring' = ring
    BY <2>1, <2>2, <2>5 DEF InStep, Soon, NoneStale, Stale
  <2>6. CASE ring' = Append(ring, c)
    <3>1. /\ Len(ring') = Len(ring) + 1 /\ ring'[Len(ring) + 1] = c
          /\ \A i \in 1 .. Len(ring) : ring'[i] = ring[i]
          /\ Len(ring) \in Nat
      BY <2>6 DEF InStep, Typed, Buffers
    <3>2. ASSUME NEW i \in 1 .. Len(ring')
          PROVE  ~Stale(ring[i])'
      <4>1. CASE i \in 1 .. Len(ring)
        BY <2>1, <3>1, <4>1 DEF InStep, Soon, NoneStale, Stale
      <4>2. CASE i = Len(ring) + 1
        BY <2>4, <3>1, <4>2 DEF Stale
      <4> QED BY <3>1, <4>1, <4>2
    <3>3. \A i \in 1 .. Len(frame') : ~Stale(frame[i])'
      BY <2>1, <2>2 DEF InStep, Soon, NoneStale, Stale
    <3> QED BY <3>2, <3>3 DEF NoneStale, Stale
  <2> QED BY <2>3, <2>5, <2>6
<1>3. CASE GiveUp
  <2>1. UNCHANGED <<frame, ring, asked, dest>> /\ mst = "wait"
    BY <1>3 DEF GiveUp, uart, slave
  <2>2. CASE dest[asked] # "us"
    BY <2>1, <2>2 DEF InStep, Soon, NoneStale, Stale
  <2>3. CASE served = asked
    BY <2>1, <2>3, ServedNotStale DEF NoneStale, Stale
  <2>4. CASE dest[asked] = "us" /\ served < asked
    <3>1. gap = Timeout
      BY <1>3, <2>4 DEF GiveUp, Patience
    <3>2. gap > Due + Prompt + CallTime
      BY <3>1, Sizes, Limits
    <3>3. Quiet
      BY <2>1, <2>4, <3>2, NothingLeft
    <3> QED BY <2>1, <3>3 DEF NoneStale, Quiet
  <2> QED BY <2>2, <2>3, <2>4, Sizes DEF InStep, Typed, Numbered
<1> QED BY <1>1, <1>2, <1>3

LEMMA StaleRead ==
  ASSUME InStep, Read \/ Drain
  PROVE  NoneStale'
<1>1. UNCHANGED <<asked, dest, mst>>
  BY DEF Read, Drain, Steady, master
<1>2. CASE UNCHANGED <<frame, ring>>
  BY <1>1, <1>2 DEF InStep, Soon, NoneStale, Stale
<1>3. CASE ring # << >> /\ ring' = Tail(ring) /\ frame' \in {frame, Append(frame, Head(ring))}
  <2>1. /\ Len(ring) > 0 /\ Len(ring') = Len(ring) - 1 /\ Len(ring) \in Nat
        /\ \A i \in 1 .. Len(ring') : ring'[i] = ring[i + 1]
    BY <1>3 DEF InStep, Typed, Buffers
  <2>2. \A i \in 1 .. Len(ring') : ~Stale(ring[i])'
    BY <1>1, <2>1 DEF InStep, Soon, NoneStale, Stale
  <2>3. CASE frame' = frame
    BY <1>1, <2>2, <2>3 DEF InStep, Soon, NoneStale, Stale
  <2>4. CASE frame' = Append(frame, Head(ring))
    <3>1. /\ Len(frame') = Len(frame) + 1 /\ frame'[Len(frame) + 1] = ring[1]
          /\ \A i \in 1 .. Len(frame) : frame'[i] = frame[i]
          /\ Len(frame) \in Nat
      BY <1>3, <2>4 DEF InStep, Typed, Buffers
    <3>2. ASSUME NEW i \in 1 .. Len(frame')
          PROVE  ~Stale(frame[i])'
      <4>1. CASE i \in 1 .. Len(frame)
        BY <1>1, <3>1, <4>1 DEF InStep, Soon, NoneStale, Stale
      <4>2. CASE i = Len(frame) + 1
        BY <1>1, <2>1, <3>1, <4>2 DEF InStep, Soon, NoneStale, Stale
      <4> QED BY <3>1, <4>1, <4>2
    <3> QED BY <2>2, <3>2 DEF NoneStale, Stale
  <2> QED BY <1>3, <2>3, <2>4
<1> QED BY <1>2, <1>3 DEF Read, Drain

LEMMA StaleStep ==
  ASSUME Patient, InStep, [Unraced]_vars
  PROVE  NoneStale'
<1>1. CASE Reject \/ Process
  <2>1. UNCHANGED <<asked, dest, mst, ring>> /\ frame' = << >>
    BY <1>1 DEF Reject, Process, Steady, master, uart
  <2> QED BY <2>1 DEF InStep, Soon, NoneStale, Stale
<1>2. CASE Poll \/ Stamp \/ Check \/ Enable \/ Write \/ Written \/ Release \/ UNCHANGED vars
  <2>1. UNCHANGED <<asked, dest, mst, ring, frame>>
    BY <1>2 DEF Poll, Stamp, Check, Enable, Write, Written, Release, Steady, master, uart,
       slave, vars
  <2> QED BY <2>1 DEF InStep, Soon, NoneStale, Stale
<1>3. CASE Unit
  <2>1. UNCHANGED <<asked, dest, ring, frame>>
        /\ (mst' = mst \/ served = asked)
    BY <1>3 DEF Unit
  <2>2. CASE mst' = mst
    BY <2>1, <2>2 DEF InStep, Soon, NoneStale, Stale
  <2>3. CASE served = asked
    BY <2>1, <2>3, ServedNotStale DEF NoneStale, Stale
  <2> QED BY <2>1, <2>2, <2>3
<1> QED BY <1>1, <1>2, <1>3, StaleMaster, StaleRead DEF Unraced, Main

-----------------------------------------------------------------------------
(* Each step of an answer, and of the master while one is under way.       *)
LEMMA AnswerMaster ==
  ASSUME Patient, InStep, (\E d \in Dests : Ask(d)) \/ Send \/ GiveUp
  PROVE  AnswersSoon'
<1>1. UNCHANGED <<left, txq, busy, pc, since>>
  BY DEF Ask, Send, GiveUp, uart, time, poll
<1>2. Owed' = Owed /\ (Answering' <=> Answering)
  BY <1>1 DEF Owed, Answering
<1>3. /\ gap \in Nat /\ since \in Nat /\ Prompt \in Nat /\ CallTime \in Nat
      /\ Reply \in Nat /\ Owed \in Nat /\ (pc # "rest" => since <= CallTime)
  BY AgeTyped, OwedTyped, Sizes DEF InStep, Typed, Timed
<1>4. CASE ~(Owed > 0 \/ Answering)
  BY <1>2, <1>4 DEF AnswersSoon
<1>5. CASE InAnswer
  <2>1. mst = "wait" /\ gap + Owed <= Due + Prompt + 2 * CallTime + Reply /\ Owed > 0
        /\ dest[asked] = "us"
    BY <1>3, <1>5, Limits DEF InAnswer
  <2>2. gap < Timeout
    BY <1>3, <2>1, Sizes, Limits
  <2> QED BY <1>3, <2>1, <2>2, Sizes DEF Ask, Send, GiveUp, Patience
<1>6. CASE AfterAnswer /\ Answering
  <2>1. mst = "rest" /\ gap <= 2 * CallTime /\ Gap \in Nat
    BY <1>3, <1>6, Sizes DEF AfterAnswer, Answering
  <2> QED BY <1>3, <2>1 DEF Ask, Send, GiveUp, Patient
<1> QED BY <1>4, <1>5, <1>6 DEF InStep, Soon, AnswersSoon, AfterAnswer

(* A request is answered while the master waits for it.                    *)
LEMMA AnswerProcess ==
  ASSUME InStep, Process
  PROVE  AnswersSoon'
<1>1. PICK n \in 1 .. asked, r \in Requests :
        FrameOf(n) /\ dest[n] \in {"us", "all"} /\ Act(n, r)
  BY DEF Process
<1>2. /\ pc = "check" /\ since' = 0 /\ served' = n /\ Silent
      /\ UNCHANGED <<mst, asked, dest, gap, txq, busy>>
  BY <1>1 DEF Process, Act, Steady, master
<1>3. /\ n > served /\ n \in Nat /\ served \in Nat /\ asked \in Nat /\ n <= asked
      /\ mst = "send" => n < asked
  BY <1>1, FrameWhole, Sizes DEF InStep, Typed, Numbered
<1>4. Owed = 0 /\ left = 0 /\ txq = 0 /\ ~busy
  <2>1. Owed > 0 => served = asked
    BY <1>2 DEF InStep, Soon, AnswersSoon, InAnswer, AfterAnswer
  <2> QED BY <1>3, <2>1, OwedTyped DEF InStep
<1>5. CASE pc' = "rest" /\ left' = left
  BY <1>2, <1>4, <1>5 DEF AnswersSoon, Owed, Answering
<1>6. CASE pc' = "enable" /\ left' = Reply /\ dest[n] # "all"
  <2>1. dest[n] = "us"
    BY <1>1, <1>6
  <2>2. frame # << >> /\ ~Stale(frame[1])
    <3>1. Whole \in Nat \ {0}
      BY Sizes
    <3>2. Len(frame) = Whole /\ 1 \in 1 .. Len(frame)
      BY <1>1, <3>1 DEF FrameOf
    <3>3. frame # << >>
      BY <3>1, <3>2
    <3> QED BY <3>2, <3>3 DEF InStep, Soon, NoneStale
  <2>3. n = asked /\ mst = "wait"
    <3>1. Whole \in Nat \ {0}
      BY Sizes
    <3>2. frame[1] = <<n, 1>>
      BY <1>1, <3>1 DEF FrameOf
    <3>3. n = asked /\ mst # "rest"
      BY <2>1, <2>2, <3>2 DEF Stale
    <3>4. mst \in {"rest", "send", "wait"}
      BY DEF InStep, Typed, Sending
    <3> QED BY <1>3, <3>3, <3>4
  <2>4. gap <= Due + Prompt + since /\ since <= CallTime
    <3>1. /\ gap \in Nat /\ since \in Nat /\ since <= CallTime /\ Prompt \in Nat
      BY <1>2, AgeTyped, Sizes DEF InStep, Typed, Timed
    <3>2. CASE ring = << >>
      BY <1>2, <1>3, <2>2, <2>3, <3>1, <3>2, Limits DEF InStep, Soon, ReadSoon
    <3>3. CASE ring # << >>
      BY <1>2, <1>3, <2>3, <3>1, <3>3, Limits DEF InStep, Soon, ReadSoon
    <3> QED BY <3>1, <3>2, <3>3
  <2>5. Owed' = Reply
    BY <1>2, <1>4, <1>6, Sizes DEF Owed
  <2>6. /\ gap \in Nat /\ since \in Nat /\ Prompt \in Nat /\ CallTime \in Nat
        /\ Reply \in Nat \ {0}
    BY AgeTyped, Sizes DEF InStep
  <2>7. InAnswer'
    BY <1>2, <1>6, <2>1, <2>3, <2>4, <2>5, <2>6, Limits DEF InAnswer
  <2> QED BY <2>7 DEF AnswersSoon
<1> QED BY <1>1, <1>5, <1>6 DEF Act

LEMMA AnswerSteps ==
  ASSUME InStep, Enable \/ Write \/ Written \/ Release
  PROVE  AnswersSoon'
<1>0. /\ gap \in Nat /\ since \in Nat /\ Prompt \in Nat /\ CallTime \in Nat
      /\ Reply \in Nat /\ Owed \in Nat /\ left \in Nat /\ txq \in Nat
      /\ busy \in BOOLEAN /\ (pc # "rest" => since <= CallTime)
  BY AgeTyped, OwedTyped, Sizes DEF InStep, Typed, Timed, Flags
<1>1. Answering /\ UNCHANGED <<mst, asked, dest, served, gap>>
  BY DEF Enable, Write, Written, Release, Step, Steady, master, work, Answering
<1>2. InAnswer \/ AfterAnswer
  BY <1>1 DEF InStep, Soon, AnswersSoon
<1>3. CASE Enable
  <2>1. Owed' = Owed /\ pc = "enable" /\ pc' = "write" /\ since' = since
    BY <1>3 DEF Enable, Step, uart, Owed
  <2> QED BY <1>1, <1>2, <2>1 DEF AnswersSoon, InAnswer, AfterAnswer
<1>4. CASE Write
  <2>1. pc = "write" /\ pc' = "write" /\ since' = since /\ left > 0 /\ left' = left - 1
        /\ busy' = TRUE /\ txq' = IF busy THEN txq + 1 ELSE txq
    BY <1>4 DEF Write, Step
  <2>2. Owed' = Owed /\ Owed > 0
    BY <1>0, <2>1 DEF Owed
  <2> QED BY <1>1, <1>2, <2>1, <2>2 DEF AnswersSoon, InAnswer, AfterAnswer
<1>5. CASE Written \/ Release
  <2>1. UNCHANGED <<left, txq, busy>>
    BY <1>5 DEF Written, Release, Steady, uart
  <2>2. Owed' = Owed
    BY <2>1 DEF Owed
  <2>3. /\ pc \in {"write", "flush"} /\ pc' \in {"rest", "flush"}
        /\ pc' = "flush" => pc = "write"
    BY <1>5 DEF Written, Release, Step
  <2>4. CASE InAnswer
    <3>1. InAnswer'
      BY <1>0, <1>1, <2>2, <2>3, <2>4, Limits DEF InAnswer
    <3> QED BY <3>1 DEF AnswersSoon
  <2>5. CASE AfterAnswer /\ pc' = "flush"
    <3>1. since' = 0
      BY <1>5, <2>5 DEF Written, Release, Step
    <3>2. AfterAnswer'
      BY <1>0, <1>1, <2>2, <2>3, <2>5, <3>1 DEF AfterAnswer
    <3> QED BY <3>2 DEF AnswersSoon
  <2>6. CASE AfterAnswer /\ pc' = "rest"
    BY <2>2, <2>6 DEF AnswersSoon, AfterAnswer, Answering
  <2> QED BY <1>2, <2>3, <2>4, <2>5, <2>6
<1> QED BY <1>3, <1>4, <1>5

(* A unit takes one character off the answer, or one off the time a call   *)
(* may take.                                                               *)
LEMMA AnswerUnit ==
  ASSUME InStep, Unit
  PROVE  AnswersSoon'
<1>0. /\ gap \in Nat /\ since \in Nat /\ Prompt \in Nat /\ CallTime \in Nat
      /\ Reply \in Nat /\ Owed \in Nat /\ left \in Nat /\ txq \in Nat
      /\ busy \in BOOLEAN /\ (pc # "rest" => since <= CallTime) /\ TxRing \in Nat \ {0}
  BY AgeTyped, OwedTyped, Sizes DEF InStep, Typed, Timed, Flags
<1>1. /\ UNCHANGED <<asked, dest, served, left, pc>>
      /\ since' \in {since, since + 1} /\ (~Waiting => since' = since + 1)
      /\ txq' = IF txq > 0 THEN txq - 1 ELSE 0
  BY DEF Unit, poll
<1>2. busy' <=> txq > 0
  <2>1. busy' = (txq > 0)
    BY DEF Unit
  <2> QED BY <2>1, Zenon
<1>3. Answering' <=> Answering
  BY <1>1 DEF Answering
<1>4. Owed' = IF busy THEN Owed - 1 ELSE Owed
  <2>1. txq > 0 => busy
    BY DEF InStep, Held
  <2>2. CASE txq > 0
    BY <1>0, <1>1, <1>2, <2>1, <2>2 DEF Owed
  <2>3. CASE txq = 0
    <3>1. ~busy' /\ txq' = 0
      BY <1>0, <1>1, <1>2, <2>3
    <3> QED BY <1>0, <1>1, <2>3, <3>1 DEF Owed
  <2> QED BY <1>0, <2>2, <2>3
<1>5. CASE InAnswer
  <2>1. CASE Owed' > 0
    <3>1. ~(busy /\ txq = 0 /\ left = 0)
      BY <1>0, <1>4, <2>1 DEF Owed
    <3>2. mst' = "wait" /\ gap' = gap + 1
      BY <1>5, <3>1 DEF Unit, InAnswer, InStep
    <3>3. CASE busy
      BY <1>0, <1>1, <1>4, <1>5, <2>1, <3>2, <3>3, Limits DEF InAnswer, AnswersSoon
    <3>4. CASE ~busy
      <4>1. txq = 0 /\ left > 0
        BY <1>0, <1>4, <1>5, <3>4 DEF Owed, InStep, Held, InAnswer
      <4>2. pc \in {"enable", "write"} /\ ~Waiting
        BY <1>0, <3>4, <4>1 DEF InStep, Held, Waiting, WaitsFull, WaitsEmpty
      <4> QED BY <1>0, <1>1, <1>4, <1>5, <2>1, <3>2, <3>4, <4>2, Limits
              DEF InAnswer, AnswersSoon
    <3> QED BY <1>0, <3>3, <3>4
  <2>2. CASE ~(Owed' > 0)
    <3>1. busy /\ txq = 0 /\ left = 0
      BY <1>0, <1>4, <1>5, <2>2, OwedTyped DEF InAnswer, Owed, InStep, Held
    <3>2. mst' = "rest" /\ gap' = 0
      BY <1>5, <3>1 DEF Unit, InAnswer, InStep
    <3>3. Owed' = 0
      BY <1>0, <1>4, <1>5, <2>2 DEF InAnswer
    <3>4. CASE since' = since
      BY <1>0, <3>2, <3>3, <3>4 DEF AfterAnswer, AnswersSoon
    <3>5. CASE since' = since + 1
      BY <1>0, <3>2, <3>3, <3>5 DEF AfterAnswer, AnswersSoon
    <3> QED BY <1>1, <3>4, <3>5
  <2> QED BY <2>1, <2>2
<1>6. CASE AfterAnswer /\ Answering
  <2>1. left = 0 /\ txq = 0 /\ ~busy
    BY <1>6, OwedTyped DEF InStep, AfterAnswer
  <2>2. ~Waiting
    BY <1>0, <2>1 DEF Waiting, WaitsFull, WaitsEmpty
  <2>3. mst' = "rest" /\ gap' <= gap + 1 /\ gap' \in Nat
    BY <1>0, <1>6, <2>1 DEF Unit, AfterAnswer
  <2>4. AfterAnswer'
    BY <1>0, <1>1, <1>4, <1>6, <2>1, <2>2, <2>3 DEF AfterAnswer
  <2> QED BY <2>4 DEF AnswersSoon
<1>7. CASE ~(Owed > 0 \/ Answering)
  BY <1>0, <1>3, <1>4, <1>7, OwedTyped DEF AnswersSoon, InStep
<1> QED BY <1>5, <1>6, <1>7 DEF InStep, Soon, AnswersSoon, AfterAnswer

LEMMA AnswerStep ==
  ASSUME Patient, InStep, [Unraced]_vars
  PROVE  AnswersSoon'
<1>1. CASE Poll \/ Read \/ Drain \/ Stamp \/ Check \/ Reject
  <2>1. /\ UNCHANGED <<mst, asked, dest, served, gap, left, txq, busy>>
        /\ pc \in {"rest", "read", "drain", "stamp", "check"}
        /\ pc' \in {"rest", "read", "drain", "stamp", "check"}
    BY <1>1 DEF Poll, Read, Drain, Stamp, Check, Reject, Step, Steady, master, uart, work
  <2>2. Owed' = Owed /\ ~Answering /\ ~Answering'
    BY <2>1 DEF Owed, Answering
  <2>3. Owed > 0 => InAnswer
    BY DEF InStep, Soon, AnswersSoon, AfterAnswer
  <2> QED BY <2>1, <2>2, <2>3 DEF AnswersSoon, InAnswer
<1>2. CASE UNCHANGED vars
  BY <1>2 DEF vars, master, uart, time, poll, work, InStep, Soon, AnswersSoon, InAnswer,
     AfterAnswer, Owed, Answering
<1> QED BY <1>1, <1>2, AnswerMaster, AnswerProcess, AnswerSteps, AnswerUnit DEF Unraced, Main

(* Until the race on the transmit ring happens, a slave that polls in time *)
(* has finished its answer before the master sends again, whatever the     *)
(* tick's phase: they never talk at once, if the master is patient.        *)
THEOREM ModbusNoCollision ==
  ASSUME Patient
  PROVE  Spec => []NoCollision
<1>1. Init => (~late /\ ~torn => Soon)
  <2> SUFFICES ASSUME Init PROVE Soon
    OBVIOUS
  <2>1. Prompted
    BY Sizes DEF Init, Prompted
  <2>2. ReadSoon /\ NoneStale
    BY DEF Init, ReadSoon, NoneStale
  <2>3. Owed = 0 /\ ~Answering
    BY DEF Init, Owed, Answering
  <2> QED BY <2>1, <2>2, <2>3 DEF Soon, AnswersSoon
<1>2. Typed /\ Held /\ Order /\ (~late /\ ~torn => Soon) /\ [Next]_vars => (~late /\ ~torn => Soon)'
  <2> SUFFICES ASSUME Typed, Held, Order, ~late /\ ~torn => Soon, [Next]_vars, ~late', ~torn'
               PROVE  Soon'
    OBVIOUS
  <2>1. late' = late /\ [Unraced]_vars /\ ~torn
    BY LateKept, UnracedStep
  <2>2. ~late /\ InStep
    BY <2>1 DEF InStep
  <2>3. Prompted'
    BY <2>1, <2>2, PromptedStep DEF InStep, Soon
  <2>4. ReadSoon'
    BY <2>1, <2>2, ReadSoonStep
  <2>5. NoneStale'
    BY <2>1, <2>2, StaleStep
  <2>6. AnswersSoon'
    BY <2>1, <2>2, AnswerStep
  <2> QED BY <2>3, <2>4, <2>5, <2>6 DEF Soon
<1>3. Typed /\ Held /\ (~late /\ ~torn => Soon) => NoCollision
  <2> SUFFICES ASSUME Typed, Held, Soon, mst = "send"
               PROVE  ~dir /\ ~busy
    BY DEF NoCollision
  <2>1. ~(Owed > 0) /\ ~Answering
    BY DEF Soon, AnswersSoon, InAnswer, AfterAnswer
  <2>2. ~busy
    BY <2>1, OwedTyped
  <2>3. ~dir
    BY <2>1 DEF Held, Answering
  <2> QED BY <2>2, <2>3
<1> QED BY <1>1, <1>2, <1>3, TypedHolds, HeldHolds, OrderHolds, PTL DEF Spec

-----------------------------------------------------------------------------
(* What a master must grant beside its patience for a prompt slave to hear *)
(* every request: a silence the slave tells before the next request comes, *)
(* and no more characters between two reads of the ring than it holds.     *)
Attentive ==
  /\ Patient
  /\ T35 * Ms + 2 * Prompt + 3 * CallTime <= Gap
  /\ Prompt + 2 * CallTime < Ring

(* Between an answer, or a request given up, and the next request nothing  *)
(* is left to read.                                                        *)
Rested == mst = "rest" \/ served = asked => Quiet

(* Of the request a fault has hit a character is missing.                  *)
Lost(p) == /\ hit = asked => p <= pos
           /\ \A i \in 1 .. Len(frame) : frame[i] # <<hit, p>>
           /\ \A i \in 1 .. Len(ring) : ring[i] # <<hit, p>>
Missing == hit # 0 => \E p \in 1 .. Len1(dest[hit]) : Lost(p)

(* A request no fault has hit is in the frame and the ring as it was sent, *)
(* and the ring has room for the next character.                           *)
AllSent == mst = "wait" => pos = Len1(dest[asked])
Unhurt  == mst # "rest" /\ served < asked /\ hit # asked /\ dest[asked] = "us"
Intact  == Unhurt =>
  /\ Len(frame) + Len(ring) = pos
  /\ \A i \in 1 .. Len(frame) : frame[i] = <<asked, i>>
  /\ \A i \in 1 .. Len(ring) : ring[i] = <<asked, Len(frame) + i>>
  /\ pc \in {"read", "drain"} => surplus = 0
Fresher == Unhurt /\ mst = "wait" /\ pc = "check" /\ ring # << >> /\ frame # << >>
           => Age <= Pause + Ms + since
Arrived == since + IF gap = 0 THEN 1 ELSE 0
Uncrowded == Unhurt /\ mst = "send" =>
  /\ pc = "rest" => Len(ring) <= CallTime + Arrived
  /\ pc = "read" => Len(ring) <= CallTime + Prompt + Arrived
  /\ pc \in {"drain", "stamp", "check"} => Len(ring) <= Arrived

(* What was answered is still to leave.                                    *)
Owing == answers # << >> => Owed > 0

HeardStep == InStep /\ Rested /\ Missing /\ AllSent /\ Intact /\ Fresher /\ Uncrowded

LEMMA AllSentStep ==
  ASSUME Typed, AllSent, [Unraced]_vars
  PROVE  AllSent'
<1>1. CASE Send
  BY <1>1 DEF Send, AllSent
<1>2. CASE (\E d \in Dests : Ask(d)) \/ GiveUp
  BY <1>2 DEF Ask, GiveUp, AllSent
<1>3. CASE Unit
  BY <1>3 DEF Unit, AllSent
<1>4. CASE UNCHANGED master
  BY <1>4 DEF master, AllSent
<1> QED BY <1>1, <1>2, <1>3, <1>4 DEF Unraced, Main, vars, Poll, Read, Drain, Stamp, Check,
        Reject, Process, Enable, Write, Written, Release, Steady

(* A character once missing does not come.                                 *)
LEMMA LostKept ==
  ASSUME Typed, Missing, UNCHANGED <<asked, dest, pos, hit>>,
         \A i \in 1 .. Len(frame') : \/ \E j \in 1 .. Len(frame) : frame'[i] = frame[j]
                                     \/ \E j \in 1 .. Len(ring) : frame'[i] = ring[j],
         \A i \in 1 .. Len(ring') : \E j \in 1 .. Len(ring) : ring'[i] = ring[j]
  PROVE  Missing'
<1>1. ASSUME NEW p, Lost(p)
      PROVE  Lost(p)'
  BY <1>1 DEF Lost
<1> QED BY <1>1 DEF Missing

LEMMA MissingSend ==
  ASSUME Typed, Order, Missing, Send
  PROVE  Missing'
<1>1. /\ UNCHANGED <<frame, asked, dest>> /\ mst = "send" /\ pos' = pos + 1
      /\ pos \in Nat /\ asked \in 1 .. MaxAsk /\ pos + 1 <= Len1(dest[asked])
      /\ Len1(dest[asked]) \in Nat
  BY Lengths, Sizes DEF Send, slave, Typed, Sending, Numbered
<1>2. /\ \A i \in 1 .. Len(frame) : frame[i] \in Chars /\ Known(frame[i])
      /\ \A i \in 1 .. Len(ring) : ring[i] \in Chars /\ Known(ring[i])
  BY CharsTyped DEF Order, AllKnown
<1>3. CASE hit = 0 /\ hit' = asked /\ (Receive(<<asked, 0>>) \/ UNCHANGED ring)
  <2>1. /\ \A i \in 1 .. Len(frame) : frame[i] # <<asked, pos + 1>>
        /\ \A i \in 1 .. Len(ring) : ring[i] # <<asked, pos + 1>>
    BY <1>1, <1>2 DEF Known
  <2>2. \A i \in 1 .. Len(ring') : ring'[i] # <<asked, pos + 1>>
    <3>1. CASE ring' = ring
      BY <2>1, <3>1
    <3>2. CASE ring' = Append(ring, <<asked, 0>>)
      <4>1. /\ Len(ring') = Len(ring) + 1 /\ ring'[Len(ring) + 1] = <<asked, 0>>
            /\ \A i \in 1 .. Len(ring) : ring'[i] = ring[i]
            /\ Len(ring) \in Nat
        BY <3>2 DEF Typed, Buffers
      <4>2. <<asked, 0>> # <<asked, pos + 1>>
        BY <1>1
      <4>3. \A i \in 1 .. Len(ring') : i \in 1 .. Len(ring) \/ i = Len(ring) + 1
        BY <4>1
      <4> QED BY <2>1, <4>1, <4>2, <4>3
    <3> QED BY <1>3, <3>1, <3>2 DEF Receive
  <2>3. PICK p : p = pos + 1
    OBVIOUS
  <2>4. Lost(p)'
    BY <1>1, <1>3, <2>1, <2>2, <2>3 DEF Lost
  <2>5. p \in 1 .. Len1(dest'[hit'])
    BY <1>1, <1>3, <2>3
  <2> QED BY <2>4, <2>5 DEF Missing, Len1
<1>4. CASE hit' = hit /\ hit # 0 /\ Receive(<<asked, pos + 1>>)
  <2>1. PICK p \in 1 .. Len1(dest[hit]) : Lost(p)
    BY <1>4 DEF Missing
  <2>2. hit = asked => p <= pos
    BY <2>1 DEF Lost
  <2>3. p \in Nat
    BY <1>4, Lengths, Sizes DEF Typed, Numbered
  <2>4. <<asked, pos + 1>> # <<hit, p>>
    BY <1>1, <2>2, <2>3
  <2>5. \A i \in 1 .. Len(ring') : ring'[i] # <<hit, p>>
    <3>1. CASE ring' = ring
      BY <2>1, <3>1 DEF Lost
    <3>2. CASE ring' = Append(ring, <<asked, pos + 1>>)
      <4>1. /\ Len(ring') = Len(ring) + 1 /\ ring'[Len(ring) + 1] = <<asked, pos + 1>>
            /\ \A i \in 1 .. Len(ring) : ring'[i] = ring[i]
            /\ Len(ring) \in Nat
        BY <3>2 DEF Typed, Buffers
      <4>3. \A i \in 1 .. Len(ring') : i \in 1 .. Len(ring) \/ i = Len(ring) + 1
        BY <4>1
      <4> QED BY <2>1, <2>4, <4>1, <4>3 DEF Lost
    <3> QED BY <1>4, <3>1, <3>2 DEF Receive
  <2>6. hit = asked => p <= pos'
    BY <1>1, <2>2, <2>3
  <2>7. Lost(p)'
    BY <1>1, <1>4, <2>1, <2>5, <2>6 DEF Lost
  <2> QED BY <1>1, <1>4, <2>7 DEF Missing
<1>5. CASE hit' = hit /\ hit = 0
  BY <1>5 DEF Missing
<1> QED BY <1>3, <1>4, <1>5 DEF Send

LEMMA MissingStep ==
  ASSUME Typed, Order, Missing, [Unraced]_vars
  PROVE  Missing'
<1>1. CASE \E d \in Dests : Ask(d)
  <2>1. UNCHANGED <<frame, ring, hit>> /\ asked' = asked + 1
    BY <1>1 DEF Ask, uart, slave
  <2>2. hit # 0 => dest'[hit] = dest[hit] /\ hit # asked'
    BY <1>1, <2>1, Sizes DEF Ask, Typed, Numbered
  <2>3. ASSUME NEW p, hit # 0, Lost(p)
        PROVE  Lost(p)'
    BY <2>1, <2>2, <2>3 DEF Lost
  <2> QED BY <2>1, <2>2, <2>3 DEF Missing
<1>2. CASE Read
  <2>1. UNCHANGED <<asked, dest, pos, hit>>
    BY <1>2 DEF Read, Steady, master
  <2>2. CASE UNCHANGED <<frame, ring>>
    BY <2>1, <2>2, LostKept
  <2>3. CASE ring # << >> /\ frame' = Append(frame, Head(ring)) /\ ring' = Tail(ring)
    <3>1. /\ Len(frame') = Len(frame) + 1 /\ frame'[Len(frame) + 1] = ring[1]
          /\ \A i \in 1 .. Len(frame) : frame'[i] = frame[i]
          /\ Len(frame) \in Nat
      BY <2>3 DEF Typed, Buffers
    <3>2. /\ Len(ring) > 0 /\ Len(ring') = Len(ring) - 1 /\ Len(ring) \in Nat
          /\ \A i \in 1 .. Len(ring') : ring'[i] = ring[i + 1]
      BY <2>3 DEF Typed, Buffers
    <3>3. \A i \in 1 .. Len(ring') : i + 1 \in 1 .. Len(ring)
      BY <3>2
    <3>4. /\ 1 \in 1 .. Len(ring)
          /\ \A i \in 1 .. Len(frame') : i \in 1 .. Len(frame) \/ i = Len(frame) + 1
      BY <3>1, <3>2
    <3> QED BY <2>1, <3>1, <3>2, <3>3, <3>4, LostKept
  <2> QED BY <1>2, <2>2, <2>3 DEF Read
<1>3. CASE Drain
  <2>1. UNCHANGED <<asked, dest, pos, hit, frame>>
    BY <1>3 DEF Drain, Steady, master
  <2>2. CASE UNCHANGED ring
    BY <2>1, <2>2, LostKept
  <2>3. CASE ring # << >> /\ ring' = Tail(ring)
    <3>1. /\ Len(ring) > 0 /\ Len(ring') = Len(ring) - 1 /\ Len(ring) \in Nat
          /\ \A i \in 1 .. Len(ring') : ring'[i] = ring[i + 1]
      BY <2>3 DEF Typed, Buffers
    <3>2. \A i \in 1 .. Len(ring') : i + 1 \in 1 .. Len(ring)
      BY <3>1
    <3> QED BY <2>1, <3>1, <3>2, LostKept
  <2> QED BY <1>3, <2>2, <2>3 DEF Drain
<1>4. CASE Reject \/ Process
  <2>1. UNCHANGED <<asked, dest, pos, hit, ring>> /\ frame' = << >>
    BY <1>4 DEF Reject, Process, Steady, master, uart
  <2> QED BY <2>1, LostKept
<1>5. CASE GiveUp \/ Poll \/ Stamp \/ Check \/ Enable \/ Write \/ Written \/ Release \/ Unit
           \/ UNCHANGED vars
  <2>1. UNCHANGED <<asked, dest, pos, hit, ring, frame>>
    BY <1>5 DEF GiveUp, Poll, Stamp, Check, Enable, Write, Written, Release, Unit, Steady,
       master, uart, slave, vars
  <2> QED BY <2>1, LostKept
<1> QED BY <1>1, <1>2, <1>3, <1>4, <1>5, MissingSend DEF Unraced, Main

LEMMA OwingStep ==
  ASSUME Typed, Owing, [Unraced]_vars
  PROVE  Owing'
<1>0. left \in Nat /\ txq \in Nat /\ busy \in BOOLEAN
  BY Sizes DEF Typed, Timed, Flags
<1>1. CASE Process
  <2>1. /\ UNCHANGED <<txq, busy>>
        /\ UNCHANGED <<left, answers>> \/ left' = Reply
    BY <1>1 DEF Process, Act
  <2> QED BY <1>0, <2>1, Sizes DEF Owing, Owed
<1>2. CASE Write
  <2>1. answers' = answers /\ left > 0 /\ left' = left - 1 /\ busy' = TRUE
        /\ txq' = IF busy THEN txq + 1 ELSE txq
    BY <1>2 DEF Write, work
  <2>2. Owed' > 0
    BY <1>0, <2>1 DEF Owed
  <2> QED BY <2>2 DEF Owing
<1>3. CASE Unit
  <2>1. answers' # << >> => answers # << >> /\ ~(busy /\ txq = 0 /\ left = 0)
    BY <1>3 DEF Unit
  <2>2. left' = left /\ txq' = IF txq > 0 THEN txq - 1 ELSE 0
    BY <1>3 DEF Unit
  <2>3. busy' <=> txq > 0
    <3>1. busy' = (txq > 0)
      BY <1>3 DEF Unit
    <3> QED BY <3>1, Zenon
  <2>4. left > 0 \/ txq > 0 => Owed' > 0
    BY <1>0, <2>2, <2>3 DEF Owed
  <2>5. Owed > 0 /\ ~(busy /\ txq = 0 /\ left = 0) => left > 0 \/ txq > 0
    BY <1>0 DEF Owed
  <2> QED BY <2>1, <2>4, <2>5 DEF Owing
<1>4. CASE UNCHANGED <<left, txq, busy, answers>>
  BY <1>4 DEF Owing, Owed
<1> QED BY <1>1, <1>2, <1>3, <1>4 DEF Unraced, Main, vars, uart, work, Ask, Send, GiveUp,
        Poll, Read, Drain, Stamp, Check, Reject, Enable, Written, Release

LEMMA HeardTyped ==
  ASSUME HeardStep
  PROVE  /\ gap \in Nat /\ since \in Nat /\ Age \in Nat /\ pos \in Nat /\ surplus \in Nat
         /\ asked \in Nat /\ served \in Nat /\ served <= asked
         /\ Prompt \in Nat /\ CallTime \in Nat /\ Adu \in Nat /\ Ring \in Nat
         /\ Len(frame) \in Nat /\ Len(ring) \in Nat /\ Len(frame) <= Adu
         /\ pc # "rest" => since <= CallTime
         /\ pc = "rest" => since <= Prompt
         /\ Arrived \in Nat
<1>1. Typed /\ Prompted
  BY DEF HeardStep, InStep, Soon
<1>2. gap \in Nat /\ since \in Nat /\ Age \in Nat
  BY <1>1, AgeTyped
<1>3. Len(frame) \in Nat /\ Len(ring) \in Nat /\ Len(frame) <= Adu
  BY <1>1 DEF Typed, Buffers
<1>4. Arrived \in Nat
  BY <1>2 DEF Arrived
<1> QED BY <1>1, <1>2, <1>3, <1>4, Sizes DEF Typed, Sending, Timed, Numbered, Prompted

(* After a request for this slave, whole, nothing else has come.           *)
LEMMA WholeLast ==
  ASSUME HeardStep, FrameOf(asked), asked > 0
  PROVE  ring = << >>
<1>1. asked \in 1 .. asked /\ Whole \in Nat \ {0}
  BY HeardTyped, Sizes
<1>2. \A i \in 1 .. Len(ring) : ring[i][1] <= asked => ring[i][2] = 0
  BY <1>1, FrameWhole DEF HeardStep, InStep
<1>3. ASSUME ring # << >>
      PROVE  FALSE
  <2>1. 1 \in 1 .. Len(ring)
    BY <1>3 DEF HeardStep, InStep, Typed, Buffers
  <2>2. hit = asked
    <3>1. Known(ring[1])
      BY <2>1 DEF HeardStep, InStep, Order, AllKnown
    <3>2. ring[1][1] <= asked /\ ring[1][2] = 0 /\ ring[1][1] = hit
      BY <1>2, <2>1, <3>1 DEF Known
    <3>3. Before(frame[Whole], ring[1]) /\ frame[Whole] = <<asked, Whole>>
      <4>1. Len(frame) = Whole /\ frame[Whole] = <<asked, Whole>>
        BY <1>1 DEF FrameOf
      <4> QED BY <1>1, <2>1, <4>1 DEF HeardStep, InStep, Order, Sorted
    <3> QED BY <3>2, <3>3, HeardTyped, CharsTyped, CharTyped, <2>1
            DEF Before, HeardStep, InStep
  <2>3. PICK p \in 1 .. Len1(dest[asked]) : Lost(p)
    BY <2>2, <1>1 DEF HeardStep, Missing
  <2>4. Len1(dest[asked]) = Whole /\ Len(frame) = Whole
        /\ \A k \in 1 .. Whole : frame[k] = <<asked, k>>
    BY <1>1 DEF FrameOf, Len1
  <2> QED BY <2>2, <2>3, <2>4 DEF Lost
<1> QED BY <1>3

(* What is told as a frame is the whole request.                           *)
LEMMA SilentWhole ==
  ASSUME HeardStep, Fresh, Unhurt, pc = "check", Silent
  PROVE  mst = "wait" /\ FrameOf(asked) /\ Accepted
<1>1. /\ frame # << >> /\ Typed
      /\ Len(frame) + Len(ring) = pos
      /\ \A i \in 1 .. Len(frame) : frame[i] = <<asked, i>>
  BY DEF Silent, HeardStep, InStep, Intact
<1>2. Len(frame) \in 1 .. Len(frame)
  BY <1>1 DEF Typed, Buffers
<1>3. mst # "send"
  BY <1>1, <1>2, NotSilent DEF Partial, Unhurt
<1>4. mst = "wait" /\ dest[asked] = "us"
  BY <1>1, <1>3 DEF Typed, Sending, Unhurt
<1>5. ring = << >>
  BY <1>1, <1>4, Young DEF HeardStep, Fresher
<1>6. Len(frame) = Whole
  BY <1>1, <1>4, <1>5, Sizes, HeardTyped DEF HeardStep, AllSent, Len1
<1>7. frame = [k \in 1 .. Whole |-> <<asked, k>>]
  <2>1. DOMAIN frame = 1 .. Whole /\ frame = [k \in DOMAIN frame |-> frame[k]]
    BY <1>1, <1>6 DEF Typed, Buffers
  <2> QED BY <1>1, <1>6, <2>1
<1>8. asked \in 1 .. asked
  BY <1>1, <1>4 DEF Typed, Sending, Numbered
<1> QED BY <1>4, <1>7, <1>8 DEF FrameOf, Accepted

(* But for a new request, one not hurt was not hurt before.                *)
LEMMA UnhurtBefore ==
  ASSUME HeardStep, [Unraced]_vars, ~(\E d \in Dests : Ask(d)), Unhurt'
  PROVE  Unhurt /\ UNCHANGED <<asked, dest>> /\ served < asked
<1>1. UNCHANGED <<asked, dest>> /\ mst # "rest" /\ hit # asked
  BY DEF Unraced, Main, vars, master, Unhurt, Send, GiveUp, Poll, Read, Drain, Stamp, Check,
     Reject, Process, Enable, Write, Written, Release, Unit, Steady
<1>2. served < asked
  <2>1. CASE Process
    <3>1. PICK n \in 1 .. asked : FrameOf(n) /\ served' = n
      BY <2>1 DEF Process, Act
    <3> QED BY <1>1, <3>1, FrameWhole, HeardTyped DEF HeardStep, InStep, Unhurt
  <2>2. CASE served' = served
    BY <1>1, <2>2 DEF Unhurt
  <2> QED BY <2>1, <2>2 DEF Unraced, Main, vars, work, Send, GiveUp, Poll, Read, Drain,
          Stamp, Check, Reject, Enable, Write, Written, Release, Unit
<1> QED BY <1>1, <1>2 DEF Unhurt

LEMMA RestedStep ==
  ASSUME Attentive, HeardStep, [Unraced]_vars
  PROVE  Rested'
<1>1. CASE (\E d \in Dests : Ask(d)) \/ Send
  <2>1. CASE \E d \in Dests : Ask(d)
    <3>1. mst' = "send" /\ asked' = asked + 1 /\ served' = served
      BY <2>1 DEF Ask, work
    <3> QED BY <3>1, HeardTyped DEF Rested
  <2>2. CASE Send
    <3>1. mst = "send" /\ mst' # "rest" /\ UNCHANGED <<asked, served>>
      BY <2>2 DEF Send, work
    <3>2. served < asked
      BY <3>1 DEF HeardStep, InStep, Order, Unserved
    <3> QED BY <3>1, <3>2, HeardTyped DEF Rested
  <2> QED BY <1>1, <2>1, <2>2
<1>2. CASE GiveUp
  <2>1. UNCHANGED <<frame, ring, pc>> /\ mst = "wait" /\ gap = Patience
    BY <1>2 DEF GiveUp, uart, slave, poll
  <2>2. Patience > Due + Prompt + CallTime
    BY Limits, Sizes DEF Patience, Attentive, Lag
  <2>3. Quiet
    <3>1. CASE served < asked
      BY <2>1, <2>2, <3>1, NothingLeft DEF HeardStep
    <3>2. CASE served = asked
      BY <3>2 DEF HeardStep, Rested
    <3> QED BY <3>1, <3>2, HeardTyped
  <2> QED BY <2>1, <2>3 DEF Rested, Quiet
<1>3. CASE Poll \/ Stamp \/ Check \/ Reject \/ Read \/ Drain
  <2>1. UNCHANGED <<mst, asked, served>>
    BY <1>3 DEF Poll, Stamp, Check, Reject, Read, Drain, Steady, master, work
  <2>2. Quiet => Quiet'
    BY <1>3 DEF Quiet, Poll, Stamp, Check, Reject, Read, Drain, Step, uart
  <2> QED BY <2>1, <2>2 DEF HeardStep, Rested
<1>4. CASE Process
  <2>1. PICK n \in 1 .. asked : FrameOf(n) /\ served' = n /\ pc' \in {"rest", "enable"}
    BY <1>4 DEF Process, Act
  <2>2. UNCHANGED <<mst, asked, ring>> /\ frame' = << >> /\ frame # << >>
    BY <1>4 DEF Process, Steady, master, Silent
  <2>3. mst # "rest"
    BY <2>2 DEF HeardStep, Rested, Quiet
  <2>4. n = asked => ring = << >>
    BY <2>1, WholeLast, HeardTyped
  <2> QED BY <2>1, <2>2, <2>3, <2>4 DEF Rested, Quiet
<1>5. CASE Enable \/ Write \/ Written \/ Release
  <2>1. UNCHANGED <<mst, asked, served, frame, ring>> /\ pc' \in {"write", "flush", "rest"}
    BY <1>5 DEF Enable, Write, Written, Release, Step, Steady, master, work, uart
  <2> QED BY <2>1 DEF HeardStep, Rested, Quiet
<1>6. CASE Unit
  <2>1. UNCHANGED <<asked, served, frame, ring, pc>> /\ (mst' = mst \/ served = asked)
    BY <1>6 DEF Unit, poll
  <2> QED BY <2>1 DEF HeardStep, Rested, Quiet
<1>7. CASE UNCHANGED vars
  BY <1>7 DEF vars, master, uart, slave, poll, work, HeardStep, Rested, Quiet
<1> QED BY <1>1, <1>2, <1>3, <1>4, <1>5, <1>6, <1>7 DEF Unraced, Main

LEMMA FresherStep ==
  ASSUME HeardStep, Fresh, [Unraced]_vars
  PROVE  Fresher'
<1> SUFFICES ASSUME Unhurt', mst' = "wait", pc' = "check", ring' # << >>, frame' # << >>
             PROVE  Age' <= Pause + Ms + since'
  BY DEF Fresher
<1>1. ~(\E d \in Dests : Ask(d))
  BY DEF Ask
<1>2. Unhurt /\ asked' = asked
  BY <1>1, UnhurtBefore
<1>3. since \in Nat /\ Age \in Nat /\ Pause \in Nat /\ Ms \in Nat \ {0}
  BY HeardTyped, Sizes
<1>4. CASE Send
  <2>1. UNCHANGED <<frame, elapsed, phase, pc, since>> /\ mst = "send"
    BY <1>4 DEF Send, slave, time, poll
  <2>2. Partial
    <3>1. Len(frame) \in 1 .. Len(frame)
      BY <2>1 DEF HeardStep, InStep, Typed, Buffers
    <3> QED BY <1>2, <2>1, <3>1 DEF Partial, HeardStep, Intact, Unhurt
  <2>3. Age <= Pause + Ms + since
    BY <2>1, <2>2, PartialYoung DEF HeardStep, InStep
  <2> QED BY <2>1, <2>3 DEF Age
<1>5. CASE Unit
  <2>1. UNCHANGED <<pc, ring, frame>> /\ mst = "wait"
    BY <1>5 DEF Unit, poll
  <2>2. since' = since + 1
    BY <1>5, <2>1 DEF Unit, Waiting, WaitsFull, WaitsEmpty
  <2>3. Age <= Pause + Ms + since
    BY <1>2, <2>1 DEF HeardStep, Fresher
  <2>4. Typed'
    <3>1. [Next]_vars
      BY DEF Next, Unraced
    <3> QED BY <3>1, FlagsStep, BuffersStep, NumberedStep, SendingStep, TimedStep
            DEF Typed, HeardStep, InStep
  <2>5. Age' \in Nat
    <3>1. elapsed' \in Nat /\ phase' \in Nat
      BY <2>4, Sizes DEF Typed, Timed
    <3>2. elapsed' * Ms \in Nat
      BY <3>1, Times, Sizes
    <3> QED BY <3>1, <3>2 DEF Age
  <2>6. Age' <= Age + 1
    BY <1>5, AgeUnit DEF HeardStep, InStep
  <2> QED BY <1>3, <2>2, <2>3, <2>5, <2>6
<1>6. CASE Stamp
  <2>1. phase' = phase /\ since' = since /\ elapsed' = 0
    BY <1>6 DEF Stamp, Steady
  <2>2. Age' = phase /\ phase \in Nat /\ phase <= Ms - 1
    BY <2>1, AgeTyped, Sizes DEF Age, HeardStep, InStep
  <2> QED BY <1>3, <2>1, <2>2
<1>7. CASE Poll
  BY <1>7 DEF Poll, Steady, uart
<1>8. CASE UNCHANGED vars
  BY <1>2, <1>8 DEF vars, master, uart, slave, time, poll, HeardStep, Fresher, Age
<1> QED BY <1>1, <1>4, <1>5, <1>6, <1>7, <1>8 DEF Unraced, Main, GiveUp, Read, Drain, Check,
        Reject, Process, Act, Enable, Write, Written, Release, Step

(* A character sent to a prompt slave finds room, and the receiver on.     *)
LEMMA Room ==
  ASSUME Attentive, HeardStep, Send, Unhurt
  PROVE  Len(ring) < Ring /\ ~dir
<1>1. mst = "send" /\ gap >= 1
  BY DEF Send
<1>2. ~Answering
  BY <1>1 DEF HeardStep, InStep, Soon, AnswersSoon, InAnswer, AfterAnswer
<1>3. Arrived = since /\ Prompt + 2 * CallTime < Ring
  BY <1>1, HeardTyped DEF Arrived, Attentive
<1>4. pc \in {"rest", "read", "drain", "stamp", "check"}
  BY <1>2 DEF Answering, HeardStep, InStep, Typed, Timed
<1>5. Len(ring) < Ring
  <2>1. CASE pc = "rest"
    BY <1>1, <1>3, <2>1, HeardTyped DEF HeardStep, Uncrowded
  <2>2. CASE pc # "rest"
    BY <1>1, <1>3, <1>4, <2>2, HeardTyped DEF HeardStep, Uncrowded
  <2> QED BY <2>1, <2>2
<1>6. ~dir
  BY <1>2 DEF Answering, HeardStep, InStep, Held
<1> QED BY <1>5, <1>6

LEMMA IntactSend ==
  ASSUME Attentive, HeardStep, Send, Unhurt, Unhurt'
  PROVE  Intact'
<1>1. /\ UNCHANGED <<asked, frame, pc, surplus>> /\ pos' = pos + 1
      /\ ring' = Append(ring, <<asked, pos + 1>>)
  BY Room DEF Send, slave, poll, Receive, Unhurt
<1>2. /\ Len(ring') = Len(ring) + 1 /\ ring'[Len(ring) + 1] = <<asked, pos + 1>>
      /\ \A i \in 1 .. Len(ring) : ring'[i] = ring[i]
  BY <1>1 DEF HeardStep, InStep, Typed, Buffers
<1>3. /\ Len(frame) + Len(ring) = pos
      /\ \A i \in 1 .. Len(frame) : frame[i] = <<asked, i>>
      /\ \A i \in 1 .. Len(ring) : ring[i] = <<asked, Len(frame) + i>>
      /\ pc \in {"read", "drain"} => surplus = 0
  BY DEF HeardStep, Intact
<1>4. ASSUME NEW i \in 1 .. Len(ring')
      PROVE  ring'[i] = <<asked, Len(frame) + i>>
  <2>1. CASE i \in 1 .. Len(ring)
    BY <1>2, <1>3, <2>1
  <2>2. CASE i = Len(ring) + 1
    <3>1. Len(frame) + i = pos + 1
      BY <1>3, <2>2, HeardTyped
    <3> QED BY <1>2, <2>2, <3>1
  <2>3. Len(ring) \in Nat
    BY HeardTyped
  <2> QED BY <1>2, <2>1, <2>2, <2>3
<1>5. Len(frame') + Len(ring') = pos'
  <2>1. Len(frame) \in Nat /\ Len(ring) \in Nat /\ pos \in Nat
    BY HeardTyped
  <2> QED BY <1>1, <1>2, <1>3, <2>1
<1> QED BY <1>1, <1>3, <1>4, <1>5 DEF Intact

LEMMA IntactRead ==
  ASSUME HeardStep, Read, Unhurt
  PROVE  /\ Intact'
         /\ pc' = "drain" => ring' = << >>
<1>0. UNCHANGED <<asked, pos, surplus>> /\ pc = "read"
  BY DEF Read, Steady, master
<1>1. /\ Len(frame) + Len(ring) = pos /\ surplus = 0
      /\ \A i \in 1 .. Len(frame) : frame[i] = <<asked, i>>
      /\ \A i \in 1 .. Len(ring) : ring[i] = <<asked, Len(frame) + i>>
  BY <1>0 DEF HeardStep, Intact
<1>2. pos <= Adu
  <2>1. asked > 0 /\ dest[asked] = "us"
    BY HeardTyped DEF Unhurt
  <2> QED BY <2>1, HeardTyped, Sizes DEF HeardStep, InStep, Typed, Sending, Len1
<1>3. CASE ring # << >> /\ frame' = Append(frame, Head(ring)) /\ ring' = Tail(ring)
           /\ pc' = "read"
  <2>1. /\ Len(frame') = Len(frame) + 1 /\ frame'[Len(frame) + 1] = ring[1]
        /\ \A i \in 1 .. Len(frame) : frame'[i] = frame[i]
    BY <1>3 DEF HeardStep, InStep, Typed, Buffers
  <2>2. /\ Len(ring) > 0 /\ Len(ring') = Len(ring) - 1
        /\ \A i \in 1 .. Len(ring') : ring'[i] = ring[i + 1]
    BY <1>3 DEF HeardStep, InStep, Typed, Buffers
  <2>3. ASSUME NEW i \in 1 .. Len(frame')
        PROVE  frame'[i] = <<asked, i>>
    <3>1. CASE i \in 1 .. Len(frame)
      BY <1>1, <2>1, <3>1
    <3>2. CASE i = Len(frame) + 1
      BY <1>1, <2>1, <2>2, <3>2, HeardTyped
    <3> QED BY <2>1, <3>1, <3>2, HeardTyped
  <2>4. ASSUME NEW i \in 1 .. Len(ring')
        PROVE  ring'[i] = <<asked, Len(frame') + i>>
    <3>1. i + 1 \in 1 .. Len(ring) /\ Len(frame') + i = Len(frame) + (i + 1)
      BY <2>1, <2>2, HeardTyped
    <3> QED BY <1>1, <2>2, <3>1
  <2>5. Len(frame') + Len(ring') = pos'
    BY <1>0, <1>1, <2>1, <2>2, HeardTyped
  <2> QED BY <1>0, <1>1, <1>3, <2>3, <2>4, <2>5 DEF Intact
<1>4. CASE (Len(frame) = Adu \/ ring = << >>) /\ UNCHANGED <<frame, ring>> /\ pc' = "drain"
  <2>1. Len(ring) = 0 => ring = << >>
    BY DEF HeardStep, InStep, Typed, Buffers
  <2>2. ring = << >>
    BY <1>1, <1>2, <1>4, <2>1, HeardTyped
  <2> QED BY <1>0, <1>1, <1>4, <2>2 DEF Intact
<1> QED BY <1>3, <1>4 DEF Read

LEMMA IntactStep ==
  ASSUME Attentive, HeardStep, Fresh, [Unraced]_vars
  PROVE  Intact'
<1>1. CASE \E d \in Dests : Ask(d)
  <2>1. UNCHANGED <<frame, ring, pc>> /\ mst = "rest" /\ pos' = 0
    BY <1>1 DEF Ask, uart, slave, poll
  <2>2. Quiet
    BY <2>1 DEF HeardStep, Rested
  <2> QED BY <2>1, <2>2 DEF Quiet, Intact
<1> SUFFICES ASSUME ~(\E d \in Dests : Ask(d)), Unhurt'
             PROVE  Intact'
  BY <1>1 DEF Intact
<1>2. Unhurt /\ UNCHANGED <<asked, dest>> /\ served < asked /\ served' < asked
  BY UnhurtBefore DEF Unhurt
<1>3. /\ Len(frame) + Len(ring) = pos
      /\ \A i \in 1 .. Len(frame) : frame[i] = <<asked, i>>
      /\ \A i \in 1 .. Len(ring) : ring[i] = <<asked, Len(frame) + i>>
      /\ pc \in {"read", "drain"} => surplus = 0
  BY <1>2 DEF HeardStep, Intact
<1>4. CASE Send
  BY <1>2, <1>4, IntactSend
<1>5. CASE Read
  BY <1>2, <1>5, IntactRead
<1>6. CASE Poll
  <2>1. UNCHANGED <<frame, ring, pos>>
    BY <1>6 DEF Poll, Steady, master, uart
  <2>2. Len(frame) + Len(ring) <= Adu
    <3>1. asked > 0 /\ dest[asked] = "us"
      BY <1>2, HeardTyped DEF Unhurt
    <3> QED BY <1>3, <3>1, HeardTyped, Sizes DEF HeardStep, InStep, Typed, Sending, Len1
  <2>3. pc' \in {"read", "drain"} => surplus' = 0
    BY <1>6, <2>2, HeardTyped DEF Poll
  <2> QED BY <1>2, <1>3, <2>1, <2>3 DEF Intact
<1>7. CASE Drain
  <2>1. surplus = 0 /\ UNCHANGED <<frame, pos>>
    BY <1>3, <1>7 DEF Drain, Steady, master
  <2>2. ring' = ring /\ surplus' = 0
    BY <1>7, <2>1 DEF Drain
  <2> QED BY <1>2, <1>3, <2>1, <2>2 DEF Intact
<1>8. CASE Reject \/ Process
  <2>1. Silent /\ pc = "check" /\ (Reject => ~Accepted)
    BY <1>8 DEF Reject, Process
  <2>2. FrameOf(asked) /\ Accepted
    BY <1>2, <2>1, SilentWhole
  <2>3. PICK n \in 1 .. asked : FrameOf(n) /\ served' = n
    BY <1>8, <2>1, <2>2 DEF Process, Act
  <2>4. frame[1] = <<n, 1>> /\ frame[1] = <<asked, 1>>
    <3>1. 1 \in 1 .. Whole
      BY Sizes
    <3> QED BY <2>2, <2>3, <3>1 DEF FrameOf
  <2>5. n = asked
    BY <2>4
  <2> QED BY <1>2, <2>3, <2>5, HeardTyped
<1>9. CASE GiveUp \/ Stamp \/ Check \/ Enable \/ Write \/ Written \/ Release \/ Unit
           \/ UNCHANGED vars
  <2>1. UNCHANGED <<frame, ring, pos, surplus>> /\ (pc' \in {"read", "drain"} => pc' = pc)
    BY <1>9 DEF GiveUp, Stamp, Check, Enable, Write, Written, Release, Unit, Step, Steady,
       master, uart, slave, poll, vars
  <2> QED BY <1>2, <1>3, <2>1 DEF Intact
<1> QED BY <1>4, <1>5, <1>6, <1>7, <1>8, <1>9 DEF Unraced, Main

LEMMA UncrowdedStep ==
  ASSUME Attentive, HeardStep, Fresh, [Unraced]_vars
  PROVE  Uncrowded'
<1>0. CASE \E d \in Dests : Ask(d)
  <2>1. UNCHANGED <<ring, pc, since>> /\ mst = "rest" /\ gap' = 1
    BY <1>0 DEF Ask, uart, time, poll
  <2>2. ring = << >>
    BY <2>1 DEF HeardStep, Rested, Quiet
  <2>3. Len(ring') = 0 /\ Arrived' = since
    BY <2>1, <2>2, HeardTyped DEF Arrived
  <2> QED BY <2>1, <2>3, HeardTyped DEF Uncrowded
<1> SUFFICES ASSUME ~(\E d \in Dests : Ask(d)), Unhurt', mst' = "send"
             PROVE  /\ pc' = "rest" => Len(ring') <= CallTime + Arrived'
                    /\ pc' = "read" => Len(ring') <= CallTime + Prompt + Arrived'
                    /\ pc' \in {"drain", "stamp", "check"} => Len(ring') <= Arrived'
  BY <1>0 DEF Uncrowded
<1>1. Unhurt /\ mst = "send"
  <2>1. mst = "send"
    BY DEF Unraced, Main, vars, master, Send, GiveUp, Poll, Read, Drain, Stamp, Check,
       Reject, Process, Enable, Write, Written, Release, Unit, Steady
  <2> QED BY <2>1, UnhurtBefore
<1>2. /\ pc = "rest" => Len(ring) <= CallTime + Arrived
      /\ pc = "read" => Len(ring) <= CallTime + Prompt + Arrived
      /\ pc \in {"drain", "stamp", "check"} => Len(ring) <= Arrived
  BY <1>1 DEF HeardStep, Uncrowded
<1>n. /\ CallTime \in Nat /\ Prompt \in Nat /\ Arrived \in Nat /\ Len(ring) \in Nat
      /\ since \in Nat
  BY HeardTyped
<1>3. ~Answering
  BY <1>1 DEF HeardStep, InStep, Soon, AnswersSoon, InAnswer, AfterAnswer
<1>4. CASE Send
  <2>1. UNCHANGED <<pc, since>> /\ gap' = 0 /\ gap >= 1
    BY <1>4 DEF Send, time, poll
  <2>2. Len(ring') <= Len(ring) + 1 /\ Len(ring') \in Nat
    BY <1>4 DEF Send, Receive, HeardStep, InStep, Typed, Buffers
  <2>3. Arrived' = Arrived + 1
    BY <2>1, HeardTyped DEF Arrived
  <2> QED BY <1>2, <1>n, <2>1, <2>2, <2>3
<1>5. CASE Unit
  <2>1. UNCHANGED <<pc, ring>> /\ gap' = gap + 1 /\ since' = since + 1
    BY <1>1, <1>3, <1>5 DEF Unit, poll, Waiting, WaitsFull, WaitsEmpty, Answering
  <2>2. Arrived' = since + 1
    BY <2>1, HeardTyped DEF Arrived
  <2>3. Arrived <= since + 1
    BY HeardTyped DEF Arrived
  <2> QED BY <1>2, <1>n, <2>1, <2>2, <2>3
<1>6. CASE Poll
  <2>1. UNCHANGED <<ring, gap>> /\ pc = "rest" /\ since' = 0
        /\ ((pc' = "check" /\ ring = << >>) \/ pc' = "read")
    BY <1>6 DEF Poll, Steady, master, uart
  <2>2. Arrived = since + Arrived' /\ Arrived' \in Nat /\ since <= Prompt
    BY <2>1, HeardTyped DEF Arrived
  <2>3. ring = << >> => Len(ring) = 0
    OBVIOUS
  <2> QED BY <1>2, <1>n, <2>1, <2>2, <2>3
<1>7. CASE Read
  <2>1. UNCHANGED <<gap, since>> /\ pc = "read" /\ pc' \in {"read", "drain"}
    BY <1>7 DEF Read, Steady, master
  <2>2. Arrived' = Arrived
    BY <2>1 DEF Arrived
  <2>3. Len(ring') <= Len(ring) /\ Len(ring') \in Nat
    BY <1>7 DEF Read, HeardStep, InStep, Typed, Buffers
  <2>4. pc' = "drain" => Len(ring') = 0
    BY <1>1, <1>7, IntactRead
  <2> QED BY <1>2, <2>1, <2>2, <2>3, <2>4, <1>n
<1>8. CASE Drain \/ Stamp
  <2>1. UNCHANGED <<gap, since>> /\ pc \in {"drain", "stamp"}
        /\ pc' \in {"drain", "stamp", "check"}
    BY <1>8 DEF Drain, Stamp, Step, Steady, master
  <2>2. Arrived' = Arrived
    BY <2>1 DEF Arrived
  <2>3. Len(ring') <= Len(ring) /\ Len(ring') \in Nat
    BY <1>8 DEF Drain, Stamp, uart, HeardStep, InStep, Typed, Buffers
  <2> QED BY <1>2, <1>n, <2>1, <2>2, <2>3
<1>9. CASE Check
  <2>1. UNCHANGED <<gap, ring>> /\ pc = "check" /\ pc' = "rest" /\ since' = 0
    BY <1>9 DEF Check, Steady, master, uart
  <2>2. Arrived = since + Arrived' /\ Arrived' \in Nat /\ since <= CallTime
    BY <2>1, HeardTyped DEF Arrived
  <2> QED BY <1>2, <1>n, <2>1, <2>2
<1>10. CASE Reject \/ Process
  <2>1. Silent /\ pc = "check"
    BY <1>10 DEF Reject, Process
  <2> QED BY <1>1, <2>1, SilentWhole
<1>11. CASE GiveUp \/ Enable \/ Write \/ Written \/ Release
  BY <1>1, <1>3, <1>11 DEF GiveUp, Enable, Write, Written, Release, Step, Answering
<1>12. CASE UNCHANGED vars
  BY <1>2, <1>12 DEF vars, master, uart, time, poll, Arrived
<1> QED BY <1>4, <1>5, <1>6, <1>7, <1>8, <1>9, <1>10, <1>11, <1>12 DEF Unraced, Main

(* When the master gives up, nothing of what it asked for is under way.    *)
LEMMA GiveUpServed ==
  ASSUME Attentive, HeardStep, Owing, GiveUp, dest[asked] = "us", hit # asked
  PROVE  served = asked /\ answers = << >>
<1>1. mst = "wait" /\ gap = Timeout /\ asked > 0
  BY DEF GiveUp, Patience, HeardStep, InStep, Typed, Sending
<1>2. /\ Due + Prompt + CallTime < Timeout /\ Due + Prompt + 2 * CallTime + Reply <= Timeout
  BY Limits, Sizes DEF Attentive
<1>3. served = asked
  <2>1. ASSUME served < asked
        PROVE  FALSE
    <3>1. frame = << >> /\ ring = << >>
      BY <1>1, <1>2, <2>1, NothingLeft, HeardTyped DEF HeardStep, Quiet
    <3>2. Unhurt
      BY <1>1, <2>1 DEF Unhurt
    <3>3. pos = 0
      BY <3>1, <3>2 DEF HeardStep, Intact
    <3>4. pos = Whole
      BY <1>1 DEF HeardStep, AllSent, Len1
    <3> QED BY <3>3, <3>4, Sizes
  <2> QED BY <2>1, HeardTyped
<1>4. ~(Owed > 0)
  <2>1. ASSUME Owed > 0 PROVE FALSE
    <3>1. InAnswer
      BY <1>1, <2>1 DEF HeardStep, InStep, Soon, AnswersSoon, AfterAnswer
    <3>2. /\ Owed \in Nat /\ Prompt \in Nat /\ CallTime \in Nat /\ Due \in Nat
          /\ Reply \in Nat /\ since \in Nat
      BY OwedTyped, Sizes, Limits, HeardTyped DEF HeardStep, InStep
    <3>3. gap \in Nat /\ (pc \in {"enable", "write"} => since <= CallTime)
      BY HeardTyped
    <3>4. gap + Owed <= Due + Prompt + 2 * CallTime + Reply
      BY <3>1, <3>2, <3>3 DEF InAnswer
    <3> QED BY <1>1, <1>2, <2>1, <3>2, <3>4, Sizes
  <2> QED BY <2>1
<1> QED BY <1>3, <1>4 DEF Owing

(* Until the race on the transmit ring happens, a prompt slave is heard in *)
(* time by an attentive master: this gives up only on a request a fault    *)
(* has hit, one that gets no answer, or one for somebody else.             *)
THEOREM ModbusInTime ==
  ASSUME Attentive
  PROVE  Spec => InTime
<1> DEFINE Prompter == ~late /\ ~torn =>
             /\ Soon /\ Rested /\ Intact /\ Fresher /\ Uncrowded
             /\ Missing /\ AllSent /\ Owing
<1>1. Init => Prompter
  <2> SUFFICES ASSUME Init PROVE Prompter
    OBVIOUS
  <2>1. Prompted
    BY Sizes DEF Init, Prompted
  <2>2. ReadSoon /\ NoneStale
    BY DEF Init, ReadSoon, NoneStale
  <2>3. Owed = 0 /\ ~Answering
    BY DEF Init, Owed, Answering
  <2>4. Rested /\ Intact /\ Fresher /\ Uncrowded /\ Missing /\ AllSent /\ Owing
    BY DEF Init, Rested, Quiet, Intact, Fresher, Uncrowded, Unhurt, Missing, AllSent, Owing
  <2> QED BY <2>1, <2>2, <2>3, <2>4 DEF Soon, AnswersSoon
<1>2. Typed /\ Held /\ Order /\ Fresh /\ Prompter /\ [Next]_vars => Prompter'
  <2> SUFFICES ASSUME Typed, Held, Order, Fresh, Prompter, [Next]_vars, ~late', ~torn'
               PROVE  /\ (Soon /\ Rested /\ Intact /\ Fresher /\ Uncrowded)'
                      /\ (Missing /\ AllSent /\ Owing)'
    OBVIOUS
  <2>1. ~late /\ ~torn /\ [Unraced]_vars
    BY LateKept, UnracedStep
  <2>2. HeardStep /\ InStep /\ Owing
    BY <2>1 DEF InStep, HeardStep
  <2>3. Missing' /\ AllSent' /\ Owing'
    BY <2>1, <2>2, MissingStep, AllSentStep, OwingStep DEF HeardStep
  <2>4. Soon'
    BY <2>1, <2>2, PromptedStep, ReadSoonStep, StaleStep, AnswerStep
       DEF InStep, Soon, Attentive
  <2>5. Rested' /\ Intact' /\ Fresher' /\ Uncrowded'
    BY <2>1, <2>2, RestedStep, IntactStep, FresherStep, UncrowdedStep
  <2> QED BY <2>3, <2>4, <2>5
<1>3. Typed /\ Held /\ Order /\ Prompter /\ [Next]_vars
      => [mst = "wait" /\ mst' = "rest" /\ dest[asked] = "us" /\ hit # asked /\ ~late /\ ~torn
          => served = asked /\ answers' = << >>]_<<mst>>
  <2> SUFFICES ASSUME Typed, Held, Order, Prompter, [Next]_vars, mst = "wait", mst' = "rest",
                      dest[asked] = "us", hit # asked, ~late, ~torn
               PROVE  served = asked /\ answers' = << >>
    OBVIOUS
  <2>1. HeardStep /\ Owing
    BY DEF HeardStep, InStep
  <2>2. CASE GiveUp
    BY <2>1, <2>2, GiveUpServed DEF GiveUp, work
  <2>3. CASE Unit
    BY <2>3 DEF Unit
  <2> QED BY <2>2, <2>3 DEF Next, Main, vars, master, Ask, Send, Poll, Read, Drain, Stamp,
          Check, Reject, Process, Enable, Write, Written, Release, Race, Steady
<1> HIDE DEF Prompter
<1> QED BY <1>1, <1>2, <1>3, TypedHolds, HeldHolds, OrderHolds, FreshHolds, PTL
        DEF Spec, InTime

=============================================================================
