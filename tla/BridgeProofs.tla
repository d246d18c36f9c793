---------------------------- MODULE BridgeProofs ----------------------------
(***************************************************************************)
(* Proofs about the bridge for every set of images, and for any number of  *)
(* requests, refused bytes and restarts.  The invariant follows a call of  *)
(* epic_bus_i2c_mem_write byte by byte: what the expander has taken, what  *)
(* is left to send, and what the task will conclude from the answer.       *)
(***************************************************************************)
EXTENDS Bridge, TLAPS, SequenceTheorems

(* The call the task makes at pc: how many bytes, and which.               *)
Size == IF pc = "config" THEN 4 ELSE 3
Base == IF pc = "config" THEN REG_IODIR ELSE reg_of(pc, REG_GPIO)
FrameByte(j) == IF j = 1 THEN 2 * EXP_ADDR
                ELSE IF j = 2 THEN Base
                ELSE IF pc = "config" THEN 0 ELSE g.holding[pc]

(* Where it stands: bytes the expander has answered, whether the last was  *)
(* refused, and whether all of them were taken.                            *)
Sent     == Size - Len(xfer.todo)
Answered == IF ssp.busy THEN Sent ELSE Sent + 1
Nacked   == xfer.op = "byte" /\ ~ssp.busy /\ ssp.nack
Failed   == Nacked \/ (xfer.op \in {"stop", "done"} /\ ~xfer.ok)
Landed   == \/ xfer.op = "byte" /\ ~ssp.busy /\ ~ssp.nack /\ Len(xfer.todo) = 1
            \/ xfer.op \in {"stop", "done"} /\ xfer.ok

Globals   == [holding: [Port -> Images], shadow: [Port -> Images],
              expCfg: BOOLEAN, err: BOOLEAN, status: BOOLEAN]
Transfers == [op: {"none", "start", "byte", "stop", "done"}, todo: Seq(Nat),
              ok: BOOLEAN]
Expanders == [phase: {"idle", "addr", "reg", "data", "deaf"}, ptr: 0..255,
              dir: [Port -> 0..1], latch: [Port -> Images],
              took: [Port -> Images]]
Counts    == [requests: 0..MaxRequests, faults: 0..MaxFaults,
              resets: 0..MaxResets]

Typed ==
  /\ g \in Globals
  /\ pc \in {"idle", "config", "publish"} \cup Port
  /\ xfer \in Transfers
  /\ ssp \in [busy: BOOLEAN, flag: BOOLEAN, nack: BOOLEAN]
  /\ t2if \in BOOLEAN
  /\ dev \in Expanders
  /\ used \in Counts
  /\ seen \in [nack: BOOLEAN, stolen: BOOLEAN, unknown: SUBSET Port]

(* The call: made once at the start for the directions and only with them  *)
(* settled for a port, and the bytes left are the last ones of its frame.  *)
Course ==
  /\ ssp.busy => ~ssp.flag
  /\ ssp.busy \/ ssp.flag => xfer.op \in {"start", "byte", "stop"}
  /\ xfer.op # "none" => pc \in {"config"} \cup Port
  /\ pc \in Port \cup {"publish"} => g.expCfg
  /\ pc = "config" /\ xfer.op # "none" => ~g.expCfg
  /\ xfer.op \in {"none", "start", "byte"} => xfer.ok
  /\ xfer.op \in {"none", "stop", "done"} => xfer.todo = <<>>
  /\ xfer.op \in {"start", "byte"} =>
       /\ Len(xfer.todo) \in 1..Size
       /\ \A j \in 1..Len(xfer.todo) : xfer.todo[j] = FrameByte(Sent + j)
  /\ xfer.op = "start" => Sent = 0

(* The expander's side of it.                                              *)
Wire ==
  /\ xfer.op = "none" /\ g.expCfg => dev.phase = "idle"
  /\ xfer.op = "start" /\ ~ssp.busy => dev.phase = "addr"
  /\ xfer.op = "byte" => dev.phase = IF Nacked THEN "deaf"
                                     ELSE IF Answered = 0 THEN "addr"
                                     ELSE IF Answered = 1 THEN "reg" ELSE "data"
  /\ xfer.op = "byte" /\ dev.phase = "data" => dev.ptr = Base + Answered - 2
  /\ xfer.op = "stop" /\ ~ssp.busy => dev.phase = "idle"
  /\ xfer.op = "done" => dev.phase = "idle"

(* A refused byte ends in the error latch.                                 *)
Errors ==
  /\ seen.nack <=> g.err \/ Failed
  /\ pc = "idle" => g.status = g.err

(* A port whose write was taken holds its image, any other its shadow.     *)
Latches ==
  \A p \in Port :
    IF pc = p /\ Landed THEN dev.took[p] = g.holding[p]
    ELSE p \notin seen.unknown => dev.took[p] = g.shadow[p]

(* The direction registers are written one after the other.                *)
Directions ==
  /\ g.expCfg => g.err \/ \A p \in Port : dev.dir[p] = 0
  /\ pc = "config" /\ Landed => \A p \in Port : dev.dir[p] = 0
  /\ pc = "config" /\ xfer.op = "byte" /\ ~Nacked /\ Answered >= 3
       => dev.dir["A"] = 0

IInv == Typed /\ Course /\ Wire /\ Errors /\ Latches /\ Directions

-----------------------------------------------------------------------------
(* Sequences of bytes.                                                     *)
LEMMA FrameOfConfig ==
  LET s == <<2 * EXP_ADDR, REG_IODIR>> \o <<0, 0>> IN
    /\ s \in Seq(Nat) /\ Len(s) = 4
    /\ s[1] = 2 * EXP_ADDR /\ s[2] = REG_IODIR /\ s[3] = 0 /\ s[4] = 0
BY DEF EXP_ADDR, REG_IODIR

LEMMA FrameOfPort ==
  ASSUME NEW r \in Nat, NEW v \in Nat
  PROVE  LET s == <<2 * EXP_ADDR, r>> \o <<v>> IN
           /\ s \in Seq(Nat) /\ Len(s) = 3
           /\ s[1] = 2 * EXP_ADDR /\ s[2] = r /\ s[3] = v
BY DEF EXP_ADDR

LEMMA Rest ==
  ASSUME NEW s \in Seq(Nat), Len(s) > 1
  PROVE  /\ Tail(s) \in Seq(Nat) /\ Len(Tail(s)) = Len(s) - 1
         /\ \A j \in 1..Len(s) - 1 : Tail(s)[j] = s[j + 1]
BY HeadTailProperties

LEMMA FirstByte ==
  ASSUME NEW s \in Seq(Nat), Len(s) > 0
  PROVE  Head(s) = s[1] /\ s[1] \in Nat
OBVIOUS

-----------------------------------------------------------------------------
LEMMA Types == Typed /\ Course => TypeOK
<1> SUFFICES ASSUME Typed, Course
             PROVE  TypeOK
  OBVIOUS
<1>1. Len(xfer.todo) <= 4
  <2>1. CASE xfer.todo = <<>>
    BY <2>1
  <2>2. CASE Len(xfer.todo) \in 1..Size
    BY <2>2 DEF Size
  <2> QED BY <2>1, <2>2 DEF Typed, Transfers, Course
<1> QED BY <1>1 DEF Typed, TypeOK, Globals, Transfers, Expanders, Counts

LEMMA QuietType ==
  /\ Quiet \in Transfers
  /\ Quiet.op = "none" /\ Quiet.todo = <<>> /\ Quiet.ok
BY DEF Quiet, Transfers

LEMMA BlockType == Block \in Globals
BY BridgeAssumption DEF Block, Zero, Globals

-----------------------------------------------------------------------------
(* What the expander does with the next byte of the frame: the first two   *)
(* address it and set the pointer, the others go to the direction          *)
(* registers, or to the address the driver has for the port.               *)
LEMMA NextByte ==
  ASSUME IInv, ssp.busy, xfer.op = "byte"
  PROVE  /\ Sent \in 0..Size - 1
         /\ Head(xfer.todo) = FrameByte(Sent + 1)
         /\ dev.phase = IF Sent = 0 THEN "addr"
                        ELSE IF Sent = 1 THEN "reg" ELSE "data"
         /\ Sent > 1 => dev.ptr = Base + Sent - 2
<1>1. xfer.todo \in Seq(Nat) /\ Len(xfer.todo) \in 1..Size
  BY DEF IInv, Typed, Transfers, Course
<1>2. Head(xfer.todo) = xfer.todo[1] /\ xfer.todo[1] = FrameByte(Sent + 1)
  BY <1>1, FirstByte DEF IInv, Course
<1>3. Sent \in 0..Size - 1 /\ Size \in {3, 4}
  <2>1. Size \in {3, 4} BY DEF Size
  <2> QED BY <1>1, <2>1 DEF Sent
<1>4. Answered = Sent /\ ~Nacked
  BY DEF Answered, Nacked
<1>5. dev.phase = IF Sent = 0 THEN "addr" ELSE IF Sent = 1 THEN "reg" ELSE "data"
  BY <1>4 DEF IInv, Wire
<1>6. Sent > 1 => dev.ptr = Base + Sent - 2
  BY <1>3, <1>4, <1>5 DEF IInv, Wire
<1> QED
  BY <1>2, <1>3, <1>5, <1>6

LEMMA Effect ==
  ASSUME IInv, ssp.busy, xfer.op = "byte", NEW d, d = Stored(dev, Head(xfer.todo))
  PROVE  /\ d \in Expanders
         /\ d.phase = IF Sent = 0 THEN "reg" ELSE "data"
         /\ Sent > 0 => d.ptr = Base + Sent - 1
         /\ \A p \in Port :
              /\ d.dir[p] = IF pc = "config" /\ Sent = (IF p = "A" THEN 2 ELSE 3)
                            THEN 0 ELSE dev.dir[p]
              /\ d.took[p] = IF pc = p /\ Sent = 2 THEN g.holding[p]
                              ELSE dev.took[p]
<1> DEFINE b == Head(xfer.todo)
<1>1. /\ Sent \in 0..Size - 1 /\ b = FrameByte(Sent + 1)
      /\ dev.phase = IF Sent = 0 THEN "addr" ELSE IF Sent = 1 THEN "reg" ELSE "data"
      /\ Sent > 1 => dev.ptr = Base + Sent - 2
  BY NextByte
<1>2. dev \in Expanders /\ pc \in {"config"} \cup Port /\ g \in Globals
  BY DEF IInv, Typed, Course
<1> HIDE DEF b
<1>3. CASE Sent = 0
  <2>1. d = [dev EXCEPT !.phase = "reg"]
    BY <1>1, <1>3 DEF Stored, b
  <2> QED BY <1>2, <1>3, <2>1 DEF Expanders, Port
<1>4. CASE Sent = 1
  <2>1. d = [dev EXCEPT !.phase = "data", !.ptr = b]
    BY <1>1, <1>4 DEF Stored, b
  <2>2. b = Base /\ b \in 0..255
    BY <1>1, <1>2, <1>4 DEF FrameByte, Base, REG_IODIR, REG_GPIO, reg_of, Port
  <2>3. /\ d \in Expanders /\ d.phase = "data" /\ d.ptr = b
        /\ d.dir = dev.dir /\ d.took = dev.took
    BY <1>2, <2>1, <2>2 DEF Expanders
  <2> QED BY <1>4, <2>2, <2>3
<1>5. CASE Sent > 1
  <2> DEFINE lat == [p \in Port |->
               IF dev.ptr = reg_of(p, PART_OLAT) THEN b
               ELSE [q \in Port |-> IF dev.ptr = reg_of(q, PART_GPIO) THEN b
                                    ELSE dev.latch[q]][p]]
  <2>1. d = [dev EXCEPT !.ptr = @ + 1,
                        !.dir = [p \in Port |->
                           IF dev.ptr = reg_of(p, PART_IODIR) THEN b ELSE dev.dir[p]],
                        !.latch = lat,
                        !.took = [p \in Port |->
                           IF dev.ptr = reg_of(p, REG_GPIO) THEN b ELSE dev.took[p]]]
    BY <1>1, <1>5 DEF Stored, b
  <2>2. /\ b = IF pc = "config" THEN 0 ELSE g.holding[pc]
        /\ dev.ptr = Base + Sent - 2 /\ dev.ptr \in 0..20
        /\ pc # "config" => Sent = 2 /\ b \in Images
        /\ pc = "config" => Sent \in {2, 3}
    BY <1>1, <1>2, <1>5
       DEF FrameByte, Size, Base, REG_IODIR, REG_GPIO, reg_of, Globals
  <2>3. \A p \in Port :
          /\ dev.ptr = reg_of(p, REG_IODIR)
               <=> pc = "config" /\ Sent = (IF p = "A" THEN 2 ELSE 3)
          /\ dev.ptr = reg_of(p, REG_GPIO) <=> pc = p
    BY <1>2, <2>2 DEF Base, REG_IODIR, REG_GPIO, reg_of, Port
  <2>0. /\ d.phase = dev.phase /\ d.ptr = dev.ptr + 1
        /\ d.dir = [p \in Port |->
             IF dev.ptr = reg_of(p, REG_IODIR) THEN b ELSE dev.dir[p]]
        /\ d.took = [p \in Port |->
             IF dev.ptr = reg_of(p, REG_GPIO) THEN b ELSE dev.took[p]]
        /\ d.latch = lat
    <3> HIDE DEF lat
    <3> QED BY <1>2, <2>1 DEF Expanders, PART_IODIR, REG_IODIR
  <2>4. /\ d.phase = dev.phase /\ d.ptr = dev.ptr + 1
        /\ d.dir = [p \in Port |->
             IF pc = "config" /\ Sent = (IF p = "A" THEN 2 ELSE 3) THEN 0 ELSE dev.dir[p]]
        /\ d.took = [p \in Port |->
             IF pc = p /\ Sent = 2 THEN g.holding[p] ELSE dev.took[p]]
    <3>1. \A p \in Port :
            /\ (IF dev.ptr = reg_of(p, REG_IODIR) THEN b ELSE dev.dir[p])
                 = IF pc = "config" /\ Sent = (IF p = "A" THEN 2 ELSE 3)
                   THEN 0 ELSE dev.dir[p]
            /\ (IF dev.ptr = reg_of(p, REG_GPIO) THEN b ELSE dev.took[p])
                 = IF pc = p /\ Sent = 2 THEN g.holding[p] ELSE dev.took[p]
      <4> TAKE p \in Port
      <4>1. pc = p => pc # "config" BY DEF Port
      <4> QED BY <2>2, <2>3, <4>1
    <3> QED BY <2>0, <3>1
  <2>5. d.dir \in [Port -> 0..1] /\ d.took \in [Port -> Images] /\ d.ptr \in 0..255
    BY <1>2, <2>2, <2>4 DEF Expanders, Globals
  <2>8. lat \in [Port -> Images]
    <3>1. b \in Images
      BY <2>2, BridgeAssumption
    <3>2. dev.latch \in [Port -> Images]
      BY <1>2 DEF Expanders
    <3> QED BY <3>1, <3>2
  <2>6. d \in Expanders
    <3> HIDE DEF lat
    <3> QED BY <1>2, <2>1, <2>0, <2>5, <2>8 DEF Expanders
  <2>7. d.phase = "data" /\ Base \in Nat /\ d.ptr = Base + Sent - 1
    BY <1>1, <1>5, <2>2, <2>4 DEF Base, REG_IODIR, REG_GPIO, reg_of
  <2> QED BY <1>5, <2>4, <2>6, <2>7
<1> QED BY <1>1, <1>3, <1>4, <1>5 DEF Size

-----------------------------------------------------------------------------
(* The initial state and the steps that leave the call alone.              *)
LEMMA Starts == Init => IInv
<1> SUFFICES ASSUME Init
             PROVE  IInv
  OBVIOUS
<1> USE BridgeAssumption DEF Init, Block, Zero, Quiet
<1>1. Typed
  <2>1. g \in Globals /\ xfer \in Transfers
    BY QuietType, BlockType
  <2>2. dev \in Expanders
    BY DEF Expanders
  <2>3. used \in Counts
    BY DEF Counts
  <2> QED BY <2>1, <2>2, <2>3 DEF Typed
<1>2. Course
  BY DEF Course, Port
<1>3. Wire
  BY DEF Wire
<1>4. Errors
  BY DEF Errors, Nacked, Failed
<1>5. Latches
  BY DEF Latches
<1>6. Directions
  BY DEF Directions
<1> QED BY <1>1, <1>2, <1>3, <1>4, <1>5, <1>6 DEF IInv

LEMMA Restart == IInv /\ Reset => IInv'
<1> SUFFICES ASSUME IInv, Reset
             PROVE  IInv'
  OBVIOUS
<1> USE BridgeAssumption DEF Reset, Block, Zero, Quiet
<1>1. Typed'
  <2>1. g' \in Globals /\ xfer' \in Transfers
    BY QuietType, BlockType
  <2>2. used' \in Counts
    BY DEF IInv, Typed, Counts
  <2> QED BY <2>1, <2>2 DEF IInv, Typed
<1>2. Course'
  BY DEF Course, Port
<1>3. Wire'
  BY DEF Wire
<1>4. Errors'
  BY DEF Errors, Nacked, Failed
<1>5. Latches'
  BY DEF Latches, Port
<1>6. Directions'
  BY DEF Directions
<1> QED BY <1>1, <1>2, <1>3, <1>4, <1>5, <1>6 DEF IInv

LEMMA Ticks == IInv /\ Timer2 => IInv'
<1> SUFFICES ASSUME IInv, Timer2
             PROVE  IInv'
  OBVIOUS
<1> USE DEF Timer2
<1>1. Typed'
  BY DEF IInv, Typed
<1>2. Course'
  BY DEF IInv, Course, Size, Base, FrameByte, Sent
<1>3. Wire'
  BY DEF IInv, Wire, Size, Base, Sent, Answered, Nacked
<1>4. Errors'
  BY DEF IInv, Errors, Nacked, Failed
<1>5. Latches'
  BY DEF IInv, Latches, Landed
<1>6. Directions'
  BY DEF IInv, Directions, Size, Sent, Answered, Nacked, Landed
<1> QED BY <1>1, <1>2, <1>3, <1>4, <1>5, <1>6 DEF IInv

LEMMA Dispatches == IInv /\ Dispatch => IInv'
<1> SUFFICES ASSUME IInv, Dispatch
             PROVE  IInv'
  OBVIOUS
<1> USE DEF Dispatch
<1>1. Typed'
  <2>1. ssp' \in [busy: BOOLEAN, flag: BOOLEAN, nack: BOOLEAN]
    BY DEF IInv, Typed
  <2>2. seen' \in [nack: BOOLEAN, stolen: BOOLEAN, unknown: SUBSET Port]
    BY DEF IInv, Typed
  <2> QED BY <2>1, <2>2 DEF IInv, Typed
<1>2. Course'
  BY DEF IInv, Typed, Course, Size, Base, FrameByte, Sent
<1>3. Wire'
  BY DEF IInv, Typed, Wire, Size, Base, Sent, Answered, Nacked
<1>4. Errors'
  BY DEF IInv, Errors, Nacked, Failed
<1>5. Latches'
  BY DEF IInv, Latches, Landed
<1>6. Directions'
  BY DEF IInv, Directions, Size, Sent, Answered, Nacked, Landed
<1> QED BY <1>1, <1>2, <1>3, <1>4, <1>5, <1>6 DEF IInv

LEMMA Conditions == IInv /\ Condition => IInv'
<1> SUFFICES ASSUME IInv, Condition
             PROVE  IInv'
  OBVIOUS
<1> USE DEF Condition, Finish
<1>1. Typed'
  <2>1. ssp' \in [busy: BOOLEAN, flag: BOOLEAN, nack: BOOLEAN]
    BY DEF IInv, Typed
  <2>2. dev' \in Expanders
    BY DEF IInv, Typed, Expanders
  <2> QED BY <2>1, <2>2 DEF IInv, Typed
<1>2. Course'
  BY DEF IInv, Course, Size, Base, FrameByte, Sent
<1>3. Wire'
  BY DEF Wire
<1>4. Errors'
  BY DEF IInv, Errors, Nacked, Failed
<1>5. Latches'
  BY DEF IInv, Latches, Landed
<1>6. Directions'
  BY DEF IInv, Directions, Landed
<1> QED BY <1>1, <1>2, <1>3, <1>4, <1>5, <1>6 DEF IInv

LEMMA Polls == IInv /\ Poll => IInv'
<1> SUFFICES ASSUME IInv, Poll
             PROVE  IInv'
  OBVIOUS
<1> USE BridgeAssumption DEF Poll
<1>1. Typed'
  <2>1. g' \in Globals
    <3>1. ASSUME NEW p \in Port, NEW v \in Images, g' = [g EXCEPT !.holding[p] = v]
          PROVE  g' \in Globals
      BY <3>1 DEF IInv, Typed, Globals
    <3> QED BY <3>1 DEF IInv, Typed
  <2>2. used' \in Counts
    BY DEF IInv, Typed, Counts
  <2> QED BY <2>1, <2>2 DEF IInv, Typed
<1>2. Course'
  BY DEF IInv, Course, Port
<1>3. Wire'
  BY DEF IInv, Typed, Course, Wire, Port, Globals
<1>4. Errors'
  BY DEF IInv, Typed, Errors, Globals, Nacked, Failed
<1>5. Latches'
  BY DEF IInv, Typed, Latches, Port, Globals
<1>6. Directions'
  BY DEF IInv, Typed, Course, Directions, Port, Globals, Landed
<1> QED BY <1>1, <1>2, <1>3, <1>4, <1>5, <1>6 DEF IInv

LEMMA Publishes == IInv /\ Publish => IInv'
<1> SUFFICES ASSUME IInv, Publish
             PROVE  IInv'
  OBVIOUS
<1> USE DEF Publish
<1>1. Typed'
  <2>1. g' \in Globals
    BY DEF IInv, Typed, Globals
  <2> QED BY <2>1 DEF IInv, Typed
<1>2. Course'
  BY DEF IInv, Course, Port
<1>3. Wire'
  BY DEF IInv, Course, Wire, Port
<1>4. Errors'
  BY DEF IInv, Errors, Nacked, Failed
<1>5. Latches'
  BY DEF IInv, Latches, Port
<1>6. Directions'
  BY DEF IInv, Directions
<1> QED BY <1>1, <1>2, <1>3, <1>4, <1>5, <1>6 DEF IInv

-----------------------------------------------------------------------------
(* A byte is taken, or refused; the poll goes on to the next operation.    *)
LEMMA Acknowledges == IInv /\ Acknowledged => IInv'
<1> SUFFICES ASSUME IInv, Acknowledged
             PROVE  IInv'
  OBVIOUS
<1> DEFINE d == Stored(dev, Head(xfer.todo))
<1>1. /\ ssp.busy /\ xfer.op = "byte" /\ dev' = d
      /\ ssp' = [busy |-> FALSE, flag |-> TRUE, nack |-> FALSE]
      /\ UNCHANGED <<g, pc, xfer, t2if, used, seen>>
  BY DEF Acknowledged, Finish
<1>2. /\ d \in Expanders
      /\ d.phase = IF Sent = 0 THEN "reg" ELSE "data"
      /\ Sent > 0 => d.ptr = Base + Sent - 1
      /\ \A p \in Port :
           /\ d.dir[p] = IF pc = "config" /\ Sent = (IF p = "A" THEN 2 ELSE 3)
                         THEN 0 ELSE dev.dir[p]
           /\ d.took[p] = IF pc = p /\ Sent = 2 THEN g.holding[p] ELSE dev.took[p]
  BY <1>1, Effect
<1>3. Sent \in 0..Size - 1
  BY <1>1, NextByte
<1> HIDE DEF d
<1>4. /\ Size' = Size /\ Sent' = Sent /\ Answered' = Sent + 1 /\ Base' = Base
      /\ ~Nacked' /\ ~Failed' /\ (Landed' <=> Sent = Size - 1)
      /\ Size = (IF pc = "config" THEN 4 ELSE 3) /\ Base \in Nat
  <2>1. xfer.todo \in Seq(Nat) /\ Len(xfer.todo) \in Nat
    BY DEF IInv, Typed, Transfers
  <2>2. /\ Size' = Size /\ Sent' = Sent /\ Base' = Base /\ Base \in Nat
        /\ Size = (IF pc = "config" THEN 4 ELSE 3)
    BY <1>1 DEF Size, Sent, Base, REG_IODIR, REG_GPIO, reg_of
  <2>3. Landed' <=> Len(xfer.todo) = 1
    BY <1>1 DEF Landed
  <2>4. Answered' = Sent + 1 /\ ~Nacked' /\ ~Failed'
    BY <1>1, <2>2 DEF Answered, Nacked, Failed
  <2>5. Len(xfer.todo) = 1 <=> Sent = Size - 1
    <3>1. Size \in {3, 4} BY <2>2
    <3> DEFINE n == Len(xfer.todo)
    <3>2. Sent = Size - n /\ n \in Nat BY <2>1 DEF Sent
    <3> HIDE DEF n
    <3>3. n = 1 <=> Sent = Size - 1 BY <3>1, <3>2
    <3> QED BY <3>3 DEF n
  <2> QED BY <2>2, <2>3, <2>4, <2>5
<1>5. Typed'
  BY <1>1, <1>2 DEF IInv, Typed
<1>6. Course'
  BY <1>1 DEF IInv, Course, Size, Base, FrameByte, Sent
<1>7. Wire'
  BY <1>1, <1>2, <1>3, <1>4 DEF Wire
<1>8. Errors'
  BY <1>1, <1>4 DEF IInv, Errors, Failed, Nacked
<1>9. Latches'
  <2>1. ~Landed /\ pc \in {"config"} \cup Port
    BY <1>1 DEF Landed, IInv, Course
  <2>2. ASSUME NEW p \in Port
        PROVE  IF pc = p /\ Landed' THEN d.took[p] = g.holding[p]
               ELSE p \notin seen.unknown => d.took[p] = g.shadow[p]
    <3>1. p \notin seen.unknown => dev.took[p] = g.shadow[p]
      BY <2>1 DEF IInv, Latches
    <3>2. pc = p => Size = 3
      BY <1>4 DEF Port
    <3> QED BY <1>2, <1>3, <1>4, <3>1, <3>2
  <2> QED BY <1>1, <2>2 DEF Latches
<1>10. Directions'
  <2>1. pc = "config" /\ Sent = 3 => dev.dir["A"] = 0
    BY <1>1 DEF IInv, Directions, Answered, Nacked
  <2> QED BY <1>1, <1>2, <1>3, <1>4, <2>1 DEF IInv, Directions, Course, Port
<1> QED BY <1>5, <1>6, <1>7, <1>8, <1>9, <1>10 DEF IInv

LEMMA Refusals == IInv /\ Refused => IInv'
<1> SUFFICES ASSUME IInv, Refused
             PROVE  IInv'
  OBVIOUS
<1> DEFINE d == Stored(dev, Head(xfer.todo))
<1>0. PICK e \in {dev, d} :
        /\ dev' = [e EXCEPT !.phase = "deaf"]
        /\ seen' = [seen EXCEPT !.nack = TRUE,
                       !.unknown = @ \cup {p \in Port : e.took[p] # dev.took[p]}]
  BY DEF Refused
<1>1. /\ ssp.busy /\ xfer.op = "byte"
      /\ ssp' = [busy |-> FALSE, flag |-> TRUE, nack |-> TRUE]
      /\ UNCHANGED <<g, pc, xfer, t2if>>
  BY DEF Refused, Finish
<1>2. /\ d \in Expanders
      /\ \A p \in Port :
           d.dir[p] = IF pc = "config" /\ Sent = (IF p = "A" THEN 2 ELSE 3)
                      THEN 0 ELSE dev.dir[p]
  BY <1>1, Effect
<1>3. used' \in Counts
  BY BridgeAssumption DEF Refused, IInv, Typed, Counts
<1> HIDE DEF d
<1>4. e \in Expanders /\ \A p \in Port : e.dir[p] = 0 \/ e.dir[p] = dev.dir[p]
  BY <1>2 DEF IInv, Typed
<1>5. /\ dev' \in Expanders /\ dev'.phase = "deaf"
      /\ dev'.dir = e.dir /\ dev'.took = e.took
  BY <1>0, <1>4 DEF Expanders
<1>6. /\ seen' \in [nack: BOOLEAN, stolen: BOOLEAN, unknown: SUBSET Port]
      /\ seen'.nack
      /\ \A p \in Port : p \in seen'.unknown
                         <=> p \in seen.unknown \/ e.took[p] # dev.took[p]
  BY <1>0 DEF IInv, Typed
<1>7. IInv'
  <2>1. Typed'
    BY <1>1, <1>3, <1>4, <1>5, <1>6 DEF IInv, Typed, Transfers, Globals, Expanders
  <2>2. Course'
    BY <1>1, <1>3, <1>4, <1>5, <1>6 DEF IInv, Course, Size, Base, FrameByte,
           Sent
  <2>3. Wire'
    BY <1>1, <1>3, <1>4, <1>5, <1>6 DEF Wire, Nacked
  <2>4. Errors'
    BY <1>1, <1>3, <1>4, <1>5, <1>6 DEF IInv, Errors, Nacked, Failed
  <2>5. Latches'
    BY <1>1, <1>3, <1>4, <1>5, <1>6 DEF IInv, Latches, Landed
  <2>6. Directions'
    BY <1>1, <1>3, <1>4, <1>5, <1>6 DEF IInv, Directions, Nacked, Landed
  <2> QED BY <2>1, <2>2, <2>3, <2>4, <2>5, <2>6 DEF IInv
<1> QED BY <1>7

LEMMA Advances == IInv /\ Advance => IInv'
<1> SUFFICES ASSUME IInv, Advance
             PROVE  IInv'
  OBVIOUS
<1>1. /\ ssp.flag /\ ~ssp.busy /\ UNCHANGED <<g, pc, t2if, dev, used, seen>>
      /\ xfer' = After
      /\ IF After.op = "done" THEN ssp' = [ssp EXCEPT !.flag = FALSE]
         ELSE ssp' = [busy |-> TRUE, flag |-> FALSE, nack |-> ssp.nack]
  BY DEF Advance, Issue, IInv, Course
<1>2. xfer \in Transfers
  BY DEF IInv, Typed
<1>3. CASE xfer.op = "start"
  <2>1. /\ xfer'.op = "byte" /\ xfer'.todo = xfer.todo /\ xfer'.ok = xfer.ok
        /\ xfer' \in Transfers /\ ssp' = [busy |-> TRUE, flag |-> FALSE, nack |-> ssp.nack]
    BY <1>1, <1>2, <1>3 DEF After, Transfers
  <2>2. Typed'
    BY <1>1, <1>3, <2>1 DEF IInv, Typed, Transfers, Globals, Expanders
  <2>3. Course'
    BY <1>1, <1>3, <2>1 DEF IInv, Typed, Course, Transfers, Size, Base,
           FrameByte, Sent
  <2>4. Wire'
    BY <1>1, <1>3, <2>1 DEF IInv, Course, Wire, Size, Sent, Answered, Nacked
  <2>5. Errors'
    BY <1>1, <1>3, <2>1 DEF IInv, Errors, Nacked, Failed
  <2>6. Latches'
    BY <1>1, <1>3, <2>1 DEF IInv, Latches, Landed
  <2>7. Directions'
    BY <1>1, <1>3, <2>1 DEF IInv, Course, Directions, Size, Sent, Answered,
           Landed
  <2> QED BY <2>2, <2>3, <2>4, <2>5, <2>6, <2>7 DEF IInv
<1>4. CASE xfer.op = "byte" /\ ssp.nack
  <2>1. /\ xfer'.op = "stop" /\ xfer'.todo = <<>> /\ xfer'.ok = FALSE
        /\ Len(xfer'.todo) = 0 /\ xfer' \in Transfers
        /\ ssp' = [busy |-> TRUE, flag |-> FALSE, nack |-> ssp.nack]
    BY <1>1, <1>2, <1>4 DEF After, Transfers
  <2>2. Typed'
    BY <1>1, <1>4, <2>1 DEF IInv, Typed, Port
  <2>3. Course'
    BY <1>1, <1>4, <2>1 DEF IInv, Course
  <2>4. Wire'
    BY <1>1, <1>4, <2>1 DEF Wire
  <2>5. Errors'
    BY <1>1, <1>4, <2>1 DEF IInv, Errors, Nacked, Failed
  <2>6. Latches'
    BY <1>1, <1>4, <2>1 DEF IInv, Latches, Landed
  <2>7. Directions'
    BY <1>1, <1>4, <2>1 DEF IInv, Directions, Landed
  <2> QED BY <2>2, <2>3, <2>4, <2>5, <2>6, <2>7 DEF IInv
<1>5. CASE xfer.op = "byte" /\ ~ssp.nack /\ Len(xfer.todo) = 1
  <2>1. /\ xfer'.op = "stop" /\ xfer'.todo = <<>> /\ xfer'.ok = TRUE
        /\ Len(xfer'.todo) = 0 /\ xfer' \in Transfers
        /\ ssp' = [busy |-> TRUE, flag |-> FALSE, nack |-> ssp.nack]
    BY <1>1, <1>2, <1>5 DEF After, Transfers
  <2>2. Typed'
    BY <1>1, <1>5, <2>1 DEF IInv, Typed, Port
  <2>3. Course'
    BY <1>1, <1>5, <2>1 DEF IInv, Course
  <2>4. Wire'
    BY <1>1, <1>5, <2>1 DEF Wire
  <2>5. Errors'
    BY <1>1, <1>5, <2>1 DEF IInv, Errors, Nacked, Failed
  <2>6. Latches'
    BY <1>1, <1>5, <2>1 DEF IInv, Latches, Landed
  <2>7. Directions'
    BY <1>1, <1>5, <2>1 DEF IInv, Directions, Landed
  <2> QED BY <2>2, <2>3, <2>4, <2>5, <2>6, <2>7 DEF IInv
<1>6. CASE xfer.op = "byte" /\ ~ssp.nack /\ Len(xfer.todo) > 1
  <2>0. After = [xfer EXCEPT !.todo = Tail(@)]
    <3> DEFINE n == Len(xfer.todo)
    <3>0. n > 1 BY <1>6
    <3> HIDE DEF n
    <3>2. n # 1 BY <3>0
    <3>1. Len(xfer.todo) # 1 BY <3>2 DEF n
    <3> QED BY <1>6, <3>1 DEF After
  <2>1. /\ xfer'.op = "byte" /\ xfer'.todo = Tail(xfer.todo) /\ xfer'.ok = xfer.ok
        /\ ssp' = [busy |-> TRUE, flag |-> FALSE, nack |-> ssp.nack]
    BY <1>1, <1>2, <1>6, <2>0 DEF Transfers
  <2>2. /\ Len(xfer'.todo) = Len(xfer.todo) - 1
        /\ \A j \in 1..Len(xfer.todo) - 1 : xfer'.todo[j] = xfer.todo[j + 1]
        /\ xfer'.todo \in Seq(Nat) /\ Len(xfer.todo) \in Nat
    BY <1>2, <1>6, <2>1, Rest DEF Transfers
  <2>3. xfer' \in Transfers
    <3>1. xfer' = [xfer EXCEPT !.todo = Tail(@)]
      BY <1>1, <1>2, <1>6 DEF After
    <3> QED BY <1>2, <2>1, <2>2, <3>1 DEF Transfers
  <2> DEFINE n == Len(xfer.todo)
  <2>4. /\ n \in 2..Size /\ Len(xfer'.todo) = n - 1 /\ Size' = Size /\ Size \in {3, 4}
        /\ Sent = Size - n /\ Sent' = Size - (n - 1)
    BY <1>1, <1>6, <2>2 DEF IInv, Course, Sent, Size
  <2> HIDE DEF n
  <2>5. Sent' = Sent + 1 /\ Answered' = Sent + 1 /\ Answered = Sent + 1 /\ ~Nacked /\ ~Nacked'
    BY <1>1, <1>6, <2>1, <2>4 DEF Answered, Nacked
  <2>6. Typed'
    BY <1>1, <1>6, <2>1, <2>2, <2>3 DEF IInv, Typed, Port
  <2>7. Course'
    <3>1. \A j \in 1..n - 1 : xfer'.todo[j] = FrameByte(Sent + j + 1)
      <4> TAKE j \in 1..n - 1
      <4>1. j + 1 \in 1..n BY <2>4
      <4>2. xfer'.todo[j] = xfer.todo[j + 1] BY <2>2 DEF n
      <4>3. xfer.todo[j + 1] = FrameByte(Sent + (j + 1)) BY <1>6, <4>1 DEF n, IInv, Course
      <4>4. Sent + (j + 1) = Sent + j + 1 BY <2>4
      <4> QED BY <4>2, <4>3, <4>4
    <3>2. \A j \in 1..n - 1 : xfer'.todo[j] = FrameByte(Sent + j)'
      <4> TAKE j \in 1..n - 1
      <4>1. Sent + j + 1 = Sent' + j BY <2>4, <2>5
      <4>2. FrameByte(Sent + j + 1) = FrameByte(Sent + j)' BY <1>1, <4>1 DEF FrameByte, Base
      <4> QED BY <3>1, <4>2
    <3>3. Len(xfer'.todo) \in 1..Size' /\ Len(xfer'.todo) = n - 1
      BY <2>4
    <3> QED BY <1>1, <1>6, <2>1, <2>4, <3>2, <3>3 DEF IInv, Course
  <2>8. Wire'
    BY <1>1, <1>6, <2>1, <2>4, <2>5 DEF IInv, Wire, Base
  <2>9. Errors'
    BY <1>1, <1>6, <2>1, <2>2, <2>3 DEF IInv, Errors, Nacked, Failed
  <2>10. Latches'
    BY <1>1, <1>6, <2>1, <2>2, <2>3 DEF IInv, Course, Latches, Landed
  <2>11. Directions'
    BY <1>1, <1>6, <2>1, <2>2, <2>3 DEF IInv, Directions, Size, Sent, Answered,
           Nacked, Landed
  <2> QED BY <2>6, <2>7, <2>8, <2>9, <2>10, <2>11 DEF IInv
<1>7. CASE xfer.op = "stop"
  <2>1. /\ xfer'.op = "done" /\ xfer'.todo = xfer.todo /\ xfer'.ok = xfer.ok
        /\ xfer' \in Transfers
        /\ ssp' = [ssp EXCEPT !.flag = FALSE]
    BY <1>1, <1>2, <1>7 DEF After, Transfers
  <2>2. Typed'
    BY <1>1, <1>7, <2>1 DEF IInv, Typed, Port
  <2>3. Course'
    BY <1>1, <1>7, <2>1 DEF IInv, Course
  <2>4. Wire'
    BY <1>1, <1>7, <2>1 DEF IInv, Wire
  <2>5. Errors'
    BY <1>1, <1>7, <2>1 DEF IInv, Errors, Nacked, Failed
  <2>6. Latches'
    BY <1>1, <1>7, <2>1 DEF IInv, Latches, Landed
  <2>7. Directions'
    BY <1>1, <1>7, <2>1 DEF IInv, Directions, Landed
  <2> QED BY <2>2, <2>3, <2>4, <2>5, <2>6, <2>7 DEF IInv
<1>8. xfer.op \notin {"none", "done"}
  BY <1>1 DEF IInv, Course
<1>9. xfer.op = "byte" => Len(xfer.todo) \in Nat \ {0}
  BY <1>2 DEF IInv, Course, Transfers, Size
<1>10. xfer.op = "byte" => Len(xfer.todo) = 1 \/ Len(xfer.todo) > 1
  <2> DEFINE n == Len(xfer.todo)
  <2>1. xfer.op = "byte" => n \in Nat \ {0} BY <1>9
  <2> HIDE DEF n
  <2>2. xfer.op = "byte" => n = 1 \/ n > 1 BY <2>1
  <2> QED BY <2>2 DEF n
<1> QED BY <1>2, <1>3, <1>4, <1>5, <1>6, <1>7, <1>8, <1>10 DEF Transfers

-----------------------------------------------------------------------------
(* The calls.                                                              *)
LEMMA ConfigCalls == IInv /\ ConfigCall => IInv'
<1> SUFFICES ASSUME IInv, ConfigCall
             PROVE  IInv'
  OBVIOUS
<1> DEFINE t == <<2 * EXP_ADDR, REG_IODIR>> \o <<0, 0>>
<1>1. /\ pc = "config" /\ xfer.op = "none" /\ ~g.expCfg
      /\ xfer' = [op |-> "start", todo |-> t, ok |-> TRUE]
      /\ ssp' = [busy |-> TRUE, flag |-> FALSE, nack |-> ssp.nack]
      /\ UNCHANGED <<g, pc, t2if, dev, used, seen>>
  BY DEF ConfigCall, MemWrite, Issue
<1>2. /\ t \in Seq(Nat) /\ Len(t) = 4
      /\ t[1] = 2 * EXP_ADDR /\ t[2] = REG_IODIR /\ t[3] = 0 /\ t[4] = 0
  BY FrameOfConfig
<1>3. /\ xfer'.op = "start" /\ xfer'.todo = t /\ xfer'.ok = TRUE
      /\ xfer' \in Transfers
  BY <1>1, <1>2 DEF Transfers
<1> HIDE DEF t
<1>4. Typed'
  BY <1>1, <1>2, <1>3 DEF IInv, Typed, Port
<1>5. Course'
  <2>1. Size' = Len(t) /\ Sent' = 0
    BY <1>1, <1>2, <1>3 DEF Size, Sent, Port
  <2>2. \A j \in 1..Len(t) : t[j] = FrameByte(j)'
    BY <1>1, <1>2 DEF FrameByte, Base, Port
  <2>3. \A j \in 1..Len(t) : t[j] = FrameByte(Sent + j)'
    <3> TAKE j \in 1..Len(t)
    <3>1. j \in Nat /\ Sent' + j = j BY <1>2, <2>1
    <3>2. FrameByte(Sent + j)' = FrameByte(j)' BY <3>1 DEF FrameByte
    <3> QED BY <2>2, <3>2
  <2>4. Len(t) \in 1..Size' BY <1>2, <2>1
  <2> QED BY <1>1, <1>3, <2>1, <2>3, <2>4 DEF IInv, Course, Port
<1>6. Wire'
  BY <1>1, <1>2, <1>3 DEF Wire
<1>7. Errors'
  BY <1>1, <1>2, <1>3 DEF IInv, Errors, Nacked, Failed
<1>8. Latches'
  BY <1>1, <1>2, <1>3 DEF IInv, Course, Latches
<1>9. Directions'
  BY <1>1, <1>2, <1>3 DEF Directions, Landed
<1> QED BY <1>4, <1>5, <1>6, <1>7, <1>8, <1>9 DEF IInv

LEMMA PortCalls == ASSUME NEW p \in Port PROVE IInv /\ PortCall(p) => IInv'
<1> SUFFICES ASSUME IInv, PortCall(p)
             PROVE  IInv'
  OBVIOUS
<1> DEFINE t == <<2 * EXP_ADDR, reg_of(p, REG_GPIO)>> \o <<g.holding[p]>>
<1>1. /\ pc = p /\ xfer.op = "none"
      /\ xfer' = [op |-> "start", todo |-> t, ok |-> TRUE]
      /\ ssp' = [busy |-> TRUE, flag |-> FALSE, nack |-> ssp.nack]
      /\ UNCHANGED <<g, pc, t2if, dev, used, seen>>
  BY DEF PortCall, MemWrite, Issue
<1>2. /\ t \in Seq(Nat) /\ Len(t) = 3
      /\ t[1] = 2 * EXP_ADDR /\ t[2] = reg_of(p, REG_GPIO) /\ t[3] = g.holding[p]
  <2>1. g.holding[p] \in Nat
    BY BridgeAssumption DEF IInv, Typed, Globals
  <2>2. reg_of(p, REG_GPIO) \in Nat
    BY DEF reg_of, REG_GPIO
  <2> QED BY <2>1, <2>2, FrameOfPort
<1>3. /\ xfer'.op = "start" /\ xfer'.todo = t /\ xfer'.ok = TRUE
      /\ xfer' \in Transfers
  BY <1>1, <1>2 DEF Transfers
<1> HIDE DEF t
<1>4. Typed'
  BY <1>1, <1>2, <1>3 DEF IInv, Typed, Port
<1>5. Course'
  <2>1. Size' = Len(t) /\ Sent' = 0
    BY <1>1, <1>2, <1>3 DEF Size, Sent, Port
  <2>2. \A j \in 1..Len(t) : t[j] = FrameByte(j)'
    BY <1>1, <1>2 DEF FrameByte, Base, Port
  <2>3. \A j \in 1..Len(t) : t[j] = FrameByte(Sent + j)'
    <3> TAKE j \in 1..Len(t)
    <3>1. j \in Nat /\ Sent' + j = j BY <1>2, <2>1
    <3>2. FrameByte(Sent + j)' = FrameByte(j)' BY <3>1 DEF FrameByte
    <3> QED BY <2>2, <3>2
  <2>4. Len(t) \in 1..Size' BY <1>2, <2>1
  <2> QED BY <1>1, <1>3, <2>1, <2>3, <2>4 DEF IInv, Course, Port
<1>6. Wire'
  BY <1>1, <1>2, <1>3 DEF Wire
<1>7. Errors'
  BY <1>1, <1>2, <1>3 DEF IInv, Errors, Nacked, Failed
<1>8. Latches'
  BY <1>1, <1>2, <1>3 DEF IInv, Latches, Landed
<1>9. Directions'
  BY <1>1, <1>2, <1>3 DEF IInv, Directions, Port
<1> QED BY <1>4, <1>5, <1>6, <1>7, <1>8, <1>9 DEF IInv

LEMMA ConfigReturns == IInv /\ ConfigDone => IInv'
<1> SUFFICES ASSUME IInv, ConfigDone
             PROVE  IInv'
  OBVIOUS
<1>1. /\ pc = "config" /\ xfer' = Quiet /\ pc' = "A"
      /\ UNCHANGED <<ssp, t2if, dev, used, seen>>
  BY DEF ConfigDone
<1>2. CASE xfer.op = "none" /\ g.expCfg /\ UNCHANGED g
  <2>1. Typed'
    BY <1>1, <1>2, QuietType DEF IInv, Typed, Port
  <2>2. Course'
    BY <1>1, <1>2, QuietType DEF IInv, Course
  <2>3. Wire'
    BY <1>1, <1>2, QuietType DEF IInv, Wire
  <2>4. Errors'
    BY <1>1, <1>2, QuietType DEF IInv, Errors, Nacked, Failed
  <2>5. Latches'
    BY <1>1, <1>2, QuietType DEF IInv, Latches, Landed
  <2>6. Directions'
    BY <1>1, <1>2, QuietType DEF IInv, Directions
  <2> QED BY <2>1, <2>2, <2>3, <2>4, <2>5, <2>6 DEF IInv
<1>3. CASE xfer.op = "done" /\ g' = Configured(g, xfer.ok)
  <2>1. /\ g' \in Globals /\ g'.holding = g.holding /\ g'.shadow = g.shadow
        /\ g'.expCfg = TRUE /\ g'.err = (g.err \/ ~xfer.ok)
    BY <1>3 DEF IInv, Typed, Configured, Globals, Transfers
  <2>2. Typed'
    BY <1>1, <1>3, <2>1, QuietType DEF IInv, Typed, Port
  <2>3. Course'
    BY <1>1, <1>3, <2>1, QuietType DEF IInv, Course
  <2>4. Wire'
    BY <1>1, <1>3, <2>1, QuietType DEF IInv, Wire
  <2>5. Errors'
    BY <1>1, <1>3, <2>1, QuietType DEF IInv, Errors, Nacked, Failed
  <2>6. Latches'
    BY <1>1, <1>3, <2>1, QuietType DEF IInv, Course, Latches, Landed
  <2>7. Directions'
    BY <1>1, <1>3, <2>1, QuietType DEF IInv, Directions, Landed
  <2> QED BY <2>2, <2>3, <2>4, <2>5, <2>6, <2>7 DEF IInv
<1> QED BY <1>2, <1>3 DEF ConfigDone

LEMMA PortReturns == ASSUME NEW p \in Port PROVE IInv /\ PortDone(p) => IInv'
<1> SUFFICES ASSUME IInv, PortDone(p)
             PROVE  IInv'
  OBVIOUS
<1>1. /\ pc = p /\ xfer' = Quiet /\ pc' = IF p = "A" THEN "B" ELSE "publish"
      /\ UNCHANGED <<ssp, t2if, dev, used>>
  BY DEF PortDone
<1>2. CASE xfer.op = "none" /\ UNCHANGED <<g, seen>>
  <2>1. Typed'
    BY <1>1, <1>2, QuietType DEF IInv, Typed, Port
  <2>2. Course'
    BY <1>1, <1>2, QuietType DEF IInv, Course
  <2>3. Wire'
    BY <1>1, <1>2, QuietType DEF IInv, Wire
  <2>4. Errors'
    BY <1>1, <1>2, QuietType DEF IInv, Errors, Nacked, Failed
  <2>5. Latches'
    BY <1>1, <1>2, QuietType DEF IInv, Latches, Landed
  <2>6. Directions'
    BY <1>1, <1>2, QuietType DEF IInv, Directions
  <2> QED BY <2>1, <2>2, <2>3, <2>4, <2>5, <2>6 DEF IInv
<1>3. CASE /\ xfer.op = "done"
            /\ g' = Written(g, p, xfer.ok)
            /\ seen' = [seen EXCEPT !.unknown = IF xfer.ok THEN @ \ {p} ELSE @]
  <2>1. /\ g' \in Globals /\ g'.holding = g.holding
        /\ g'.shadow = IF xfer.ok THEN [g.shadow EXCEPT ![p] = g.holding[p]] ELSE g.shadow
        /\ g'.expCfg = g.expCfg /\ g'.err = (g.err \/ ~xfer.ok)
    BY <1>3 DEF IInv, Typed, Written, Globals, Transfers
  <2>2. /\ seen' \in [nack: BOOLEAN, stolen: BOOLEAN, unknown: SUBSET Port]
        /\ seen'.nack = seen.nack
        /\ seen'.unknown = IF xfer.ok THEN seen.unknown \ {p} ELSE seen.unknown
    BY <1>3 DEF IInv, Typed
  <2>3. Typed'
    BY <1>1, <1>3, <2>1, <2>2, QuietType DEF IInv, Typed, Port
  <2>4. Course'
    BY <1>1, <1>3, <2>1, <2>2, QuietType DEF IInv, Course
  <2>5. Wire'
    BY <1>1, <1>3, <2>1, <2>2, QuietType DEF IInv, Wire
  <2>6. Errors'
    BY <1>1, <1>3, <2>1, <2>2, QuietType DEF IInv, Errors, Nacked, Failed
  <2>7. Latches'
    BY <1>1, <1>3, <2>1, <2>2, QuietType DEF IInv, Latches, Globals, Landed
  <2>8. Directions'
    BY <1>1, <1>3, <2>1, <2>2, QuietType DEF IInv, Directions
  <2> QED BY <2>3, <2>4, <2>5, <2>6, <2>7, <2>8 DEF IInv
<1> QED BY <1>2, <1>3 DEF PortDone

-----------------------------------------------------------------------------
LEMMA Stutters == IInv /\ UNCHANGED vars => IInv'
<1> SUFFICES ASSUME IInv, UNCHANGED vars
             PROVE  IInv'
  OBVIOUS
<1> USE DEF vars
<1>1. Typed'
  BY DEF IInv, Typed
<1>2. Course'
  BY DEF IInv, Course, Size, Base, FrameByte, Sent
<1>3. Wire'
  BY DEF IInv, Wire, Size, Base, Sent, Answered, Nacked
<1>4. Errors'
  BY DEF IInv, Errors, Nacked, Failed
<1>5. Latches'
  BY DEF IInv, Latches, Landed
<1>6. Directions'
  BY DEF IInv, Directions, Size, Sent, Answered, Nacked, Landed
<1> QED BY <1>1, <1>2, <1>3, <1>4, <1>5, <1>6 DEF IInv

LEMMA BridgeInvariance == Spec => []IInv
<1>1. Init => IInv
  BY Starts
<1>2. IInv /\ [Next]_vars => IInv'
  BY Restart, Ticks, Dispatches, Conditions, Acknowledges, Refusals, Advances,
     Polls, ConfigCalls, ConfigReturns, PortCalls, PortReturns, Publishes, Stutters
     DEF Next, Main, Hardware, Task
<1> QED BY <1>1, <1>2, PTL DEF Spec

-----------------------------------------------------------------------------
(* The state of demo, bus and expander is well formed; in particular no    *)
(* value that is not an image ever reaches a latch, whichever it reaches.  *)
THEOREM BridgeTypes == Spec => []TypeOK
<1>1. IInv => TypeOK
  BY Types DEF IInv
<1> QED BY <1>1, BridgeInvariance, PTL

(* Whatever byte of whatever call was refused, epic_bus_i2c_mem_write has   *)
(* sent STOP before it returns.                                             *)
THEOREM BridgeBusFreed == Spec => []BusFreed
<1>1. IInv => BusFreed
  BY DEF IInv, Wire, BusFreed
<1> QED BY <1>1, BridgeInvariance, PTL

(* The shadows of the bridge task are what the expander last took at the    *)
(* addresses the driver has for the ports, wherever a call fails, on every  *)
(* port for which it took no byte behind the task's back.  (What the ports  *)
(* then drive is another matter: see BridgeLatchesShifted.)                 *)
THEOREM BridgeShadowTrue == Spec => []ShadowTrue
<1>1. IInv => ShadowTrue
  BY DEF IInv, Latches, ShadowTrue, Port
<1> QED BY <1>1, BridgeInvariance, PTL

(* The driver's port addresses are one below the part's: no write of        *)
(* epic_mcp23x17_write_port ever drives port B, and those meant for port B  *)
(* drive port A.                                                            *)
THEOREM BridgeLatchesShifted == Spec => []LatchesShifted
<1>1. Init => LatchesShifted
  BY DEF Init, Zero, Port, LatchesShifted
<1>2. ASSUME IInv, LatchesShifted, [Next]_vars
      PROVE  LatchesShifted'
  <2> DEFINE d == Stored(dev, Head(xfer.todo))
             Shifted(e) == e.latch["A"] = e.took["B"] /\ e.latch["B"] = 0
  <2>1. ASSUME ssp.busy, xfer.op = "byte" PROVE Shifted(d)
    <3> HIDE DEF Shifted
    <3>1. dev \in Expanders /\ Shifted(dev)
      BY <1>2 DEF IInv, Typed, LatchesShifted, Shifted
    <3>2. CASE dev.phase # "data"
      <4>1. d.latch = dev.latch /\ d.took = dev.took
        BY <2>1, <3>1, <3>2, NextByte, <1>2 DEF Stored, Expanders
      <4> QED BY <3>1, <4>1 DEF Shifted
    <3>3. CASE dev.phase = "data"
      <4>1. Sent \in 2..Size - 1 /\ dev.ptr = Base + Sent - 2
        BY <1>2, <2>1, <3>3, NextByte
      <4>2. pc \in {"config", "A", "B"}
        BY <1>2, <2>1 DEF IInv, Course, Port
      <4>3. dev.ptr \in {0, 1, 17, 18}
        BY <4>1, <4>2 DEF Base, Size, REG_IODIR, REG_GPIO, reg_of
      <4>4. /\ d.latch = [p \in Port |-> IF dev.ptr = reg_of(p, PART_OLAT) THEN Head(xfer.todo)
                          ELSE IF dev.ptr = reg_of(p, PART_GPIO) THEN Head(xfer.todo)
                          ELSE dev.latch[p]]
            /\ d.took = [p \in Port |-> IF dev.ptr = reg_of(p, REG_GPIO) THEN Head(xfer.todo)
                         ELSE dev.took[p]]
        BY <3>1, <3>3 DEF Stored, Port, Expanders
      <4> HIDE DEF d
      <4>5. /\ d.latch["A"] = IF dev.ptr = 18 THEN Head(xfer.todo) ELSE dev.latch["A"]
            /\ d.latch["B"] = dev.latch["B"]
            /\ d.took["B"] = IF dev.ptr = 18 THEN Head(xfer.todo) ELSE dev.took["B"]
        <5>1. reg_of("A", PART_OLAT) = 20 /\ reg_of("B", PART_OLAT) = 21
          BY DEF reg_of, PART_OLAT
        <5>2. reg_of("A", PART_GPIO) = 18 /\ reg_of("B", PART_GPIO) = 19 /\ reg_of("B", REG_GPIO) = 18
          BY DEF reg_of, PART_GPIO, REG_GPIO
        <5> QED BY <4>3, <4>4, <5>1, <5>2 DEF Port
      <4> QED BY <3>1, <4>5 DEF Shifted
    <3> QED BY <3>2, <3>3
  <2>2. ASSUME Acknowledged PROVE Shifted(dev')
    BY <2>1, <2>2 DEF Acknowledged
  <2>3. ASSUME Refused PROVE Shifted(dev')
    <3>1. PICK e \in {dev, d} : dev' = [e EXCEPT !.phase = "deaf"]
      BY <2>3 DEF Refused
    <3>2. Shifted(e) /\ e \in Expanders
      BY <1>2, <2>1, <2>3, Effect DEF Refused, LatchesShifted, IInv, Typed
    <3> QED BY <3>1, <3>2 DEF Expanders
  <2>4. ASSUME Condition PROVE Shifted(dev')
    BY <1>2, <2>4 DEF Condition, LatchesShifted, IInv, Typed, Expanders
  <2>5. CASE UNCHANGED dev
    BY <1>2, <2>5 DEF LatchesShifted
  <2> QED BY <1>2, <2>2, <2>3, <2>4, <2>5 DEF LatchesShifted, Next, Main, Hardware, Task, Advance, Poll,
             ConfigCall, ConfigDone, Publish, PortCall, PortDone, Timer2, Dispatch, Reset, vars
<1> QED BY <1>1, <1>2, BridgeInvariance, PTL DEF Spec

(* A failure to make the ports outputs is published, although expander_sync *)
(* never makes that call again.                                             *)
THEOREM BridgeDrivenOrError == Spec => []DrivenOrError
<1>1. IInv => DrivenOrError
  BY DEF IInv, Errors, Directions, DrivenOrError
<1> QED BY <1>1, BridgeInvariance, PTL

(* The error bit of the heartbeat says exactly whether a byte was refused.  *)
THEOREM BridgeErrorShown == Spec => []ErrorShown
<1>1. ASSUME IInv, pc = "idle"
      PROVE  g.status <=> seen.nack
  <2>1. xfer.op = "none"
    BY <1>1 DEF IInv, Course, Port
  <2>2. ~Failed
    BY <2>1 DEF Failed, Nacked
  <2> QED BY <1>1, <2>2 DEF IInv, Errors
<1>2. IInv => ErrorShown
  BY <1>1 DEF ErrorShown
<1> QED BY <1>2, BridgeInvariance, PTL
=============================================================================
