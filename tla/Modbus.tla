------------------------------- MODULE Modbus -------------------------------
(***************************************************************************)
(* The Modbus RTU slave of lib/modbus on a bus with one master: the frame  *)
(* buffer that epic_modbus_slave_poll fills from the serial ring, the end  *)
(* of a frame told from silence by the millisecond tick, process_frame,    *)
(* and the answer sent under the RS-485 driver enable.                     *)
(*                                                                         *)
(* Time is counted in units, the time of one character; a character of the *)
(* model stands for several of the line, and is known by the request it    *)
(* belongs to and its place in it.  The CRC is ideal: it passes a frame    *)
(* that is one whole request and nothing else.  What a request asks for is *)
(* chosen when its frame is processed.                                     *)
(*                                                                         *)
(* While epic_serial_write and epic_serial_flush wait, they call the       *)
(* dispatcher from the main line with interrupts on, and both it and the   *)
(* service routine may take from the transmit ring (module Serial follows  *)
(* that race access by access): Race is what it does to the ring.          *)
(***************************************************************************)
EXTENDS ModbusPdu

CONSTANTS
  Requests,     (* the requests a master may send                          *)
  NumCoils, NumRegs,
  Ring, TxRing, (* the rings of lib/serial, in characters                  *)
  Wrapped,      (* 255, the count of an empty ring less one, in characters *)
  Adu,          (* s_frame, in characters                                  *)
  Whole, Big,   (* characters of a request, of an oversized one            *)
  Reply,        (* characters of an answer                                 *)
  Ms,           (* units in a tick                                         *)
  T35,          (* s_t3_5_ms                                               *)
  Pause,        (* units the master may pause inside a frame               *)
  Gap,          (* units of silence before the master sends                *)
  Timeout,      (* units the master waits for an answer                    *)
  Prompt, Late, (* units between two polls of a prompt, of a late program  *)
  CallTime,     (* units a poll takes when it does not wait                *)
  MaxAsk        (* bound: requests sent                                    *)

ASSUME ModbusAssumption ==
  /\ Requests \subseteq [fc : Nat, start : Nat, qty : Nat, value : Nat, bytes : Nat,
                          data : Seq(Nat), len : Nat]
  /\ NumCoils \in Nat /\ NumRegs \in Nat
  /\ \A n \in {Ring, TxRing, Whole, Reply, Ms, T35, Gap, Timeout} : n \in Nat \ {0}
  /\ Wrapped \in Nat /\ TxRing <= Wrapped
  /\ \A n \in {Adu, Big, Pause, Prompt, Late, CallTime, MaxAsk} : n \in Nat
  /\ Whole <= Adu /\ Adu < Big
  (* a pause, and what a poll adds to it, is shorter than the silence      *)
  /\ 1 + Pause + CallTime <= (T35 - 1) * Ms

Dests == {"us", "all", "other", "big"}

VARIABLES
  asked, dest,      (* requests begun, and whom each is for                *)
  mst, pos, gap,    (* master: state, characters sent, units since         *)
  hit,              (* the request a fault on the line has hit, or 0       *)
  ring,             (* the receive ring                                    *)
  txq, busy, left,  (* transmit ring, shift register, not yet in the ring  *)
  torn,             (* history: both have taken from the transmit ring     *)
  frame, elapsed,   (* s_frame, ticks since s_last_rx_tick (capped)        *)
  dirOn, dir,       (* s_dir_configured, the driver enable pin             *)
  phase,            (* units since the last tick                           *)
  pc, surplus,      (* poll: next step, avail - space                      *)
  since,            (* units since the last poll, or in this one           *)
  late,             (* the program polls late                              *)
  served, request, map, answers  (* history of process_frame; the tables   *)

master == <<asked, dest, mst, pos, gap, hit>>
uart   == <<ring, txq, busy, left>>
slave  == <<frame, elapsed, dirOn, dir>>
time   == <<phase, since>>
poll   == <<pc, surplus>>
work   == <<served, request, map, answers>>
vars   == <<master, uart, slave, time, poll, late, torn, work>>

None    == [kind |-> "none"]
Len1(d) == IF d = "big" THEN Big ELSE Whole

-----------------------------------------------------------------------------
(* The master: any request after a silence; then an answer or a timeout.   *)
Ask(d) ==
  /\ mst = "rest" /\ gap >= Gap /\ asked < MaxAsk
  /\ asked' = asked + 1 /\ dest' = [dest EXCEPT ![asked + 1] = d]
  /\ mst' = "send" /\ pos' = 0 /\ gap' = 1
  /\ UNCHANGED <<hit, uart, slave, time, poll, late, torn, work>>

(* epic_serial_on_rx drops a character that finds the ring full.  With the *)
(* driver enabled the receiver of the transceiver is off.                  *)
Receive(c) == ring' = IF Len(ring) < Ring /\ ~dir THEN Append(ring, c) ELSE ring

(* A character, whole or hit: a fault garbles it or swallows it.           *)
Send ==
  /\ mst = "send" /\ gap >= 1
  /\ pos' = pos + 1 /\ gap' = 0
  /\ mst' = IF pos + 1 = Len1(dest[asked]) THEN "wait" ELSE "send"
  /\ \/ Receive(<<asked, pos + 1>>) /\ UNCHANGED hit
     \/ hit = 0 /\ hit' = asked /\ (Receive(<<asked, 0>>) \/ UNCHANGED ring)
  /\ UNCHANGED <<asked, dest, txq, busy, left, slave, time, poll, late, torn, work>>

(* An answer is waited for from this slave; what another one answers is    *)
(* one more frame that is not for us.                                      *)
Patience == IF dest[asked] \in {"us", "big"} THEN Timeout ELSE Gap

GiveUp ==
  /\ mst = "wait" /\ gap = Patience
  /\ mst' = "rest" /\ gap' = Gap
  /\ UNCHANGED <<asked, dest, pos, hit, uart, slave, time, poll, late, torn, work>>

-----------------------------------------------------------------------------
(* epic_modbus_slave_poll, one step per access to what interrupts share.   *)
Step(p, q) == pc = p /\ pc' = q
Steady     == UNCHANGED <<master, phase, late, torn, dirOn>>

(* Mutation of Poll: the time is taken whether or not there was a character. *)
PollStamps ==
  /\ pc = "rest" /\ since' = 0
  /\ request' = None
  /\ pc' = "read" /\ surplus' = 0
  /\ Steady /\ UNCHANGED <<uart, frame, elapsed, dir, served, map, answers>>

Poll ==
  /\ pc = "rest" /\ since' = 0
  /\ request' = None
  /\ LET space == Adu - Len(frame)
     IN  \/ /\ ring = << >> /\ pc' = "check" /\ UNCHANGED surplus
         \/ /\ ring # << >> /\ pc' = "read"
            /\ surplus' = IF Len(ring) > space THEN Len(ring) - space ELSE 0
  /\ Steady /\ UNCHANGED <<uart, frame, elapsed, dir, served, map, answers>>

Read ==
  /\ pc = "read"
  /\ \/ /\ Len(frame) < Adu /\ ring # << >>
        /\ frame' = Append(frame, Head(ring)) /\ ring' = Tail(ring)
        /\ UNCHANGED pc
     \/ /\ Len(frame) = Adu \/ ring = << >>
        /\ pc' = "drain"
        /\ UNCHANGED <<frame, ring>>
  /\ Steady /\ UNCHANGED <<txq, busy, left, elapsed, dir, since, surplus, work>>

(* Mutation of Drain: what does not fit is left in the ring.               *)
DrainNothing ==
  /\ pc = "drain"
  /\ pc' = "stamp" /\ surplus' = 0
  /\ Steady /\ UNCHANGED <<uart, frame, elapsed, dir, since, work>>

Drain ==
  /\ pc = "drain"
  /\ \/ /\ surplus > 0 /\ ring # << >>
        /\ ring' = Tail(ring) /\ surplus' = surplus - 1
        /\ UNCHANGED pc
     \/ /\ surplus = 0 \/ ring = << >>
        /\ pc' = "stamp" /\ surplus' = 0
        /\ UNCHANGED ring
  /\ Steady /\ UNCHANGED <<txq, busy, left, frame, elapsed, dir, since, work>>

(* Mutation of Stamp: the time of the first characters is kept.            *)
StampFirst ==
  /\ Step("stamp", "check")
  /\ elapsed' = IF Len(frame) > 1 THEN elapsed ELSE 0
  /\ Steady /\ UNCHANGED <<uart, frame, dir, since, surplus, work>>

Stamp ==
  /\ Step("stamp", "check")
  /\ elapsed' = 0
  /\ Steady /\ UNCHANGED <<uart, frame, dir, since, surplus, work>>

(* Mutation of Silent: the silence is told twice as long.                  *)
SilentTwice == frame # << >> /\ elapsed >= 2 * T35

(* The end of a frame: T3.5 after the poll that last found a character.    *)
Silent == frame # << >> /\ elapsed >= T35

Check ==
  /\ pc = "check" /\ ~Silent
  /\ pc' = "rest" /\ since' = 0
  /\ Steady /\ UNCHANGED <<uart, frame, elapsed, dir, surplus, work>>

(* process_frame: the CRC and the address.                                 *)
FrameOf(n) == frame = [k \in 1 .. Whole |-> <<n, k>>] /\ dest[n] # "big"
Accepted   == \E n \in 1 .. asked : FrameOf(n) /\ dest[n] \in {"us", "all"}

(* Mutation of Reject: the buffer is reset after a good frame only.        *)
RejectKeep ==
  /\ pc = "check" /\ Silent /\ ~Accepted
  /\ pc' = "rest" /\ since' = 0
  /\ Steady /\ UNCHANGED <<uart, frame, elapsed, dir, surplus, work>>

Reject ==
  /\ pc = "check" /\ Silent /\ ~Accepted
  /\ frame' = << >> /\ pc' = "rest" /\ since' = 0
  /\ Steady /\ UNCHANGED <<uart, elapsed, dir, surplus, work>>

Act(n, r) ==
  LET done   == Handle(r, map)
      silent == done.resp = Dropped \/ dest[n] = "all"
  IN  /\ served' = n /\ request' = r /\ map' = done.map
      /\ IF silent THEN pc' = "rest" /\ UNCHANGED <<left, answers>>
         ELSE /\ pc' = "enable" /\ left' = Reply
              /\ answers' = Append(answers, done.resp)

(* Mutation of Process: the frame is not reset after it was processed.     *)
ProcessKeep ==
  /\ pc = "check" /\ Silent
  /\ \E n \in 1 .. asked, r \in Requests :
       FrameOf(n) /\ dest[n] \in {"us", "all"} /\ Act(n, r)
  /\ since' = 0
  /\ Steady /\ UNCHANGED <<ring, txq, busy, frame, elapsed, dir, surplus>>

Process ==
  /\ pc = "check" /\ Silent
  /\ \E n \in 1 .. asked, r \in Requests :
       FrameOf(n) /\ dest[n] \in {"us", "all"} /\ Act(n, r)
  /\ frame' = << >> /\ since' = 0
  /\ Steady /\ UNCHANGED <<ring, txq, busy, elapsed, dir, surplus>>

-----------------------------------------------------------------------------
(* send_response: the driver, epic_serial_write, epic_serial_flush.        *)
Enable ==
  /\ Step("enable", "write")
  /\ dir' = dirOn
  /\ Steady /\ UNCHANGED <<uart, frame, elapsed, since, surplus, work>>

(* Mutation of Write: no room is waited for.                               *)
WriteAnyway ==
  /\ Step("write", "write") /\ left > 0
  /\ left' = left - 1
  /\ busy' = TRUE
  /\ txq' = IF busy THEN txq + 1 ELSE txq
  /\ Steady /\ UNCHANGED <<ring, frame, elapsed, dir, since, surplus, work>>

Write ==
  /\ Step("write", "write") /\ left > 0 /\ txq < TxRing
  /\ left' = left - 1
  /\ busy' = TRUE
  /\ txq' = IF busy THEN txq + 1 ELSE txq
  /\ Steady /\ UNCHANGED <<ring, frame, elapsed, dir, since, surplus, work>>

Written ==
  /\ pc = "write" /\ left = 0
  /\ pc' = IF dirOn THEN "flush" ELSE "rest"
  /\ since' = 0
  /\ Steady /\ UNCHANGED <<uart, frame, elapsed, dir, surplus, work>>

(* Mutation of Release: the last character is not waited for.              *)
ReleaseEarly ==
  /\ Step("flush", "rest") /\ txq = 0
  /\ dir' = FALSE /\ since' = 0
  /\ Steady /\ UNCHANGED <<uart, frame, elapsed, surplus, work>>

Release ==
  /\ Step("flush", "rest") /\ txq = 0 /\ ~busy
  /\ dir' = FALSE /\ since' = 0
  /\ Steady /\ UNCHANGED <<uart, frame, elapsed, surplus, work>>

(* The loop of write while the ring is full, and those of flush.           *)
WaitsFull  == pc = "write" /\ left > 0 /\ txq >= TxRing
WaitsEmpty == pc = "flush" /\ (txq > 0 \/ busy)
Waiting    == WaitsFull \/ WaitsEmpty

(* The dispatch of a waiting loop has found TXIF up and a byte in the ring *)
(* when the service routine takes one, and then it takes one itself: one   *)
(* of the two is overwritten in TXREG, or both are the same, and if there  *)
(* was only one the count goes round.  What the ring holds is no longer    *)
(* the answer: the first race of a run is modelled.                        *)
Race ==
  /\ Waiting /\ txq > 0 /\ ~torn
  /\ torn' = TRUE
  /\ txq' = txq - 1 \/ (txq = 1 /\ txq' = Wrapped)
  /\ UNCHANGED <<master, ring, busy, left, slave, time, poll, late, work>>

Main == Poll \/ Read \/ Drain \/ Stamp \/ Check \/ Reject \/ Process
        \/ Enable \/ Write \/ Written \/ Release

-----------------------------------------------------------------------------
(* A unit passes: a character leaves, the last of an answer ends the wait  *)
(* of the master; the tick may count.  Time waits for the master inside a  *)
(* frame, and for the program unless that waits itself.                    *)
Ready   == \/ pc = "rest" /\ since < IF late THEN Late ELSE Prompt
           \/ pc # "rest" /\ (Waiting \/ since < CallTime)

Unit ==
  /\ Ready
  /\ mst = "send" => gap <= Pause
  /\ mst = "wait" => gap < Patience
  /\ phase' = (phase + 1) % Ms
  /\ elapsed' = IF frame = << >> THEN 0
                ELSE IF phase' = 0 /\ elapsed < 2 * T35 THEN elapsed + 1 ELSE elapsed
  /\ since' = IF Waiting THEN since ELSE since + 1
  /\ busy' = (txq > 0) /\ txq' = IF txq > 0 THEN txq - 1 ELSE 0
  /\ LET sent  == busy /\ txq = 0 /\ left = 0
         heard == sent /\ ~torn /\ mst = "wait" /\ dest[asked] = "us" /\ served = asked
     IN  /\ answers' = IF sent THEN << >> ELSE answers
         /\ mst' = IF heard THEN "rest" ELSE mst
         /\ gap' = IF heard THEN 0 ELSE IF mst = "rest" /\ gap = Gap THEN gap ELSE gap + 1
  /\ UNCHANGED <<asked, dest, pos, hit, ring, left, frame, dirOn, dir, poll, late, torn,
                 served, request, map>>

-----------------------------------------------------------------------------
Tables == [coils |-> [i \in 0 .. NumCoils - 1 |-> 0],
           discrete |-> [i \in {} |-> 0],
           holding |-> [i \in 0 .. NumRegs - 1 |-> 0],
           inputs |-> [i \in {0} |-> 0]]

(* After epic_modbus_slave_init, with or without a driver enable pin.      *)
Init ==
  /\ asked = 0 /\ dest = [n \in 1 .. MaxAsk |-> "other"]
  /\ mst = "rest" /\ pos = 0 /\ gap = Gap /\ hit = 0
  /\ ring = << >> /\ txq = 0 /\ busy = FALSE /\ left = 0 /\ torn = FALSE
  /\ frame = << >> /\ elapsed = 0 /\ dirOn \in BOOLEAN /\ dir = FALSE
  /\ phase \in 0 .. Ms - 1 /\ since = 0
  /\ pc = "rest" /\ surplus = 0 /\ late \in BOOLEAN
  /\ served = 0 /\ request = None /\ map = Tables /\ answers = << >>

Next == (\E d \in Dests : Ask(d)) \/ Send \/ GiveUp \/ Main \/ Race \/ Unit

(* The program polls again and again; time passes, for no program makes    *)
(* endless steps in no time.  A frame begun is ended, in the time Unit     *)
(* leaves for it.                                                          *)
Spec == Init /\ [][Next]_vars
        /\ WF_vars(Main) /\ SF_vars(Unit) /\ WF_vars(Send) /\ WF_vars(GiveUp)
-----------------------------------------------------------------------------
(* Types.  The rings and the frame buffer never hold more than they can.   *)
TypeOK ==
  /\ asked \in 0 .. MaxAsk /\ dest \in [1 .. MaxAsk -> Dests]
  /\ mst \in {"rest", "send", "wait"} /\ pos \in 0 .. Big
  /\ gap \in 0 .. Gap + Pause + Timeout
  /\ hit \in 0 .. MaxAsk
  /\ {ring, frame} \subseteq Seq((1 .. MaxAsk) \X (0 .. Big))
  /\ Len(ring) <= Ring /\ Len(frame) <= Adu
  /\ torn \in BOOLEAN /\ txq \in 0 .. IF torn THEN Wrapped ELSE TxRing
  /\ busy \in BOOLEAN /\ left \in 0 .. Reply
  /\ elapsed \in 0 .. 2 * T35 /\ phase \in 0 .. Ms - 1
  /\ dirOn \in BOOLEAN /\ dir \in BOOLEAN /\ late \in BOOLEAN
  /\ pc \in {"rest", "read", "drain", "stamp", "check", "enable", "write", "flush"}
  /\ surplus \in 0 .. Ring /\ since \in 0 .. Late + Prompt + CallTime
  /\ served \in 0 .. MaxAsk /\ request \in Requests \cup {None}

(* The slave is a register server: whatever is lost, garbled, merged by a  *)
(* late poll or sent again, each request is performed at most once, in the *)
(* order sent, whole, as the protocol defines it, and answered only when   *)
(* it was meant for this slave alone.                                      *)
Server == INSTANCE RegisterServer WITH issued <- asked, Longest <- MaxAdu
ServesOnce == Server!Init /\ [][Server!Next]_(Server!server)

(* A frame is never cut in two: the slave does not process the part of a   *)
(* request that is there while the master is still sending it, however     *)
(* late or often it polls.                                                 *)
NeverCut ==
  [][frame # << >> /\ frame' = << >> /\ frame[Len(frame)][1] = asked /\ hit # asked
     => mst # "send"]_<<frame, mst>>

(* Not a character leaves with the driver off, and before the next poll    *)
(* the transmitter has nothing left and the bus is let go, even when the   *)
(* count of the ring has gone round.                                       *)
DriverHeld == /\ dirOn /\ busy => dir
              /\ pc = "rest" => ~dir /\ (dirOn => answers = << >>)

(* Until the race on the transmit ring happens, a slave that polls in time *)
(* has finished its answer before the master sends again, whatever the     *)
(* tick's phase: they never talk at once.                                  *)
NoCollision == ~late /\ ~torn /\ mst = "send" => ~dir /\ ~busy

(* Until the race on the transmit ring happens, a prompt slave is heard in *)
(* time: the master gives up only on a request a fault has hit, one that   *)
(* gets no answer, or one for somebody else.                               *)
InTime ==
  [][mst = "wait" /\ mst' = "rest" /\ dest[asked] = "us" /\ hit # asked /\ ~late /\ ~torn
     => served = asked /\ answers' = << >>]_<<mst>>

(* The ring never wedges: after faults, oversized frames and late polls    *)
(* everything received is read and dealt with and the driver let go.       *)
Drains == ring # << >> ~> (ring = << >> /\ frame = << >> /\ ~dir)

=============================================================================
