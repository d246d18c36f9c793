------------------------------- MODULE Bridge -------------------------------
(***************************************************************************)
(* The bridge demo on the PIC18F4550 (demos/bridge): a Modbus slave whose   *)
(* holding registers 0 and 1 are copied to the two ports of an MCP23017     *)
(* over I2C.  The main line runs the bridge task; each port write goes      *)
(* through lib/mcp23x17 and lib/bus to the MSSP, one bus operation at a     *)
(* time, and lib/bus polls SSPIF for the end of each.  Interrupts are on    *)
(* all the while, and the dispatcher that serves the 1 ms timer also calls  *)
(* the handler of SSPIF.                                                    *)
(*                                                                         *)
(* The MSSP is modelled from how the code uses it, the expander from its    *)
(* data sheet (DS20001952, IOCON.BANK = 0), whose addresses are named PART. *)
(* Those of the driver are its own, and are not the same: at 0x11 the part  *)
(* has INTCAPB, which cannot be written, and at 0x12 GPIOA.  A port image   *)
(* is a member of Images, and a direction register is 1 (all inputs) or 0   *)
(* (all outputs).  The calls are those of the builds with a bus: under      *)
(* __EPIC_CC__ reg_write is a stub that returns n and sends nothing.        *)
(***************************************************************************)
EXTENDS Naturals, Sequences

CONSTANTS
    Images,         \* the values a master writes to holding registers 0 and 1
    MaxRequests,    \* bound: writes the master sends
    MaxFaults,      \* bound: acknowledges refused by the expander or lost
    MaxResets       \* bound: resets of the microcontroller alone

ASSUME BridgeAssumption ==
    /\ Images \subseteq Nat /\ 0 \in Images
    /\ MaxRequests \in Nat /\ MaxFaults \in Nat /\ MaxResets \in Nat

VARIABLES
    g,          \* the demo's block: holding 0/1, shadows, flags, published bit
    pc,         \* where bridge_demo_task_bridge stands
    xfer,       \* the call of epic_bus_i2c_mem_write in progress
    ssp,        \* MSSP: operation under way, SSPIF, ACKSTAT
    t2if,       \* TMR2IF, the interrupt of the 1 ms tick
    dev,        \* the expander: protocol phase, address pointer, registers;
                \* history: the last byte it took at each port's REG_GPIO
    used,       \* requests, faults and resets so far
    seen        \* history: refused and stolen operations, ports whose byte
                \* the part has taken unknown to the program

vars == <<g, pc, xfer, ssp, t2if, dev, used, seen>>

Port == {"A", "B"}
REG_IODIR == 0
(* Mutant: the port register is the direction register. *)
REG_GPIO_IODIR == REG_IODIR
(* Mutant: the port register has the address the part gives it. *)
REG_GPIO_PART == 18
REG_GPIO == 17
EXP_ADDR == 32

reg_of(p, base) == base + (IF p = "A" THEN 0 ELSE 1)

PART_IODIR == 0
PART_GPIO  == 18
PART_OLAT  == 20

-----------------------------------------------------------------------------
(* lib/bus: the transfer, and the MSSP operations it waits for.             *)

Quiet == [op |-> "none", todo |-> <<>>, ok |-> TRUE]

(* Every operation is started and then waited for in i2c_wait_ssp.          *)
Issue(x) ==
    /\ xfer' = x
    /\ ssp' = [busy |-> TRUE, flag |-> FALSE, nack |-> ssp.nack]

(* reg_write with the built-in I2C transport: START, address, register,     *)
(* data, STOP.                                                              *)
MemWrite(reg, data) ==
    Issue([op |-> "start", todo |-> <<2 * EXP_ADDR, reg>> \o data, ok |-> TRUE])

(* Mutant: a refused byte ends the call without STOP.                       *)
AfterNoStop ==
    CASE xfer.op = "start" -> [xfer EXCEPT !.op = "byte"]
      [] xfer.op = "byte" /\ ssp.nack ->
           [op |-> "done", todo |-> <<>>, ok |-> FALSE]
      [] xfer.op = "byte" /\ ~ssp.nack /\ Len(xfer.todo) = 1 ->
           [op |-> "stop", todo |-> <<>>, ok |-> TRUE]
      [] xfer.op = "byte" /\ ~ssp.nack /\ Len(xfer.todo) > 1 ->
           [xfer EXCEPT !.todo = Tail(@)]
      [] xfer.op = "stop" -> [xfer EXCEPT !.op = "done"]

(* What follows a finished operation: a refused byte is followed by STOP,   *)
(* and STOP by the return, with n or with -1.                               *)
After ==
    CASE xfer.op = "start" -> [xfer EXCEPT !.op = "byte"]
      [] xfer.op = "byte" /\ ssp.nack ->
           [op |-> "stop", todo |-> <<>>, ok |-> FALSE]
      [] xfer.op = "byte" /\ ~ssp.nack /\ Len(xfer.todo) = 1 ->
           [op |-> "stop", todo |-> <<>>, ok |-> TRUE]
      [] xfer.op = "byte" /\ ~ssp.nack /\ Len(xfer.todo) > 1 ->
           [xfer EXCEPT !.todo = Tail(@)]
      [] xfer.op = "stop" -> [xfer EXCEPT !.op = "done"]

(* The poll sees SSPIF, clears it, and the transfer goes on.                *)
Advance ==
    /\ ssp.flag /\ ~t2if
    /\ IF After.op = "done"
       THEN xfer' = After /\ ssp' = [ssp EXCEPT !.flag = FALSE]
       ELSE Issue(After)
    /\ UNCHANGED <<g, pc, t2if, dev, used, seen>>

-----------------------------------------------------------------------------
(* The expander and the wire.                                               *)

(* A data byte goes to the register under the pointer, which moves on; a    *)
(* write of GPIO or OLAT sets the output latch, and one to a register that  *)
(* is read-only is acknowledged and ignored.                                *)
Stored(d, b) ==
    LET Taken(file, base) ==
          [p \in Port |-> IF d.ptr = reg_of(p, base) THEN b ELSE file[p]]
    IN
    CASE d.phase = "addr" -> [d EXCEPT !.phase = "reg"]
      [] d.phase = "reg"  -> [d EXCEPT !.phase = "data", !.ptr = b]
      [] d.phase = "data" ->
           [d EXCEPT !.ptr = @ + 1,
                     !.dir = Taken(d.dir, PART_IODIR),
                     !.latch = Taken(Taken(d.latch, PART_GPIO), PART_OLAT),
                     !.took = Taken(d.took, REG_GPIO)]

Finish(nack) == [busy |-> FALSE, flag |-> TRUE, nack |-> nack]

(* START and STOP always succeed.                                           *)
Condition ==
    /\ ssp.busy /\ xfer.op \in {"start", "stop"}
    /\ dev' = [dev EXCEPT !.phase = IF xfer.op = "start" THEN "addr" ELSE "idle"]
    /\ ssp' = Finish(ssp.nack)
    /\ UNCHANGED <<g, pc, xfer, t2if, used, seen>>

Acknowledged ==
    /\ ssp.busy /\ xfer.op = "byte"
    /\ dev' = Stored(dev, Head(xfer.todo))
    /\ ssp' = Finish(FALSE)
    /\ UNCHANGED <<g, pc, xfer, t2if, used, seen>>

(* The expander refuses a byte, or takes it and its acknowledge is lost;    *)
(* either way it waits for STOP.  A port whose byte it took unknown to the  *)
(* program is recorded.                                                     *)
Refused ==
    /\ ssp.busy /\ xfer.op = "byte" /\ used.faults < MaxFaults
    /\ \E d \in {dev, Stored(dev, Head(xfer.todo))} :
         /\ dev' = [d EXCEPT !.phase = "deaf"]
         /\ seen' = [seen EXCEPT !.nack = TRUE,
                                 !.unknown = @ \cup {p \in Port : d.took[p] # dev.took[p]}]
    /\ ssp' = Finish(TRUE)
    /\ used' = [used EXCEPT !.faults = @ + 1]
    /\ UNCHANGED <<g, pc, xfer, t2if>>

-----------------------------------------------------------------------------
(* Interrupts.                                                              *)

Timer2 ==
    /\ ~t2if /\ t2if' = TRUE
    /\ UNCHANGED <<g, pc, xfer, ssp, dev, used, seen>>

(* epic_dispatch_all_irqs: every flag of PIR1 that is set is handled and    *)
(* cleared, SSPIF whether or not its interrupt is enabled.                  *)
Dispatch ==
    /\ t2if /\ t2if' = FALSE
    /\ ssp' = [ssp EXCEPT !.flag = FALSE]
    /\ seen' = [seen EXCEPT !.stolen = @ \/ ssp.flag]
    /\ UNCHANGED <<g, pc, xfer, dev, used>>

-----------------------------------------------------------------------------
(* bridge_demo_task_bridge.                                                 *)

Zero == [p \in Port |-> 0]
Block == [holding |-> Zero, shadow |-> Zero, expCfg |-> FALSE,
          err |-> FALSE, status |-> FALSE]

(* The task starts; epic_modbus_slave_poll may apply one write to an image. *)
Poll ==
    /\ pc = "idle" /\ ~t2if
    /\ pc' = "config"
    /\ \/ UNCHANGED <<g, used>>
       \/ /\ used.requests < MaxRequests
          /\ used' = [used EXCEPT !.requests = @ + 1]
          /\ \E p \in Port, v \in Images : g' = [g EXCEPT !.holding[p] = v]
    /\ UNCHANGED <<xfer, ssp, t2if, dev, seen>>

(* SetDirectionAll came back: a failure is latched, and the call is never   *)
(* made again.                                                              *)
ConfiguredUnlatched(b, ok) == [b EXCEPT !.expCfg = TRUE]
Configured(b, ok) == [b EXCEPT !.expCfg = TRUE, !.err = @ \/ ~ok]

(* WritePort came back: the shadow follows only a write that succeeded.     *)
WrittenAlways(b, p, ok) ==
    [b EXCEPT !.shadow[p] = b.holding[p], !.err = @ \/ ~ok]
WrittenErrKept(b, p, ok) ==
    IF ok THEN [b EXCEPT !.shadow[p] = b.holding[p], !.err = FALSE]
    ELSE [b EXCEPT !.err = TRUE]
Written(b, p, ok) ==
    IF ok THEN [b EXCEPT !.shadow[p] = b.holding[p]]
    ELSE [b EXCEPT !.err = TRUE]

(* Mutant: a port that failed is not tried again while the error stands.    *)
OutdatedOnce(p) == g.holding[p] # g.shadow[p] /\ ~g.err
Outdated(p) == g.holding[p] # g.shadow[p]

(* expander_sync, first part: both direction registers, on the first run.   *)
ConfigCall ==
    /\ pc = "config" /\ xfer.op = "none" /\ ~g.expCfg /\ ~t2if
    /\ MemWrite(REG_IODIR, <<0, 0>>)
    /\ UNCHANGED <<g, pc, t2if, dev, used, seen>>

ConfigDone ==
    /\ pc = "config" /\ ~t2if
    /\ \/ xfer.op = "none" /\ g.expCfg /\ UNCHANGED g
       \/ xfer.op = "done" /\ g' = Configured(g, xfer.ok)
    /\ xfer' = Quiet
    /\ pc' = "A"
    /\ UNCHANGED <<ssp, t2if, dev, used, seen>>

(* Second and third part: a port whose image moved away from its shadow.    *)
PortCall(p) ==
    /\ pc = p /\ xfer.op = "none" /\ Outdated(p) /\ ~t2if
    /\ MemWrite(reg_of(p, REG_GPIO), <<g.holding[p]>>)
    /\ UNCHANGED <<g, pc, t2if, dev, used, seen>>

PortDone(p) ==
    /\ pc = p /\ ~t2if
    /\ \/ xfer.op = "none" /\ ~Outdated(p) /\ UNCHANGED <<g, seen>>
       \/ /\ xfer.op = "done"
          /\ g' = Written(g, p, xfer.ok)
          /\ seen' = [seen EXCEPT !.unknown = IF xfer.ok THEN @ \ {p} ELSE @]
    /\ xfer' = Quiet
    /\ pc' = IF p = "A" THEN "B" ELSE "publish"
    /\ UNCHANGED <<ssp, t2if, dev, used>>

(* The task publishes the error latch in the status registers and returns.  *)
Publish ==
    /\ pc = "publish" /\ ~t2if
    /\ g' = [g EXCEPT !.status = g.err]
    /\ pc' = "idle"
    /\ UNCHANGED <<xfer, ssp, t2if, dev, used, seen>>

-----------------------------------------------------------------------------
(* The microcontroller restarts; the expander keeps its registers and the   *)
(* place in the transfer it was in.  A port left nonzero is unknown to the  *)
(* program, whose shadows start at zero.                                    *)
Reset ==
    /\ used.resets < MaxResets
    /\ used' = [used EXCEPT !.resets = @ + 1]
    /\ g' = Block /\ pc' = "idle" /\ xfer' = Quiet /\ t2if' = FALSE
    /\ ssp' = [busy |-> FALSE, flag |-> FALSE, nack |-> FALSE]
    /\ seen' = [nack |-> FALSE, stolen |-> FALSE,
                unknown |-> {p \in Port : dev.took[p] # 0}]
    /\ UNCHANGED dev

Init ==
    /\ g = Block /\ pc = "idle" /\ xfer = Quiet /\ t2if = FALSE
    /\ ssp = [busy |-> FALSE, flag |-> FALSE, nack |-> FALSE]
    /\ dev = [phase |-> "idle", ptr |-> 0,
              dir |-> [p \in Port |-> 1], latch |-> Zero, took |-> Zero]
    /\ used = [requests |-> 0, faults |-> 0, resets |-> 0]
    /\ seen = [nack |-> FALSE, stolen |-> FALSE, unknown |-> {}]

Task == Poll \/ ConfigCall \/ ConfigDone \/ Publish
        \/ \E p \in Port : PortCall(p) \/ PortDone(p)
Main == Advance \/ Task
Hardware == Condition \/ Acknowledged \/ Refused
Next == Main \/ Hardware \/ Timer2 \/ Dispatch \/ Reset

(* The MSSP finishes what it was given and an interrupt is taken; the timer  *)
(* rolls over once in a millisecond, so the main line, if it can go on       *)
(* whenever no interrupt is pending, does.                                  *)
Spec == Init /\ [][Next]_vars /\ SF_vars(Main) /\ WF_vars(Hardware)
        /\ WF_vars(Dispatch)

-----------------------------------------------------------------------------
(* The state is well formed.                                                *)
TypeOK ==
    /\ g \in [holding: [Port -> Images], shadow: [Port -> Images],
              expCfg: BOOLEAN, err: BOOLEAN, status: BOOLEAN]
    /\ pc \in {"idle", "config", "publish"} \cup Port
    /\ xfer.op \in {"none", "start", "byte", "stop", "done"}
    /\ xfer.todo \in Seq(Nat) /\ Len(xfer.todo) <= 4 /\ xfer.ok \in BOOLEAN
    /\ ssp \in [busy: BOOLEAN, flag: BOOLEAN, nack: BOOLEAN]
    /\ t2if \in BOOLEAN
    /\ dev.phase \in {"idle", "addr", "reg", "data", "deaf"} /\ dev.ptr \in 0..255
    /\ dev.dir \in [Port -> 0..1] /\ dev.latch \in [Port -> Images]
    /\ dev.took \in [Port -> Images]
    /\ used \in [requests: 0..MaxRequests, faults: 0..MaxFaults,
                 resets: 0..MaxResets]
    /\ seen \in [nack: BOOLEAN, stolen: BOOLEAN, unknown: SUBSET Port]

(* Whichever byte was refused, a call that returned has sent STOP: the bus  *)
(* is free between calls (a restart in mid-transfer may leave it open until *)
(* the first call of the new run).                                          *)
BusFreed == xfer.op \in {"none", "done"} /\ g.expCfg => dev.phase = "idle"

(* Between runs of the task the shadows the heartbeat reports are what the  *)
(* expander last took at the addresses the driver has for the ports, except *)
(* on a port where it took a byte whose acknowledge was lost, or kept one   *)
(* over a restart: no failed write moves a shadow, none is forgotten.       *)
ShadowTrue ==
    pc = "idle" => \A p \in Port \ seen.unknown : g.shadow[p] = dev.took[p]

(* What the port writes of the driver do to the part, whose addresses are  *)
(* one higher: port A drives the image that was sent to port B, and port B *)
(* nothing, whatever is acknowledged, refused or cut off by a restart.     *)
LatchesShifted == dev.latch["A"] = dev.took["B"] /\ dev.latch["B"] = 0

(* Between runs, either the ports are outputs or the master can read the    *)
(* error: directions that did not reach the expander are not retried.       *)
DrivenOrError ==
    pc = "idle" /\ g.expCfg /\ ~g.status => \A p \in Port : dev.dir[p] = 0

(* Between runs the published error bit says exactly whether any byte was   *)
(* refused since the start: later successes do not hide a failure.          *)
ErrorShown == pc = "idle" => (g.status <=> seen.nack)

(* If the dispatcher never takes SSPIF away, the expander ends up having    *)
(* taken, at the addresses the driver has for the ports, the images the     *)
(* master wrote last: a write that failed is made again.                    *)
Follows ==
    [](~seen.stolen)
      => <>[](\A p \in Port \ seen.unknown : dev.took[p] = g.holding[p])

(* epic_bus_i2c_mem_write returns, with n or -1.                            *)
CallsReturn == xfer.op # "none" ~> xfer.op = "none"
=============================================================================
