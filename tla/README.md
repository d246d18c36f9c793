# epic-hal: a verification of its concurrent core

epic-hal is a hardware abstraction layer for 8-bit PICs with a set of device
libraries on top.  Everything runs in two contexts: a main line that polls, and
one interrupt service routine that fans out to the handlers.  There is no
operating system and there are, on purpose, few critical sections: the code
argues in comments that a field of one byte needs none.  These modules check
those arguments.

## Inventory

| Component | State | Operations | Interacts with | Hard part | Correct when |
|---|---|---|---|---|---|
| `lib/serial` | TX and RX ring: buffer, head, tail, count | init, write, read, flush, available, tx_pending; `on_rx`, `on_tx` | USART registers; handlers; the dispatcher, called from its own waiting loops | a ring shared by the main line and the service routine with no lock; TXIE armed on demand | what is written leaves once, in order; what arrives is read in order; nothing hangs |
| `hal/pic14` dispatcher and interrupt control | INTCON, PIR1/2, PIE1/2 | dispatch, Enable, DisableSrc, ClearFlag, Disable, Restore | every driver | a copy of PIR1 used later; flags read, masked and written back | no event is lost or handled twice |
| `hal/pic14` USART | TXREG, TSR, RCREG, OERR, TXIE, RCIE | Init, the two handlers, TRMT | serial | status bits that software cannot clear | as for serial |
| `lib/taskmgr` | table of tasks, snapshot array, tick count | init, spawn, start, stop, reset, set_period, tick, run_once, run | Timer0 overflow calls tick; tasks call back | a snapshot taken with interrupts on; tasks that free, stop, spawn tasks | due tasks run, in priority order, and only while they are registered |
| `lib/tick` | 32-bit millisecond count | init, get, elapsed_since, delay_ms | Timer2 overflow; modbus, debounce, encoder | a four-byte read against the interrupt; the wrap | a read returns a value the counter had |
| `lib/settings`, EEPROM driver | EEPROM bytes, EEIF, WRERR | save, load, load_or_default | dispatcher (who owns EEIF) | power loss between two byte writes | load never returns a half-saved blob |
| `lib/swuart` | two rings, TX and RX state machines, deadlines, `g_chan_a` | Init, DeInit, Write, Read, GetErrorCount; compare and capture events | CCP, Timer1, dispatcher | Write starts the transmitter when it looks idle | as for serial |
| `lib/modbus` | frame buffer, its length, tick of the last byte | init, poll | serial, tick, a direction pin | silence measured by the poller | a request is answered once, from one frame |
| `lib/bus`, `lib/mcp23x17` | the SSP | memory read and write, SPI transfer | SSP flags | error exits in mid-transaction | every transaction ends with STOP |
| `lib/fsm` | current state | dispatch | guards and actions of the program | an action that dispatches | first matching row wins |
| `lib/debounce`, `lib/encoder` | stable and candidate level; position | poll; update, get_position | tick; port-change interrupt | wrap, missed edges, torn position | one event per press; position follows the shaft |
| `lib/usb` | two rings, endpoint state | service, write, read | the SIE (PIC18) | waits for a host | as for serial |
| `lib/sdcard`, `lib/lcd`, `lib/console`, `lib/adcfilter`, `lib/pid`, `lib/math` | buffers, filter and controller state | sequential | bus, serial | arithmetic, long call sequences | unit tests reach it |
| demos bridge, control, menu | application state | step | all of the above | order of staged work | the expander follows the registers |
| HALs of the other families, harness, manifest | registers | the same interface | | | as mid-range |

`PROJECT.json` lists the same components with their files and status, and every
hazard at its line.

## Plan

In this order; each step stands alone.

1. `Serial`, `ByteChannel`, `SerialProofs`: the UART rings, their abstract
   channel, and the proof that one implements the other.  Done: every safety and
   action property of the run is a theorem.
2. `TaskMgr`, `TaskMgrProofs`: the scheduler.  Done, likewise.
3. `Settings`, `BlobStore`, `SettingsProofs`: a checked blob in an EEPROM that
   writes a byte at a time and loses power.  Done, likewise.
4. `SwUart`, `SwUartProofs`, `SwUartChannelProofs`: the software UART with its compare and
   capture events against Timer1, wired to itself.  Done: every safety and action property of
   the run is a theorem, those of the channel under a bound on the length of a call.
5. `Modbus`, `ModbusPdu`, `RegisterServer`, `ModbusProofs`, `ModbusPaceProofs`:
   framing by silence over the serial ring and the tick, the function codes, and the
   abstract server.  Done: every safety and action property of the run is a theorem,
   `NoCollision` and `InTime` under bounds on the master's times.
6. `Bridge`, `BridgeProofs`: the bridge demo, `lib/mcp23x17` and `lib/bus` over the
   MSSP, with resets and refused bytes.  Done: every invariant of the run is a theorem.

Recursive operators are kept out of all of these, so that each can be proved
about.

## Serial

`Serial.tla` models `lib/serial/src/epic_serial.c` with the parts of
`pic14_usart.c`, `pic14_irq_dispatch.c` and the vector it runs on.

| In the module | In the code |
|---|---|
| `txBuf txHead txTail txCount`, `rx...` | `g_tx_*`, `g_rx_*` |
| `gie txie rcie` | INTCON GIE, PIE1 TXIE and RCIE (RCIE and CREN are set together) |
| `hold tsr`, `rcreg oerr` | TXREG and shift register; two-byte receive FIFO and overrun latch |
| `pc ret todo byte txSnap rcSnap` | where the main line is, and its locals |
| `Init*`, `Write*`, `Read*`, `Flush*` | the calls, one step per access to a shared field |
| `Dispatch*` | `epic_dispatch_all_irqs` when write or flush call it |
| `Isr` (`IsrRx`, `IsrTx`, `OnRx`, `OnTx`) | the same dispatcher as the service routine, with GIE clear: one step |
| `ShiftOut`, `Arrive` | hardware: a byte leaves, a byte arrives or overruns |

Bytes are numbered in the order they are written or latched, so order, loss and
duplication can be told from the numbers; the code never looks into a byte.
A chained assignment such as `g_rx_head = g_rx_tail = g_rx_count = 0` stores from
right to left.  `txIn wire wireLast rxIn rxOut rxLast rxDropped` are history.

`Latency` bounds how many accesses of the main line complete after an interrupt
becomes pending.  The core takes it within three or four instruction cycles, and
every access modelled is at least one instruction, so two is generous.

Two constants choose how the program uses the library:

- `AppWaits = FALSE`: a program with interrupts enabled asks
  `epic_serial_tx_pending` for room before it writes and does not call flush;
  with GIE clear it may wait.  This is what the library's tests do: they drain by
  dispatching with interrupts off.
- `GieBeforeInit = FALSE`: interrupts go on after `epic_serial_init`, as the
  header asks.

The complements are legal uses too, and each has a run that shows what happens
(see Findings).  The positive results hold in the regime, and the README's word
"regime" (and `Regime` in the proofs) means both.

`ByteChannel.tla` is what a transmitter promises: bytes are delivered once, in
order, with at most `Cap` under way.  `TxFifo` is `Channel!Spec` with `Cap = SZ + 2`
(ring, TXREG, shift register), `accepted = txIn`, `delivered = wire`.

## TaskMgr

`TaskMgr.tla` models `lib/taskmgr/src/epic_taskmgr.c`.  The flags byte is three
functions `used enabled ready`; `fn[s]` says that the pointer is not NULL; `order`
is `s_order` with its `n`.  Regions under `EPIC_IRQ_Disable` are one step; spawn,
which has none, is two (`SpawnFill`, then `SpawnPublish` stores the flags); run_once
is one step per slot scanned (`ScanSlot`), per pick (`ScanPick`) and per part of a
call (`RunTask`, `Return`, `AfterTask`).  `Tick` comes between any two steps.  While
a task runs, and between rounds, the program may call anything (`Call`).
`age`, `armed`, `due` and `start` are history: ticks since a task was armed, the period it
was armed with, whether it has fallen due and not been called, and who was ready
when the round began.

`TickRearms = FALSE` excludes a tick that finds a task due again while the
snapshot that has already taken it is still being built, which takes a period
shorter than one scan or an unlucky one-shot.  Nothing in the code excludes it:
`taskmgr_rearm` shows what that tick does, and no property of the passing run says that a round
takes a task once, for that is what the regime grants.

`MaxCalls` bounds the calls of a behaviour (they would otherwise go on for ever;
the rounds and ticks are not bounded).

Where the header says something else than the code does, the model follows the code:

- "lower runs first within a round; ties break by spawn order" (epic_taskmgr.h:82, also API.md:58):
  ties break by slot, and spawn takes the lowest free slot.  After a one-shot has freed a slot
  below an older task of the same priority, the newer task runs first.  `PriorityOrder` states the order by slot.
- "Run every task ready now" (epic_taskmgr.h:150): a task of priority 255, which spawn
  accepts, is never taken, since the search starts from 255 and looks for less (epic_taskmgr.c:250).
  `RoundTakesAll` is checked without that priority; `TaskMgrPassesOver255` proves the rest.
- `epic_taskmgr_stop` makes the scheduler skip a task until it is started again
  (epic_taskmgr.h:105): a task the snapshot has noted already runs once more.
- "a tick that arms a task after its slot was scanned runs it next round" (epic_taskmgr.c:244): the
  scan starts again from slot 0 after each pick, and the tick may have the task run twice in this one.

## Settings

`Settings.tla` models `lib/settings/src/epic_settings.c` over the EEPROM driver
(`pic14_eeprom.c`), `EPIC_IRQ_ClearFlag` and the PIR2 branches of the dispatcher.

| In the module | In the code |
|---|---|
| `ee cycle wrerr` | the bytes of the blob and its trailer, the write in progress, EECON1 WRERR |
| `cut` | an interrupt came between the stores of the unlock sequence |
| `eeif ccpif` | the two flags of PIR2 that matter; `pir` is ClearFlag's copy |
| `buf n ok` | payload and index of the save under way, what the last save returned |
| `Save`, `WriteByte`, `SetWr`, `WriteRejected`, `WriteWait`, `WriteSpin`, `WriteEnd` | `epic_settings_save`, one byte after the other |
| `ClearRead`, `ClearStore` | `EPIC_EEPROM_ClearITFlag`, the read and the write of PIR2 |
| `LoadCheck`, `LoadCopy`, `DefaultReturn` | the two passes of `load`, and `load_or_default` |
| `Isr` | the service routine, for CCP2IF and for EEIF |
| `WriteDone`, `CcpEvent`, `Crash` | hardware: end of a write cycle, a compare event, a reset |

A reset in the middle of a write cycle leaves the old byte, an erased one or the
new one, and WRERR either way.  `WriteByte` goes as far as the 0x55 of the unlock sequence
and `SetWr` is its end.  The driver leaves GIE alone, so the service routine may run
in between (`Isr` at `unlock`); the three stores are then not consecutive and no write starts.
WRERR, which only a reset in a write cycle sets, stays clear, and the save polls EEIF until
a reset: that is `CutWaits`.  The header of `epic_settings_save` knows two ends, every byte wrote or the
driver rejected one (epic_settings.h:19), and the comment at the sequence points at the data
sheet's example, which clears GIE first (pic14_eeprom.c:253).  `SaveReturns` is what is left: a save
that no interrupt cuts returns.  `StoreKept` holds with the cut.  Since WRERR is only set by a reset, a byte is rejected
(`WriteRejected`) at the first index or not at all.

`known`, `loaded`, `raised` and `handled` are history.

`BlobStore.tla` is the promise: a load returns what is stored or rejects it; only
a save changes what is stored; it is never anything but nothing or a payload some
save was given; and a save that returned true has stored its own.  `StoreKept` is
`Store!Spec`, where what is stored is what a load would return.  A save that is cut off
may bring back an older payload: byte by byte, two cut-off saves can rebuild it.

A CRC detects a torn blob only with high probability, so `StoreKept` cannot hold
for every payload.  `MCSettings` computes the CRC of the code (checked against its
published check value), assumes that no two payloads of the instance share it, and
TLC looks at every mixture.

`Eeie = FALSE`: the program has not installed a write-complete callback with
`EPIC_EEPROM_Init`.  With one installed the service routine owns EEIF, and a save
would wait for a flag that is taken from it.

## SwUart

`SwUart.tla` models `lib/swuart/src/epic_swuart.c` (channel A) with the CCP driver
(`pic14_ccp.c`) and the CCP branches of the dispatcher.  The transmitter's pin is the
receiver's line.

| In the module | In the code |
|---|---|
| `tx`, `rx`, `errs` | the handle: states, shift registers, bit indices, rings, `error_count` |
| `ccp1`, `ccp2` | CCP1 (receive) and CCP2 (transmit): mode, CCPR, flag, enable, callback registered |
| `chan` | `g_chan_a` is not NULL; `fault`: a callback ran when it was |
| `t`, `pin`, `brk`, `held` | Timer1; the TX pin; a break; how long the line has stood still |
| `fast` | `EPIC_SWUART_HAS_RX_FAST_PATH`, either way |
| `TxIdleEvent`, `TxDataEvent`, `TxStopEvent` | the cases of `tx_compare_event` |
| `RxEdge`, `RxConfirm`, `RxSample`, `RxStop` | the branches of `rx_capture_event` and of its fast form |
| `Isr` | dispatcher and handlers, one step with GIE clear, at most `Latency` ticks late |
| `Write*`, `Arm*`, `Read*`, `Err*` | the calls, one step per access to a shared field |
| `Init*`, `DeInit*` | EPIC_SWUART_Init and DeInit, with EPIC_CCP_Init and DeInit |
| `Tick` | time: Timer1 counts, a compare acts on the pin, an edge is captured |

A bit is `Bit` ticks and a byte `Bits` bits; a byte is its own number, so a bit sampled
wrongly shows.

`InMargins` states what lib/swuart/docs argues for: an event is handled within half a
bit and before the next is due, a call takes less than `Lead`, the first sample lies in the
first data bit.  It is a hypothesis of the theorems and not of the module: `SwUart.cfg` meets it,
and `SwUartAssumption` says only what kind of number each constant is.
`Correction` is `RX_CAPTURE_OVERHEAD_CYCLES` (322 of work and 3 of entry, together 325) and
`Work` the part of it the fast path really spends between its look at the pin and its reading of
Timer1, so that `Overhead == Correction - Work` is the lateness of the sample it arms.

On a target these are measurements.  At 9600 baud and 20 MHz a bit is 521 cycles and half of it
260.  The notes give 288 cycles for the transmitter's handler and, on the fast path, 494 and 534 for the
receiver's; the generic path arms the confirmation 404 cycles after the edge, past its
deadline, on every byte (ARCHITECTURE.md, known limitations).  So neither path is within
`InMargins` at 9600 baud when both directions are in use: `Latency < Half` asks each event to be handled within
260 cycles.  What a passing `swuart` and the theorems say of a build begins where its
handlers, one after the other, fit into half a bit (at 2400 baud it is 1041 cycles) and a call takes less than
the 120 cycles of `SWUART_LEAD_CYCLES`; the model does not say that a build meets that.
Outside, the notes ask too little: an event need only be handled "before the following event"
(ARCHITECTURE.md:28).  With a latency of 3 in a bit of 4, the generic path alone (`Paths = {FALSE}`),
`Wrap = 32` and no faults, TLC finds `EndToEnd` violated although each event is handled before the following one
is due: the pin is read when the event is handled, and by then the line carries another bit.

`EndToEnd` is `Channel!Spec`'s safety part
(`ByteChannel`) over transmitter, line and receiver, with a restart at Init.

- `WritesAnyTime = FALSE`: the program writes to a channel that is at rest with its
  last stop bit over, or to one in the middle of data bits.  `swuart_write` shows the rest.
- Nothing arrives before Init returns.  Init sets GIE (if it was not set) and the capture
  event before `g_chan_a`; a start edge in that window runs the handler on NULL.
  Nothing in the code or the docs forbids such an edge, and nothing handles it; the model leaves
  it out, so `NoNullChannel` covers DeInit and the closed channel only.

## Modbus

`Modbus.tla` models `lib/modbus/src/epic_modbus.c` on a bus with one master;
`ModbusPdu.tla` the function-code handlers; `RegisterServer.tla` is the promise.

| In the module | In the code |
|---|---|
| `frame`, `elapsed`, `dirOn` | `s_frame` and its length, ticks since `s_last_rx_tick`, `s_dir_configured` |
| `ring`, `txq`, `busy`, `dir` | the rings of lib/serial, the shift register, the driver-enable pin |
| `Poll`, `Read`, `Drain`, `Stamp`, `Check` | `epic_modbus_slave_poll`, one step per access to what interrupts share |
| `Reject`, `Process` | `process_frame`; `Handle` is its switch |
| `Enable`, `Write`, `Written`, `Release` | `send_response`, `epic_serial_write`, `epic_serial_flush` |
| `Waiting`, `Race` | the loops of write and flush, and what a TX interrupt in the middle of their dispatch does |
| `Ask`, `Send`, `GiveUp`, `Patience` | the master: request, characters, timeout (external) |
| `Unit` | the time of a character: the shift register, the tick, the silence |

A character is known by its request and place, so the CRC is ideal: a frame passes if
and only if it is one whole request.  What a request asks for is chosen from `Requests` when it
is processed; `MCRequests` has one on either side of each limit a handler tests.  Register
numbers are 16 bits wide where they are added (`start = 65535`).

`send_response` writes and flushes with GIE set, so its waiting loops run the TX handler on the
main line while the service routine may run it as well, which is what `serial_wait` shows.
`Serial` models that access by access; here `Race` is its effect on the transmit
ring: a character taken by one overwrites the one taken by the other in TXREG and is lost, and if the
ring held only one its count goes from 0 to 255 (`Wrapped`, counted in characters: 5 in the
instance) and as many characters of old buffer go out.  It comes at most once (`torn`), at any point of any wait.
So this transmitter is not ideal: an answer may leave short, long or not at all.
`DriverHeld`, `ServesOnce`, `NeverCut` and `Drains` hold all the same: no character leaves
without the driver, and it is released before the next poll.  That the answer left whole nothing
says.  `NoCollision` and `InTime` are promised until the race has happened, for an answer
of 255 stale characters collides with anything, and a short one is not the answer.
`FlushComplete` of `Serial` is no help here: it is about a flush with GIE clear.

`ServesOnce` is `Server!Spec`'s safety part.  `RegisterServer` is written from the Modbus
definitions of the header: `Sound` says in sets what the handlers test in order.

Named bounds: `Gap`, the silence before a request, is `(T35 + 1)` ticks and more.
With the 3.5 characters the standard allows, the slave merges a request into the
previous frame: elapsed ticks round down by almost one tick, and a poll adds its own delay.
`compute_t3_5_ms` says "round up so the timeout never falls short"
(epic_modbus.c:81), and lib/modbus/README.md:28 that framing stays correct; both hold for
the masters of the model, which pause at least `Gap`.  A pause inside a frame is shorter than
`(T35 - 1)` ticks for the same reason (`ModbusAssumption`).

## Bridge

`Bridge.tla` models the bridge task of `demos/bridge` on the PIC18F4550 with
`epic_mcp23x17.c`, `epic_bus.c` and the dispatcher of that family.

| In the module | In the code |
|---|---|
| `g` | the fields `holding[0..1]`, `shadow_a/b`, `exp_cfg`, `i2c_err` and the published status |
| `pc`, `xfer` | the task's place; the `epic_bus_i2c_mem_write` in progress |
| `ssp` | MSSP busy, SSPIF, ACKSTAT |
| `dev` | the MCP23017: place in the transfer, address pointer, IODIR, OLAT; and `took`, the last byte it took at each address the driver has for a port |
| `REG_IODIR`, `REG_GPIO` | the driver's addresses, 0x00 and 0x11 |
| `PART_IODIR`, `PART_GPIO`, `PART_OLAT` | the part's, from its data sheet (IOCON.BANK = 0): 0x00, 0x12, 0x14 (external) |
| `Poll` | the task starts; a write of the master may have changed an image |
| `ConfigCall`, `PortCall`, `MemWrite`, `Issue`, `After`, `Advance` | `expander_sync` down to `i2c_wait_ssp` |
| `ConfigDone`, `PortDone`, `Publish` | the returns, and the status registers |
| `Dispatch` | `epic_dispatch_all_irqs` for the 1 ms timer, which takes SSPIF along |
| `Condition`, `Acknowledged`, `Refused` | the bus and the expander |
| `Reset` | the microcontroller alone restarts; the expander keeps its state |

The driver's map of the part leaves out the second address of IOCON, so its 0x11 is INTCAPB,
which cannot be written: what it writes to port A is acknowledged and goes nowhere, and what it
writes to port B lands in GPIOA.  The comment at the map says "read pins / write the output latch"
(epic_mcp23x17.c:23), and the expander of the unit tests has the driver's map.  `Stored` follows the part, and
`LatchesShifted` says what comes out: port A drives what was sent to port B, and port B nothing.  `ShadowTrue` and
`Follows` are therefore about `took`, the bytes the part took at the driver's addresses: that the
task, the driver and the bus lose, invent and reorder nothing, whatever the part makes of the address.
IODIR is at the same place in both maps, so `DrivenOrError` is about the pins.  The model is of the
builds with a bus: under `__EPIC_CC__` `reg_write` is a stub that sends nothing.

Where a byte is lost between the two devices, the module says so (`seen.unknown`): a
byte the expander took but whose acknowledge was lost, and a latch that survived a reset,
are not the shadow's value and are not repaired, since the image the program compares with
is the shadow.  After a reset of the microcontroller alone shadows and images are
both zero, so no output is rewritten; the comment "Direction and outputs go out on the
first run" (bridge_demo_core.c:469) is true of the directions only.

## Runs

| Run | Question | Bounds |
|---|---|---|
| `serial` | types, `FlushComplete`, `RxAccounted`, `TxFifo` (refinement), `RxInOrder`, and the liveness properties `TxDelivered`, `CallsReturn` | ring of 2, 4 bytes out, 3 in, calls of up to 3 bytes: the ring fills, wraps twice and overflows, RCREG overruns |
| `serial_wait` | does `TxFifo` survive waiting with interrupts on? no | ring of 4, 7 bytes |
| `serial_init` | does `RxInOrder` survive an init with interrupts on? no | 3 bytes in |
| `taskmgr` | types, `CallsLiveTask`, `PriorityOrder`, `RoundTakesAll`, `FiresOnTime`, and the liveness property `DueRuns` | 2 slots, periods 0, 1, 2, two priorities, 4 calls: ties, overtaking, a full table, a slot reused within a round |
| `taskmgr_rearm` | does `CallsLiveTask` survive a tick that marks a noted task? no | 2 slots |
| `settings` | types, `StoreKept` (refinement), `DefaultPersisted`, `CutWaits`, and the liveness property `SaveReturns` | 3 bytes and the trailer, 3 payloads and a default that share bytes, 3 saves, 2 resets: a save cut off over another cut-off save, an older payload back, a default over a torn blob, an interrupt in an unlock sequence |
| `settings_clear` | does ClearFlag leave the other flags of PIR2 alone? no | 1 save, 1 event |
| `swuart` | types, `LossCounted`, `NoNullChannel`, `EndToEnd` (refinement), `ReadInOrder`, `ErrorCountReal`, and the liveness property `AllArrive` | ring of 2, 2-bit bytes of 4 ticks, latency 1, Timer1 modulo 8, 3 bytes, one break or spike: the ring fills and wraps, the timer wraps within a frame, an error falls between the reads of the counter |
| `swuart_write` | is the arm exclusive with the handler's pop? no | 3 bytes, no faults |
| `modbus` | types, `DriverHeld`, `NoCollision`, `ServesOnce` (refinement), `NeverCut`, `InTime`, and the liveness property `Drains` | 14 requests and one of an unknown function, 2 coils and 2 registers, 2 messages on the line of 2 or 4 characters, rings and buffer of 3, answers of 4, ticks of 2 characters, a timeout of 11, one fault, prompt or late (5 characters) program, with and without driver enable: oversize, garbled, lost, merged, retried requests, two answers under way, the race of main line and service routine at any point of a wait |
| `bridge` | types, `BusFreed`, `ShadowTrue`, `LatchesShifted`, `DrivenOrError`, `ErrorShown`, and the liveness property `Follows` | 3 images, 3 master writes, 2 faults, 1 reset: a failed write repeated, a failed direction, a reset in mid-byte |
| `bridge_hang` | does a bus transfer return? no | 1 master write, no faults |

Fairness.  In `Serial`: the core executes (`WF` of the main line), takes a pending
enabled interrupt (`WF` of `Isr`), the shift register shifts (`WF` of `ShiftOut`), and
the program that keeps returning to its idle point sets GIE some time (`SF` of
`EnableGie`, the call the header requires).  Nothing is assumed of the program's
calls or of the line.  In `TaskMgr`: the main loop calls run_once for ever and
tasks return (`WF` of `Scheduler`).  Nothing is assumed of the tick.
In `Settings`: the core executes (`WF` of the main line) and a write cycle ends
(`WF` of `WriteDone`, a few milliseconds by the data sheet).  Resets, saves and events
are bounded by `MaxCrashes`, `MaxSaves` and `MaxEvents`, and nothing is assumed of them.
In `SwUart`: the core executes, a pending interrupt is taken and time passes; nothing makes
the program call or the line misbehave.  In `Modbus`: the program polls again and again,
a frame begun is ended, the master's timeout ends, and time passes (`SF` of `Unit`: no
program makes endless steps in no time).  In `Bridge`: the MSSP finishes what it was given, a
pending interrupt is taken, and the main line goes on if it can whenever no interrupt is pending
(`SF` of `Main`, for the timer interrupts it once in a millisecond and not for ever).
`Follows` assumes in its premise that SSPIF is not taken away; `CallsReturn` of `bridge_hang` does not.

No run disables the deadlock check.

## Findings

- Waiting inside write or flush with GIE set runs the TX handler twice over: the
  dispatch on the main line tests TXIF, is interrupted, and its TXREG store
  overwrites the byte the service routine put there (`serial_wait`).
- `epic_serial_init` with GIE already set can be interrupted between the stores
  that zero the RX ring, which leaves head and tail apart (`serial_init`).
- A tick during the snapshot can mark a task that was taken already; the round
  takes it twice, and a one-shot's second call goes through a pointer that is
  NULL by then (`taskmgr_rearm`).
- `EPIC_IRQ_ClearFlag` writes back a copy of the whole flag register: a flag of
  another source that rises in between is erased (`settings_clear`).  Every byte
  of a save does this to PIR2, where the software UART's transmitter has its flag.
- `EPIC_SWUART_Write` takes TX_IDLE for an idle transmitter; it is entered one bit before the
  stop bit is on the line, and a Write in that bit moves the armed deadline (`swuart_write`).
- The dispatchers of PIC14 and PIC18 call the SSP handler whenever SSPIF is set, although
  `lib/bus` polls that flag with its interrupt off: any other interrupt at the wrong moment
  clears it and the transfer never returns (`bridge_hang`).

Some disagreements are not the violation of a property but what a passing run and a theorem say,
or are only told here:

- An interrupt inside the unlock sequence of an EEPROM write, and the save waits until a reset
  (`CutWaits`, in Settings above).
- The driver of the expander has GPIO, and every register from GPPU on, one address too low
  (`LatchesShifted`, in Bridge above).
- Ties, priority 255 and stop in the task manager (in TaskMgr above).
- What the architecture notes of the software UART ask of an event (in SwUart above).

## Proofs

Each component has a proof module that extends its specification.  A theorem holds for
every value of the constants the module's assumption admits, and under what its
`ASSUME` adds:

| Module | Theorem | For every | Under |
|---|---|---|---|
| `SerialProofs` | `SerialTypes`, `SerialIsChannel` (`TxFifo`), `SerialFlush` (`FlushComplete`), `SerialRxAccounted`, `SerialRxInOrder` | ring size, latency, number and length of calls, arrivals | `Regime`: see Serial above |
| `TaskMgrProofs` | `TaskMgrFiresOnTime` | table size, set of periods and priorities, ticks and calls | nothing |
| | `TaskMgrTypes`, `TaskMgrCallsLiveTask`, `TaskMgrPriorityOrder` | | `Regime`: `TickRearms` is FALSE |
| | `TaskMgrRoundTakesAll` | | `Regime`, and no priority is 255 |
| `SettingsProofs` | `SettingsTypes`, `SettingsDefaultPersisted`, `SettingsSaveStores`, `SettingsCutWaits` | payload size, payloads, CRC, saves, resets, events | nothing |
| | `SettingsStoreKept` | | `CrcTells` |
| `SwUartProofs` | `SwUartNoNullChannel`, `SwUartErrorCountReal` | ring, bit time, byte width, latency, lead, Timer1 modulus, faults | nothing |
| | `SwUartTypes` | | `InMargins`, and `WritesAnyTime` is FALSE |
| `SwUartChannelProofs` | `SwUartEndToEnd`, `SwUartReadInOrder`, `SwUartLossCounted` | | likewise, and `CallFits` |
| `ModbusProofs` | `StoredTable` | request and table | nothing |
| | `ModbusTypes`, `ModbusDriverHeld`, `ModbusServesOnce`, `ModbusNeverCut` | set of requests, tables, rings, frame and answer lengths, ticks, silences, polls prompt or late | nothing |
| `ModbusPaceProofs` | `ModbusNoCollision` | | `Patient` |
| | `ModbusInTime` | | `Attentive` |
| `BridgeProofs` | `BridgeTypes`, `BridgeBusFreed`, `BridgeShadowTrue`, `BridgeLatchesShifted`, `BridgeDrivenOrError`, `BridgeErrorShown` | images, writes, faults and resets | nothing |

The hypotheses are those of the runs, and TLC checks the same properties under them.
`Patient` and `Attentive` are what the configuration of a master must grant; the instance
of `Modbus.cfg` meets both, each with equality in one bound.  `CrcTells` is evaluated by TLC for the CRC of the code and the payloads of the instance
(`MCSettings`).  `CallFits` is explained under SwUart; `SwUart.cfg` meets it.  255 has to be left
out: see TaskMgr above.

### Serial

`TypeOK` is not inductive: that `txCount` stays at most `SZ` when write increments it
needs that the test was made with room and that only pops happened since.
`CtlInv` ties control to state: the steps of write and of the dispatch are reached only with
what their tests saw still true, the dispatch on the main line runs only with
GIE clear (this is where the regime enters), and so no pop interleaves with it.
`TxInv` then says where each byte is.  `TxQueue`: the occupied slots of the ring hold
consecutive numbers that end at `txIn`, with a correction while a store, an
increment or a pop is half done; `TxWire`: shift register, TXREG and a byte in the hands of the
dispatch continue that sequence down to `wire + 1`.  `RingStep`, `RingPlace` and
`RingPlaceDiffers` are the modular arithmetic that keeps two slots of one ring apart.
`IInv` is the conjunction of the three; one lemma per group of actions preserves
each part.  `FlushInv` is a second layer for flush, and
`RxAccounted` is inductive by itself given the types.  `RxOrder` is a layer for the
receiver: drops leave gaps in the numbers, so it says that ring, byte in hand and RCREG are
increasing and all above the last byte read; `Push` and `Pop` move one byte through
it, also when the handler runs inside a read.

### TaskMgr

`TInv` (types, phases of a round, table, timing) is inductive whatever the ticks do, and
gives `FiresOnTime`: `Timing` is age + countdown + 1 = armed.  That the snapshot holds no task
twice and none that is gone is not inductive: `Noting` adds that what it holds so far is in
use, enabled and no longer ready (so the scan cannot take it again: the regime), and
stays in use until its turn.  `Picking` says what the inner search has established of
the slots it passed.  So no task is in
the snapshot twice, and that it fits its array follows by counting.

### Settings

`IInv` follows a save byte by byte: `Written` says that what is before the index is in the
EEPROM and the flag polled belongs to this write; `Cycle`, that after a cut unlock sequence no cycle runs
and the flag stays down (`CutWaits`); `Checked`, that load has cleared WRERR when
the default is saved.  `Mixed` is what resets leave: every byte is one of an image some save
was given, or blank.  `CrcTells` then turns `Mixed` into `StoreKept`; without it the
blob is only as good as its CRC.

### SwUart

`NInv` is about DeInit and Init: each takes callbacks, modes and channel away, or sets
them, in an order in which no event of a module without a channel calls back.
`ErrorsRead`: between the two reads of the counter's low byte there is a value the counter had that
has the low byte read.  `TypeOK` needs the margins: `ArmCount` would take a ring below zero if the
handler's pop came between the test in Write and the pop in the arm.  `Clear` says it cannot: while a call
looks at the transmitter or starts it, the event that would pop is not due before the call is
over (this is where `CallTime < Lead` and the excluded writes enter), `Course` that a pending event
is no older than `wait`.  `Powers` (from the cardinality of the subsets) stands in for arithmetic on 2^n.

`EndToEnd` is in a module of its own.  The line carries a frame as symbols: the start bit is 0,
the data bits are 1 to `Bits`, the stop bit is `Bits + 1`; `Symbol` is the one on the line, read off the
transmitter's state, and `Target` the one the receiver's next sample is meant for.
`Tracking` is the heart of it: a sample that is pending was due inside its symbol and will be
handled before that symbol ends; one still to come is due in the symbol on the line or in the
next, with `Latency` to spare.  `Pace` says that every symbol lasts one bit, however late the compare
event is (the code counts from the old deadline, not from now), `Followed` that the
receiver has seen the edge of every frame, `Gap` that a call of Write meets a byte
whose last bit it cannot outlast, or a line at rest.  Given the times, the data is a sum: `Split` says that the bits sampled
and those still to come make up the next byte (`Weights`), and `Content` counts the bytes: taken out
of the ring, on the line, waiting for their stop bit (`Lagging`).  `Broken` follows a break,
which the receiver is done with before it is over.  `CInv` adds Init (`SettingUp`) and DeInit:
`Leaving` says that of a byte on its way when DeInit begins at most one more sample is taken, so what
still comes in was whole.  That needs saying, since the dispatcher runs the receiver's handler
whenever the flag is up, with its interrupt already off.

For `ReadInOrder` and `LossCounted`, `Inbox` says that the bytes in the receive ring increase,
above the last one read, also between the two halves of a pop; `Account` says that frames
and breaks that came are read, in the ring, errors, or a break not over yet.

The attempt found a margin the notes of the library do not name.  `CallFits`: a call
takes less than a bit, by the latency of an event.  A Write that begins when the event of the
last data bit is pending finds the transmitter in TX_DATA; if it is still running when the event after
that one is handled, its test of the state sees the TX_IDLE of a stop bit that is armed and not
yet out, and it moves the armed deadline as in `swuart_write`.  TLC shows the bound to be what it takes:
with a bit of 6, a lead of 5 and a latency of 2 ticks, `EndToEnd` holds for calls of 3 ticks and is violated for calls of 4.  In the code a bit at 9600 baud is about 521 cycles (epic_swuart.c:326), and
the time of a call of Write grows with the number of bytes it stores.

### Modbus

`Typed` is inductive.  `Held` ties the driver to the states of send_response.  For
`ServesOnce`, `Order` says that characters in ring and frame are known and in the order sent, and
that a request being sent has not been served: so a whole frame is one that was not served
before.  `StoredTable` shows that the code's write loop is the table update
`RegisterServer` describes in sets.  `NeverCut` is the timing argument: `Fresh` bounds the age of the
last character in the frame (ticks, counted down to the unit) by what pause and poll can have
added, and `ModbusAssumption` makes that less than T35.

`NoCollision` and `InTime` need to know how long a poll takes.  `Patient` states it: T3.5,
two waits for the next poll, four times what a call takes and the answer itself fit
into the master's timeout, and the silence before a request is longer than two
calls.  Both theorems are about the time until the race on the transmit ring: `Unraced` is a step before it, and
`UnracedStep` says that every step to a state without it is one.  The bound is exact on the instance: with a timeout of 10 instead of 11 TLC finds
both properties violated.  `Soon` follows the time of a prompt slave through the steps: the
characters are read within a wait and a call (`ReadSoon`), the age of the frame lags
behind the silence on the line by no more than `Lag`, and once an answer is under way
`gap + Owed` does not grow, apart from what one call adds (`AnswersSoon`).  So the master cannot give up while
an answer leaves, and nothing of a request it gave up is left to be answered later
(`NoneStale`): that is `NoCollision`.

For `InTime`, `Attentive` adds that the silence before a request lets the slave tell the end of
the one before, and that the ring holds what comes between two reads.  Then
frame and ring together are the request as far as it was sent (`Intact`), nothing is
dropped (`Uncrowded`), and nothing is rejected that is whole (`SilentWhole`).  `Missing` is why a
request that passes the CRC was hit by no fault, so nothing follows it in the ring.

The attempt also corrected the run: `ServesOnce` had been checked with a transmit ring so small that
no second request could be performed while an answer was under way.  The instance now has
answers longer than the ring and a timeout that lets two be under way, and the promise
keeps a queue of answers.

### Bridge

`Course` ties the transfer to the task, `Wire` the expander to the byte of the transfer it
has seen (with a byte refused, or taken and its acknowledge lost), `Errors`
the accumulated error to what was refused, and `Latches` the bytes the expander took at the
driver's addresses and `Directions` its IODIR to the shadows, outside the window in which a byte has arrived and the return has not.

### Only model-checked

- Liveness (`TxDelivered`, `CallsReturn`, `DueRuns`, `SaveReturns`, `AllArrive`, `Drains`,
  `Follows`): fairness and ENABLED are out of the prover's reach.
- That the CRC of the code tells the payloads of the instance apart: a computation.

## Not modelled

Baud rates, synchronous mode, formatting, and the interrupt sources of other
drivers in `Serial` (a handler of another source touches neither ring);
`epic_taskmgr_ticks` and the Timer0 set-up in `TaskMgr`; `Settings` follows the
parts that have EEIF in PIR2, one blob at a fixed address.  `SwUart` follows channel A;
channel B (PIC16F193X) is the same code.  `Bridge` leaves out the scripted expander and the staged
frames of the test builds, the ADC and heartbeat tasks (the heartbeat prints on the Modbus
UART), mem_read, the SPI transfers, and the pin functions of the expander that read,
modify and write.

`lib/tick`, `lib/fsm`, `lib/debounce`, `lib/encoder`, `lib/adcfilter`, `lib/pid`, `lib/math`,
`lib/console`, `lib/lcd` are sequential, and unit tests of the repository reach them; the
one race of `lib/tick` (a multi-byte read) is the one `ErrorCountReal` checks for the software UART.
`lib/usb` is a polled wrapper, without interrupts, over the vendored M-Stack, and what can
go wrong in it (a bus reset, a host that goes away) is decided there; `lib/sdcard` is one
command and response exchange at a time with an external card.
The drivers of the other families, and the simulators that stand in for
them on the host, have the same interface on other registers.

Instruction-level hazards
(bank selection, the page of a handler, compilers that split a byte increment)
are below the models: a one-byte read-modify-write is one step, as the comments
of both libraries assume.
