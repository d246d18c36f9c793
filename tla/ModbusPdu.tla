----------------------------- MODULE ModbusPdu -----------------------------
(***************************************************************************)
(* The function-code handlers of lib/modbus: what a frame that has passed  *)
(* the CRC and the address test does to the register map, and the response *)
(* it gets.  A register or coil is an index of a function, bit packing and *)
(* byte order are left out; every length and quantity is the code's own.   *)
(*                                                                         *)
(* A request is a record: fc, start, qty (an address for the single        *)
(* writes), value, bytes and data of the write requests, and len, the      *)
(* bytes of the frame with address and CRC.                                *)
(***************************************************************************)
EXTENDS Naturals, SequencesExt

CONSTANT MaxAdu                           (* EPIC_MODBUS_MAX_ADU, in bytes *)

ASSUME MaxAduAssumption == MaxAdu \in Nat /\ MaxAdu >= 8

(* An absent table is one without entries: no range lies inside it.        *)
Size(table) == Cardinality(DOMAIN table)

(* What a handler returns: the length 0, an exception, or the data.        *)
Dropped        == [kind |-> "dropped"]
Exception(exc) == [kind |-> "exception", exc |-> exc]
Data(values)   == [kind |-> "data", values |-> values]
Echo           == [kind |-> "echo"]

IllegalFunction == 1
IllegalAddress  == 2
IllegalValue    == 3

(* start + qty is a 32-bit sum, so it does not wrap.                       *)
Beyond(r, table) == r.start + r.qty > Size(table)

(* Mutation of Beyond: a 16-bit sum.                                       *)
BeyondWrapped(r, table) == (r.start + r.qty) % 65536 > Size(table)

HandleRead(r, table, limit, bytes) ==
  IF r.len # 8 THEN Dropped
  ELSE IF r.qty = 0 \/ r.qty > limit THEN Exception(IllegalValue)
  ELSE IF Beyond(r, table) THEN Exception(IllegalAddress)
  ELSE IF bytes + 5 > MaxAdu THEN Exception(IllegalValue)
  ELSE Data([i \in 0 .. r.qty - 1 |-> table[r.start + i]])

BitBytes(qty) == (qty + 7) \div 8
RegBytes(qty) == qty * 2

HandleReadBits(r, table) == HandleRead(r, table, 2000, BitBytes(r.qty))
HandleReadRegs(r, table) == HandleRead(r, table, 125, RegBytes(r.qty))

(* A write returns the table it leaves behind and the response.            *)
Kept(table, resp) == [table |-> table, resp |-> resp]

HandleWriteSingleCoil(r, table) ==
  IF r.len # 8 THEN Kept(table, Dropped)
  ELSE IF r.value \notin {0, 65280} THEN Kept(table, Exception(IllegalValue))
  ELSE IF r.start >= Size(table) THEN Kept(table, Exception(IllegalAddress))
  ELSE Kept([table EXCEPT ![r.start] = IF r.value = 65280 THEN 1 ELSE 0], Echo)

HandleWriteSingleReg(r, table) ==
  IF r.len # 8 THEN Kept(table, Dropped)
  ELSE IF r.start >= Size(table) THEN Kept(table, Exception(IllegalAddress))
  ELSE Kept([table EXCEPT ![r.start] = r.value], Echo)

(* The loop over the data; an index beyond the table is a write beyond it. *)
Stored(r, table) ==
  FoldLeft(LAMBDA t, i : [t EXCEPT ![r.start + i - 1] = r.data[i]],
           table, [i \in 1 .. r.qty |-> i])

HandleWriteMultiple(r, table, limit, bytes) ==
  IF r.len < 9 THEN Kept(table, Dropped)
  ELSE IF r.qty = 0 \/ r.qty > limit \/ r.bytes # bytes
    THEN Kept(table, Exception(IllegalValue))
  ELSE IF 7 + r.bytes + 2 # r.len THEN Kept(table, Dropped)
  ELSE IF Beyond(r, table) THEN Kept(table, Exception(IllegalAddress))
  ELSE Kept(Stored(r, table), Echo)

HandleWriteCoils(r, table) == HandleWriteMultiple(r, table, 1968, BitBytes(r.qty))
HandleWriteRegs(r, table)  == HandleWriteMultiple(r, table, 123, RegBytes(r.qty))

(* process_frame's switch.                                                 *)
Reading(map, resp)   == [map |-> map, resp |-> resp]
Writing(map, n, res) == [map |-> [map EXCEPT ![n] = res.table], resp |-> res.resp]

Handle(r, map) ==
  CASE r.fc = 1  -> Reading(map, HandleReadBits(r, map.coils))
    [] r.fc = 2  -> Reading(map, HandleReadBits(r, map.discrete))
    [] r.fc = 3  -> Reading(map, HandleReadRegs(r, map.holding))
    [] r.fc = 4  -> Reading(map, HandleReadRegs(r, map.inputs))
    [] r.fc = 5  -> Writing(map, "coils", HandleWriteSingleCoil(r, map.coils))
    [] r.fc = 6  -> Writing(map, "holding", HandleWriteSingleReg(r, map.holding))
    [] r.fc = 15 -> Writing(map, "coils", HandleWriteCoils(r, map.coils))
    [] r.fc = 16 -> Writing(map, "holding", HandleWriteRegs(r, map.holding))
    [] OTHER     -> Reading(map, Exception(IllegalFunction))

=============================================================================
