------------------------------ MODULE MCModbus ------------------------------
(***************************************************************************)
(* The slave with two coils and two registers, no discrete inputs, and     *)
(* requests on either side of every limit the handlers test.               *)
(***************************************************************************)
EXTENDS Modbus

Request(fc, start, qty, value, bytes, data, len) ==
  [fc |-> fc, start |-> start, qty |-> qty, value |-> value, bytes |-> bytes,
   data |-> data, len |-> len]
Reading0(fc, start, qty, len) == Request(fc, start, qty, 0, 0, << >>, len)

MCReads ==
  {Reading0(1, 1, 1, 8), Reading0(2, 0, 1, 8), Reading0(3, 0, 2, 8),
   Reading0(3, 0, 126, 8), Reading0(1, 0, 1, 9)}
MCWrites ==
  {Request(5, 0, 0, 65280, 0, << >>, 8), Request(5, 0, 0, 1, 0, << >>, 8),
   Request(6, 0, 0, 1, 0, << >>, 8),
   Request(15, 0, 2, 0, 1, <<0, 1>>, 10), Request(15, 1, 2, 0, 1, <<1, 1>>, 10),
   Request(16, 0, 2, 0, 4, <<0, 1>>, 13), Request(16, 65535, 1, 0, 2, <<1>>, 11),
   Request(16, 0, 1, 0, 4, <<1, 1>>, 13), Request(16, 0, 1, 0, 2, <<1>>, 13)}
MCRequests == MCReads \cup MCWrites \cup {Reading0(7, 0, 1, 8)}

=============================================================================
