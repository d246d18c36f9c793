----------------------------- MODULE MCSettings -----------------------------
(***************************************************************************)
(* Settings with payloads of three bytes and the CRC of the code.          *)
(***************************************************************************)
EXTENDS Settings, FiniteSets

(* x ^ y.                                                                  *)
Xor[x \in Nat, y \in Nat] ==
  IF x = 0 THEN y ELSE (2 * Xor[x \div 2, y \div 2]) + ((x + y) % 2)

(* settings_crc16_update: one bit, then one byte.                          *)
CrcBit[crc \in 0 .. 65535] ==
  IF crc >= 32768 THEN Xor[(crc * 2) % 65536, 4129] ELSE crc * 2

CrcByte(crc, byte) ==
  LET step[bit \in 0 .. 8] ==
        IF bit = 0 THEN Xor[crc, byte * 256] ELSE CrcBit[step[bit - 1]]
  IN step[8]

(* settings_crc16.                                                         *)
Crc16(data, size) ==
  LET fold[k \in 0 .. size] ==
        IF k = 0 THEN 65535 ELSE CrcByte(fold[k - 1], data[k - 1])
  IN fold[size]

(* The published check value of CRC-16-CCITT for the digits 1 to 9.        *)
ASSUME CheckValue == Crc16([k \in 0 .. 8 |-> 49 + k], 9) = 10673

MCSize == 3
MCByte == {0, 1, 255}
MCContent == [0 .. MCSize - 1 -> MCByte]

Trailer(p) == LET crc == Crc16(p, MCSize) IN <<crc \div 256, crc % 256>>
Trailers == {<<p, Trailer(p)>> : p \in MCContent}
MCCrc(p) == (CHOOSE t \in Trailers : t[1] = p)[2]

(* No two payloads of the instance share a trailer.                        *)
ASSUME TrailersDiffer ==
  \A p, q \in MCContent : p # q => Trailer(p) # Trailer(q)

Blob(a, b, c) == [k \in 0 .. 2 |-> CASE k = 0 -> a [] k = 1 -> b [] k = 2 -> c]
MCPayloads == {Blob(0, 0, 0), Blob(1, 0, 1), Blob(0, 1, 255)}
MCDefault == Blob(1, 1, 0)

(* The torn blobs of the instance are told from the saved ones.            *)
ASSUME TrailersTell == CrcTells

=============================================================================
