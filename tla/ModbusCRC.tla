----------------------------- MODULE ModbusCRC -----------------------------
(***************************************************************************)
(* crc16Modbus of pkg/proto/modbus/client.go, for TLC: bit operations are  *)
(* kept out of the modules that may be proved about.                       *)
(***************************************************************************)
EXTENDS Integers, Sequences, Bitwise

Crc == 0 .. 65535

\* n rounds of the inner loop: 40961 is 0xA001, the reversed polynomial.
Rounds(crc) ==
  LET round[c \in Crc, n \in 0 .. 8] ==
        IF n = 0 THEN c
        ELSE round[IF c % 2 = 1 THEN (c \div 2) ^^ 40961 ELSE c \div 2, n - 1]
  IN round[crc, 8]

\* The outer loop, from byte k on.
crc16Modbus(data) ==
  LET crc[c \in Crc, k \in 1 .. Len(data) + 1] ==
        IF k > Len(data) THEN c ELSE crc[Rounds(c ^^ data[k]), k + 1]
  IN crc[65535, 1]

\* Read register 0 of unit 1: 01 03 00 00 00 01 has the CRC 84 0A on the line.
ASSUME KnownRequest == crc16Modbus(<<1, 3, 0, 0, 0, 1>>) = 10 * 256 + 132
=============================================================================
