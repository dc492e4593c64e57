----------------------------- MODULE ByteOrder -----------------------------
(***************************************************************************)
(* The conversions of 32-bit words between the byte order of the machine   *)
(* and the network's, in include/little-oscar/osc.h and ideas/osc.h.       *)
(***************************************************************************)
EXTENDS Integers

CONSTANT BigEndian  \* the byte order of the machine

ASSUME ByteOrderAssumption == BigEndian \in BOOLEAN

(* A word is its value as an int32_t in memory; its bytes by their unit, 1, 256,
   65536 or 16777216. *)
Byte(n, unit) == (n \div unit) % 256
SignedByte(n) == IF Byte(n, 1) < 128 THEN Byte(n, 1) ELSE Byte(n, 1) - 256

(* osc_ntoh32, as an int32_t. *)
osc_ntoh32(n) ==
  IF BigEndian THEN n
  ELSE 16777216 * SignedByte(n) + 65536 * Byte(n, 256) + 256 * Byte(n, 65536)
       + Byte(n, 16777216)

osc_hton32(n) == osc_ntoh32(n)
=============================================================================
