------------------------------ MODULE ByteOrder ------------------------------
(***************************************************************************)
(* The loads and stores of fixed-width integers in byte_order.hpp: a       *)
(* buffer is the tuple of its bytes, the byte at p[0] first.  The shifted  *)
(* bytes of a load have no bit in common, so that | is their sum.          *)
(***************************************************************************)
EXTENDS Integers, Sequences

Byte == 0 .. 255

load_be16(p) == 256 * p[1] + p[2]
load_le16(p) == 256 * p[2] + p[1]
load_be32(p) == 16777216 * p[1] + 65536 * p[2] + 256 * p[3] + p[4]
load_le32(p) == 16777216 * p[4] + 65536 * p[3] + 256 * p[2] + p[1]

(* The casts to int16_t and int32_t: two's complement *)
Signed16(v) == IF v < 32768 THEN v ELSE v - 65536
Signed32(v) == IF v < 32768 * 65536 THEN v ELSE v - 65536 * 65536

load_be16s(p) == Signed16(load_be16(p))
load_le16s(p) == Signed16(load_le16(p))
load_be32s(p) == Signed32(load_be32(p))
load_le32s(p) == Signed32(load_le32(p))

(* The casts to uint8_t keep the last eight bits. *)
store_be16(v) == <<(v \div 256) % 256, v % 256>>
store_le16(v) == <<v % 256, (v \div 256) % 256>>
store_be32(v) ==
    <<(v \div 16777216) % 256, (v \div 65536) % 256, (v \div 256) % 256, v % 256>>
store_le32(v) ==
    <<v % 256, (v \div 256) % 256, (v \div 65536) % 256, (v \div 16777216) % 256>>
=============================================================================
