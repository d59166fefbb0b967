------------------------------- MODULE Checksum -------------------------------
(***************************************************************************)
(* The integrity checks of checksum.hpp.  A frame is the tuple of its      *)
(* bytes; a right shift of an unsigned value is a division and a left      *)
(* shift of a uint16_t a multiplication modulo 2^16.                       *)
(***************************************************************************)
EXTENDS Integers, Sequences, Bitwise
LOCAL INSTANCE SequencesExt

Round8(crc) == IF crc % 2 = 1 THEN (crc \div 2) ^^ 140 ELSE crc \div 2
Round16(crc) == LET up == (2 * crc) % 65536
                IN  IF crc >= 32768 THEN up ^^ 4129 ELSE up

(* The inner loops: a round for each bit of the byte *)
Bits == <<0, 1, 2, 3, 4, 5, 6, 7>>

crc8_maxim(data) ==
    LET after == [crc \in 0 .. 255 |-> FoldLeft(LAMBDA c, b : Round8(c), crc, Bits)]
    IN  FoldLeft(LAMBDA crc, d : after[crc ^^ d], 0, data)

crc16_xmodem(data) ==
    LET after == [crc \in 0 .. 65535 |-> FoldLeft(LAMBDA c, b : Round16(c), crc, Bits)]
    IN  FoldLeft(LAMBDA crc, d : after[crc ^^ (256 * d)], 0, data)

checksum_inverted_sum(data) ==
    255 - FoldLeft(LAMBDA sum, d : (sum + d) % 256, 0, data)

LOCAL Digits == [i \in 1 .. 9 |-> 48 + i]
LOCAL Frames == {<<>>, <<0>>, <<255>>, <<128, 1>>, <<18, 52, 86, 120>>}

(* The frames with one byte of f replaced by another *)
LOCAL Damaged(f) == {[f EXCEPT ![i] = (f[i] + e) % 256] : i \in DOMAIN f, e \in 1 .. 255}

(* The catalogue's check values, which the comments of checksum.hpp and    *)
(* the tests name                                                          *)
ASSUME CheckValues ==
    crc8_maxim(Digits) = 161 /\ crc16_xmodem(Digits) = 12739

(* A frame followed by its own check, in the order the devices send it,    *)
(* checks to a constant: what lets a driver check a frame in one pass.     *)
ASSUME FrameWithItsCheck ==
    \A f \in Frames :
        /\ crc8_maxim(Append(f, crc8_maxim(f))) = 0
        /\ crc16_xmodem(f \o <<crc16_xmodem(f) \div 256, crc16_xmodem(f) % 256>>) = 0
        /\ checksum_inverted_sum(Append(f, checksum_inverted_sum(f))) = 0

(* No damage to a single byte, wherever it is, goes unnoticed. *)
ASSUME DamageIsSeen ==
    \A f \in Frames : \A g \in Damaged(f) :
        /\ crc8_maxim(g) # crc8_maxim(f)
        /\ crc16_xmodem(g) # crc16_xmodem(f)
        /\ checksum_inverted_sum(g) # checksum_inverted_sum(f)
===============================================================================
