------------------------------- MODULE Cipher -------------------------------
(***************************************************************************)
(* The masking of payloads (repo/ws/cipher.go): byte i of a chunk that     *)
(* starts at some offset of the payload is combined with one byte of the   *)
(* mask. Cipher takes short chunks byte by byte and long ones eight bytes  *)
(* at a time between an unaligned beginning and a rest. Here is which byte *)
(* of the mask each byte of the chunk gets; the exclusive or is in module  *)
(* Frames.                                                                 *)
(***************************************************************************)
EXTENDS Naturals

\* remain: bytes to take one by one until the mask starts over.
Remain(mpos) == IF mpos = 0 THEN 0 ELSE 4 - mpos

Ln(offset) == Remain(offset % 4)
Rn(n, offset) == (n - Ln(offset)) % 8

\* The three loops of Cipher for a chunk of n >= 8 bytes.
InHead(n, offset, i) == i < Ln(offset)
InTail(n, offset, i) == i >= n - Rn(n, offset)
InWide(n, offset, i) == \E k \in 0..(((n - Ln(offset) - Rn(n, offset)) \div 8) - 1) :
                            i \in (Ln(offset) + 8 * k)..(Ln(offset) + 8 * k + 7)

\* The byte of the mask that a loop gives to byte i: the wide loop lays the
\* mask twice over each eight bytes, from its first byte on.
KeyInWide(offset, i) == ((i - Ln(offset)) % 8) % 4
KeyByByte(offset, i) == ((offset % 4) + i) % 4

\* Position in the mask, from 0, of the byte that byte i of the chunk gets.
KeyIndex(n, offset, i) ==
    IF n < 8 THEN (offset + i) % 4
    ELSE IF InHead(n, offset, i) \/ InTail(n, offset, i) THEN KeyByByte(offset, i)
    ELSE KeyInWide(offset, i)
=============================================================================
