----------------------------- MODULE AudioLength -----------------------------
(***************************************************************************)
(* The length that AudioObject::OpusBuffer2 writes before a packet and that   *)
(* OpusDeBuffer reads: one byte up to 0xC0, and two bytes above.              *)
(***************************************************************************)
EXTENDS Integers

ShortLimit == 192   \* 0xC0: lengths of one byte
Base == 63          \* 0x3F
Byte == 256         \* values of an unsigned char
Lengths == 1..4031  \* packets for which the first byte does not overflow
LengthLimit == 255  \* the longest packet whose length can be written

\* Mutant: as if the remainder were one of 0x40.
SecondByteOf64(size) == (size % Byte) % 64

\* The second byte: the cast binds tighter than the remainder.
SecondByte(size) == (size % Byte) % Base

FirstByte(size) == IF size <= ShortLimit THEN size ELSE (ShortLimit + size \div Base) % Byte

\* Bytes of a packet that go out: the loop that makes room for the second byte of a length
\* moves all but the last.
Kept(size) == IF size <= ShortLimit THEN size ELSE size - 1

\* What is read back.
LengthRead(size) ==
  IF FirstByte(size) > ShortLimit
    THEN ((FirstByte(size) - ShortLimit) * Base) + SecondByte(size)
    ELSE FirstByte(size)
=============================================================================
