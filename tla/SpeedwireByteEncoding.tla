----------------------- MODULE SpeedwireByteEncoding -----------------------
(***************************************************************************)
(* SpeedwireByteEncoding (src/SpeedwireByteEncoding.cpp): unsigned         *)
(* integers of 2, 4 or 8 bytes at an address of a packet buffer. A value   *)
(* is the tuple of its bytes, the most significant byte first; a buffer is *)
(* a function from addresses 0, 1, ... to bytes.                           *)
(***************************************************************************)
EXTENDS Integers, SequencesExt

Byte == 0..255
UINT16_MAX == 65535

ReadBytes(udp, at, n) == [i \in 1..n |-> udp[at + i - 1]]

WriteBytes(udp, at, bytes) ==
    [o \in DOMAIN udp |-> IF o \in at..(at + Len(bytes) - 1) THEN bytes[o - at + 1]
                          ELSE udp[o]]

getBigEndian(udp, at, n) == ReadBytes(udp, at, n)
setBigEndian(udp, at, value) == WriteBytes(udp, at, value)

(* Mutant: the bytes are stored as on the wire of the emeter protocol.     *)
setLittleEndianAsIs(udp, at, value) == WriteBytes(udp, at, value)

getLittleEndian(udp, at, n) == Reverse(ReadBytes(udp, at, n))
setLittleEndian(udp, at, value) == WriteBytes(udp, at, Reverse(value))

(* The number a tuple of bytes stands for (up to 2^31 - 1), and back.      *)
ToNat(value) ==
    LET n[i \in 0..Len(value)] == IF i = 0 THEN 0 ELSE n[i - 1] * 256 + value[i]
    IN  n[Len(value)]
Uint16(n) == <<(n \div 256) % 256, n % 256>>
Uint32(n) == Uint16(n \div (UINT16_MAX + 1)) \o Uint16(n % (UINT16_MAX + 1))

(* A field is its offset and its width.                                    *)
Covers(field, offset) == offset \in field[1]..(field[1] + field[2] - 1)

Zeros(n) == [i \in 1..n |-> 0]

=============================================================================
