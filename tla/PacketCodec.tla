----------------------------- MODULE PacketCodec ----------------------------
(* How packets travel over the serial line: protocol.hpp, and the two ends  *)
(* of it in mainboard_serial_bridge_node.cpp.  A packet is a sequence of    *)
(* bytes that ends in the checksum of the bytes before it; COBS removes its *)
(* zeros, so that a zero can end the frame.  Floats are four bytes like any *)
(* others.  The module has no state: it is what lets MainboardBridge treat  *)
(* the line as one that loses whole packets and never alters them.          *)
EXTENDS Integers, Sequences

CONSTANTS
  BlockLimit,   \* the code of a full COBS block: 255 in the code, smaller for TLC
  Samples       \* bound: inputs that are encoded and decoded

Byte == 0..255
Word == 0..(2^16 - 1)

ASSUME BlockLimitAssumption == BlockLimit \in 2..255

ASSUME SamplesAssumption == Samples \subseteq Seq(Byte)

-----------------------------------------------------------------------------
(* The checksum: CRC-16 with polynomial 0x1021 from 0xffff.                 *)

Bit(a, n) == (a \div 2^n) % 2

\* Exclusive or of two numbers of sixteen bits.
Xor(a, b) ==
  LET Low[n \in 0..16] ==
        IF n = 0 THEN 0
        ELSE (IF Bit(a, n - 1) = Bit(b, n - 1) THEN 0 ELSE 2^(n - 1)) + Low[n - 1]
  IN  Low[16]

ShiftBit(crc) ==
  LET shifted == (2 * crc) % 2^16
  IN  IF crc >= 2^15 THEN Xor(shifted, 2^12 + 2^5 + 1) ELSE shifted

\* Eight shifts of a register whose low byte is empty.
ShiftByte == [high \in Byte |->
  LET Shifted[n \in 0..8] == IF n = 0 THEN 256 * high ELSE ShiftBit(Shifted[n - 1])
  IN  Shifted[8]]

\* A byte is added to the high byte; shifting is linear, and only moves the low byte up.
AddByte(byte) ==
  [crc \in Word |-> Xor(ShiftByte[Xor(crc \div 256, byte)], 256 * (crc % 256))]

Crc(bytes) ==
  LET n == Len(bytes)
      UpTo[i \in 0..n] == IF i = 0 THEN 2^16 - 1 ELSE AddByte(bytes[i])[UpTo[i - 1]]
  IN  UpTo[n]

First(s, n) == SubSeq(s, 1, n)
After(s, n) == SubSeq(s, n + 1, Len(s))

Sealed(bytes) == bytes \o <<Crc(bytes) % 256, Crc(bytes) \div 256>>

\* Mutant: only the first half of the checksum is compared.
HasValidCrcLow(packet) ==
  /\ Len(packet) >= 3
  /\ Crc(First(packet, Len(packet) - 2)) % 256 = packet[Len(packet) - 1]

HasValidCrc(packet) ==
  /\ Len(packet) >= 3
  /\ Crc(First(packet, Len(packet) - 2)) = packet[Len(packet) - 1] + 256 * packet[Len(packet)]

-----------------------------------------------------------------------------
(* Consistent overhead byte stuffing.  A block is its length and its bytes; *)
(* a zero follows every block but full ones and the last.                   *)

Block(bytes) == <<Len(bytes) + 1>> \o bytes

\* The number of bytes before the first zero, or of all bytes.
BeforeZero(bytes) ==
  CHOOSE n \in 0..Len(bytes) : /\ n = Len(bytes) \/ bytes[n + 1] = 0
                               /\ \A k \in 1..n : bytes[k] # 0

\* A block ends before a zero, at the end of the packet, or when it is full.
CobsEncode[bytes \in Seq(Byte)] ==
  LET n == BeforeZero(bytes)
      full == BlockLimit - 1
  IN  IF n >= full THEN Block(First(bytes, full)) \o CobsEncode[After(bytes, full)]
      ELSE IF n < Len(bytes) THEN Block(First(bytes, n)) \o CobsEncode[After(bytes, n + 1)]
      ELSE Block(bytes) \o <<0>>

\* Mutant: a zero follows full blocks, too.
ZeroAfterAny(code) == <<0>>

ZeroAfter(code) == IF code = BlockLimit THEN <<>> ELSE <<0>>

\* The packet in a frame, as a sequence that is empty when the frame is refused.
CobsDecode[frame \in Seq(Byte)] ==
  IF frame = <<>> THEN << <<>> >>
  ELSE LET code == frame[1]
           block == SubSeq(frame, 2, code)
           rest == CobsDecode[After(frame, code)]
       IN  IF code = 0 \/ code > Len(frame) THEN <<>>
           ELSE IF code = Len(frame) THEN <<block>>
           ELSE [k \in DOMAIN rest |-> block \o ZeroAfter(code) \o rest[k]]

-----------------------------------------------------------------------------
(* The two ends.                                                            *)

LlStatus == 1
LlImu == 2
LlUiEvent == 3
LlHeartbeat == 66

\* The packets that are handled, with the size each must have.
PacketSizes == {<<LlStatus, 38>>, <<LlImu, 41>>, <<LlUiEvent, 5>>}

IsHandled(packet) == HasValidCrc(packet) /\ <<packet[1], Len(packet)>> \in PacketSizes

ProcessFrame(frame) ==
  LET packets == CobsDecode[frame]
  IN  IF packets # <<>> /\ IsHandled(packets[1]) THEN packets ELSE <<>>

FrameLimit == 512

\* What the buffer holds after these bytes: one too many empties it and is dropped with it.
Kept(bytes) == After(bytes, Len(bytes) - (Len(bytes) % (FrameLimit + 1)))

\* The packets that are handled when these bytes are read.
Received[read \in Seq(Byte)] ==
  LET n == BeforeZero(read)
  IN  IF n = Len(read) THEN <<>>
      ELSE ProcessFrame(Kept(First(read, n))) \o Received[After(read, n + 1)]

\* The bytes on the line for these packets.
Bytes[packets \in Seq(Seq(Byte))] ==
  LET n == Len(packets)
  IN  IF n = 0 THEN <<>> ELSE Bytes[First(packets, n - 1)] \o CobsEncode[packets[n]]

-----------------------------------------------------------------------------
(* What the codec promises, for one input or one stretch of the line.  The  *)
(* properties that ask for it are in BridgeLine.                            *)

RoundTrip(bytes) ==
  LET coded == CobsEncode[bytes]
      body == SubSeq(coded, 1, Len(coded) - 1)
  IN  /\ coded[Len(coded)] = 0
      /\ \A i \in 1..Len(body) : body[i] \in 1..255
      /\ Len(coded) <= Len(bytes) + 2 + Len(bytes) \div (BlockLimit - 1)
      /\ CobsDecode[body] = <<bytes>>

SamplesReturn == \A bytes \in Samples : RoundTrip(bytes)

Splice(s, i, j) == SubSeq(s, 1, i) \o SubSeq(s, j, Len(s))

\* One byte of the line is lost, repeated, or has one bit turned over.
Damaged(bytes) ==
  {Splice(bytes, i - 1, i + 1) : i \in 1..Len(bytes)}
    \union {Splice(bytes, i, i) : i \in 1..Len(bytes)}
    \union {[bytes EXCEPT ![i] = Xor(@, 2^bit)] : i \in 1..Len(bytes), bit \in 0..7}

\* All packets, or all but one or two neighbours.
Nearly(packets) == {Splice(packets, i, i + n) : i \in 0..Len(packets), n \in 1..3}

DamageShows(packets) ==
  LET expected == Nearly(packets)
  IN  \A bytes \in Damaged(Bytes[packets]) : Received[bytes] \in expected
=============================================================================
