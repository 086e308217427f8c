------------------------------ MODULE CANCodec ------------------------------
(***************************************************************************)
(* One frame on its way: BMSCANCodec encodes a sensor reading, the channel *)
(* flips bits of the payload, and a codec at the other end decodes what    *)
(* arrives, or refuses it. Frames of other senders, well formed or not,    *)
(* arrive as well.                                                         *)
(*                                                                         *)
(* A byte is the set of its bits that are on, 7 the most significant, so   *)
(* that an exclusive or is a symmetric difference. Values are in           *)
(* hundredths of a percent, volt, ampere or degree.                        *)
(***************************************************************************)
EXTENDS Integers, Sequences

CONSTANTS
  SentReadings,      \* readings that are sent: a record of the four values
  ForeignFrames,     \* frames that arrive from elsewhere
  SenderOrder, ReceiverOrder,   \* byteorder of either codec: "big" or "little"
  RequireMAC,        \* require_mac_metadata of the receiver
  MaxFlips           \* the bits the channel flips in one payload, at most

Readings == [soc : Int, voltage : Int, current : Int, temperature : Int]

ASSUME CodecAssumption ==
  /\ SentReadings \subseteq Readings
  /\ SenderOrder \in {"big", "little"} /\ ReceiverOrder \in {"big", "little"}
  /\ RequireMAC \in BOOLEAN /\ MaxFlips \in Nat

ExpectedArbitrationId == 384    \* 0x180
PayloadLength == 8
Polynomial == {0, 2, 3, 4}      \* 0x1D

VARIABLES
  sent,       \* history: the reading the frame on the channel was encoded from, {} for none
  wire,       \* the frame on the channel, {} for none
  flipped,    \* history: how often the channel flipped one of its bits
  received    \* the values decoded from the last frame, {} if it was refused

codecVars == <<sent, wire, flipped, received>>

(***************************************************************************)
(* Bytes and integers                                                      *)
(***************************************************************************)
Xor(a, b) == (a \cup b) \ (a \cap b)
Bits(n)   == {b \in 0..7 : (n \div 2^b) % 2 = 1}
Value(byte) == CHOOSE n \in 0..255 : Bits(n) = byte

\* to_bytes and from_bytes of two bytes; a negative number is its two's complement.
TwoBytes(n, order) ==
  LET u == n % 65536
  IN  IF order = "big" THEN <<Bits(u \div 256), Bits(u % 256)>>
      ELSE <<Bits(u % 256), Bits(u \div 256)>>

Unsigned(bytes, order) ==
  IF order = "big" THEN 256 * Value(bytes[1]) + Value(bytes[2])
  ELSE 256 * Value(bytes[2]) + Value(bytes[1])

Signed(bytes, order) ==
  LET u == Unsigned(bytes, order) IN IF u >= 32768 THEN u - 65536 ELSE u

\* mutant: the bit shifted out is lost
ShiftPlain(crc) == {b + 1 : b \in crc \ {7}}

Shift(crc) == Xor({b + 1 : b \in crc \ {7}}, IF 7 \in crc THEN Polynomial ELSE {})

\* The inner loop: eight times.
ShiftByte(crc) ==
  LET Twice(c) == Shift(Shift(c))
      FourTimes(c) == Twice(Twice(c))
  IN  FourTimes(FourTimes(crc))

CRC8(data) ==
  LET crc[n \in 0..Len(data)] ==
        IF n = 0 THEN 0..7 ELSE ShiftByte(Xor(crc[n - 1], data[n]))
  IN  crc[Len(data)]

(***************************************************************************)
(* encode_sensor_reading                                                   *)
(***************************************************************************)
Encodable(r) ==
  /\ 0 <= r.soc /\ r.soc <= 10000 /\ 0 <= r.voltage /\ r.voltage <= 100000
  /\ -100000 <= r.current /\ r.current <= 100000
  /\ -4000 <= r.temperature /\ r.temperature <= 8500

Distance(a, b) == IF a < b THEN b - a ELSE a - b

\* round(): the nearest integer; half way, the quotient in floating point decides.
Rounded(x, unit) ==
  {n \in {x \div unit, x \div unit + 1} : 2 * Distance(n * unit, x) <= unit}

Frame(data, mac) ==
  [id |-> ExpectedArbitrationId, data |-> data, dlc |-> PayloadLength, fd |-> FALSE,
   extended |-> FALSE, crcValid |-> "valid", mac |-> mac]

Payload(soc, voltage, current, temperature) ==
  LET bytes == TwoBytes(soc, SenderOrder) \o TwoBytes(voltage, SenderOrder)
                 \o TwoBytes(current, SenderOrder) \o <<Bits(temperature)>>
  IN  Append(bytes, CRC8(bytes))

EncodeSensorReading(r, mac) ==
  /\ wire = {} /\ Encodable(r)
  /\ \E soc \in Rounded(r.soc, 10), voltage \in Rounded(r.voltage, 10),
        current \in Rounded(r.current, 10), temperature \in Rounded(r.temperature + 4000, 100) :
       wire' = {Frame(Payload(soc, voltage, current, temperature), mac)}
  /\ sent' = {r} /\ flipped' = 0 /\ received' = {}

(***************************************************************************)
(* The channel                                                             *)
(***************************************************************************)
FlipBit(i, b) ==
  /\ flipped < MaxFlips
  /\ \E f \in wire :
       /\ i \in DOMAIN f.data
       /\ wire' = {[f EXCEPT !.data[i] = Xor(@, {b})]}
  /\ flipped' = flipped + 1
  /\ UNCHANGED <<sent, received>>

\* A frame of another sender, or a case of the fuzzer.
Inject(f) ==
  /\ wire = {}
  /\ wire' = {f} /\ sent' = {} /\ flipped' = 0 /\ received' = {}

(***************************************************************************)
(* decode_sensor_frame                                                     *)
(***************************************************************************)
CANFDLength == <<1, 2, 3, 4, 5, 6, 7, 8, 12, 16, 20, 24, 32, 48, 64>>

\* The payload lengths a DLC stands for: none, if it is outside its range.
ExpectedLengths(f) ==
  IF f.dlc = 0 THEN {0}
  ELSE IF f.fd THEN {CANFDLength[n] : n \in {f.dlc} \cap 1..15} ELSE {f.dlc} \cap 1..8

ValidProtocol(f) ==
  /\ f.id \in 0..(IF f.extended THEN 2^29 - 1 ELSE 2^11 - 1)
  /\ Len(f.data) \in ExpectedLengths(f)

Intact(f) == f.crcValid # "invalid" /\ CRC8(SubSeq(f.data, 1, 7)) = f.data[8]

Decodable(f) ==
  /\ ValidProtocol(f) /\ f.id = ExpectedArbitrationId /\ Len(f.data) = PayloadLength
  /\ Intact(f) /\ (RequireMAC => f.mac = "valid")

DecodedValues(f) ==
  [soc |-> 10 * Unsigned(SubSeq(f.data, 1, 2), ReceiverOrder),
   voltage |-> 10 * Unsigned(SubSeq(f.data, 3, 4), ReceiverOrder),
   current |-> 10 * Signed(SubSeq(f.data, 5, 6), ReceiverOrder),
   temperature |-> 100 * Value(f.data[7]) - 4000]

DecodeSensorFrame ==
  \E f \in wire :
    /\ wire' = {}
    /\ received' = IF Decodable(f) THEN {DecodedValues(f)} ELSE {}
    /\ UNCHANGED <<sent, flipped>>

CodecInit == sent = {} /\ wire = {} /\ flipped = 0 /\ received = {}

CodecNext ==
  \/ \E r \in SentReadings, mac \in {"none", "valid", "invalid"} : EncodeSensorReading(r, mac)
  \/ \E i \in 1..PayloadLength, b \in 0..7 : FlipBit(i, b)
  \/ \E f \in ForeignFrames : Inject(f)
  \/ DecodeSensorFrame

CodecSpec == CodecInit /\ [][CodecNext]_codecVars

(***************************************************************************)
(* Properties                                                              *)
(***************************************************************************)
\* What is decoded of a frame is what was sent, to half of the unit of each field and
\* inside the ranges the validators check, at the ends of those ranges too, however many
\* bits, up to MaxFlips, the channel flips: no corruption is decoded as another reading.
DecodedIsSent ==
  \A v \in received, r \in sent :
    /\ Encodable(v)
    /\ 2 * Distance(v.soc, r.soc) <= 10 /\ 2 * Distance(v.voltage, r.voltage) <= 10
    /\ 2 * Distance(v.current, r.current) <= 10
    /\ 2 * Distance(v.temperature, r.temperature) <= 100
=============================================================================
