------------------------------ MODULE Checksums ------------------------------
(***************************************************************************)
(* The CHECKSUM of each make (opendbc/can/common.cc): a function of the    *)
(* address and the bytes of a frame, d[i + 1] being byte i.  The two CRC   *)
(* tables are built once, before main().                                   *)
(***************************************************************************)
EXTENDS Bits, Sequences, SequencesExt

CONSTANT MagicPad   \* volkswagen_mqb_checksum's table of padding bytes

\* s += d[i].
Adding == [s \in Nat |-> [b \in Nat |-> s + b]]

Total(items) == Loop(Adding, 0, items)

\* Digits of an address, which is at most 29 bits wide.
NibbleSum(n) == Total([k \in 1 .. 8 |-> (n \div Pow2[4 * (k - 1)]) % 16])
ByteSum(n)   == Total([k \in 1 .. 4 |-> (n \div Pow2[8 * (k - 1)]) % 256])

\* The low half of the last byte is the checksum itself.
HondaChecksum(address, d) ==
    LET n == Len(d)
        Digits == [i \in 1 .. n |-> IF i = n THEN d[n] \div 16 ELSE (d[i] % 16) + (d[i] \div 16)]
    IN (8 - (NibbleSum(address) + Total(Digits)) + (IF address > 2047 THEN 3 ELSE 0)) % 16

ToyotaChecksum(address, d) == (Len(d) + ByteSum(address) + Total(Front(d))) % 256

\* Mutants: no byte is skipped; two are.
SubaruSkipsNone(address, d) == (ByteSum(address) + Total(d)) % 256

SubaruSkipsTwo(address, d) == (ByteSum(address) + Total(Tail(Tail(d)))) % 256

SubaruChecksum(address, d) == (ByteSum(address) + Total(Tail(d))) % 256

\* x ^= d[i].
Xoring == [x \in Nat |-> [b \in Nat |-> Xor(x, b)]]

\* The byte where the checksum lives is left out.
XorChecksum(checksum_byte, d) ==
    Loop(Xoring, 0, SubSeq(d, 1, checksum_byte) \o SubSeq(d, checksum_byte + 2, Len(d)))
-----------------------------------------------------------------------------
\* Bits of a byte, most significant first.
BitsOf(b) == [k \in 1 .. 8 |-> Bit(b, 8 - k)]

\* chrysler_checksum, the body of its inner loop.  Mutant: 0x1C is not chosen.
ChryslerTurnPlain(checksum, bit) ==
    LET top == checksum \div 128  doubled == (2 * checksum) % 256
    IN IF bit = 1 THEN Xor(IF top = 1 THEN 1 ELSE 29, doubled + 1)
       ELSE Xor(IF top = 1 THEN 29 ELSE 0, doubled)

ChryslerTurn(checksum, bit) ==
    LET top == checksum \div 128  doubled == (2 * checksum) % 256
    IN IF bit = 1 THEN Xor(IF top = 1 THEN 1 ELSE 28, doubled + 1)
       ELSE Xor(IF top = 1 THEN 29 ELSE 0, doubled)

ChryslerBit  == [checksum \in Nat |-> [bit \in Nat |-> ChryslerTurn(checksum, bit)]]
ChryslerByte == [checksum \in Nat |-> [b \in Nat |-> Loop(ChryslerBit, checksum, BitsOf(b))]]

ChryslerChecksum(d) == Xor(Loop(ChryslerByte, 255, Front(d)), 255)
-----------------------------------------------------------------------------
\* One turn of the bitwise CRC loops; `top' is the highest bit of the register.
Shifted(crc, poly, top) ==
    LET doubled == (2 * crc) % (2 * top)
    IN IF crc >= top THEN Xor(doubled, poly) ELSE doubled

Shifting(poly, top) == [crc \in Nat |-> [j \in Nat |-> Shifted(crc, poly, top)]]

EightTimes(poly, top) ==
    [crc \in 0 .. 2 * top - 1 |-> Loop(Shifting(poly, top), crc, EightTurns)]

crc8_lut_8h2f    == EightTimes(47, 128)
crc16_lut_xmodem == [i \in 0 .. 255 |-> EightTimes(4129, 32768)[256 * i]]

\* The loop of pedal_checksum over the bits of a byte.
PedalTurns == EightTimes(213, 128)

PedalByte == [crc \in Nat |-> [b \in Nat |-> PedalTurns[Xor(crc, b)]]]

PedalChecksum(d) == Loop(PedalByte, 255, Reverse(Front(d)))

VolkswagenByte == [crc \in Nat |-> [b \in Nat |-> crc8_lut_8h2f[Xor(crc, b)]]]

\* The payload CRC, before the padding byte.
VolkswagenPayload(d) == Loop(VolkswagenByte, 255, Tail(d))

\* The padding depends on the address and the COUNTER in the second byte.
PadByte(address, counter) ==
    IF address \in DOMAIN MagicPad THEN MagicPad[address][counter + 1] ELSE 0

VolkswagenMqbChecksum(address, d) ==
    Xor(crc8_lut_8h2f[Xor(VolkswagenPayload(d), PadByte(address, d[2] % 16))], 255)

HkgTurn(crc, b) == Xor(256 * (crc % 256), crc16_lut_xmodem[Xor(crc \div 256, b)])

HkgByte == [crc \in Nat |-> [b \in Nat |-> HkgTurn(crc, b)]]

HkgFinalXor(size) ==
    CASE size = 8  -> 24361
      [] size = 16 -> 1053
      [] size = 24 -> 33181
      [] size = 32 -> 40795
      [] OTHER     -> 0

HkgCanFdChecksum(address, d) ==
    Xor(Loop(HkgByte, 0, SubSeq(d, 3, Len(d)) \o <<address % 256, (address \div 256) % 256>>),
        HkgFinalXor(Len(d)))
=============================================================================
