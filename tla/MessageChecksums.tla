--------------------------- MODULE MessageChecksums ---------------------------
(***************************************************************************)
(* Packed frames with the checksums of the makes: which of them a message  *)
(* has, and what they are worth.                                           *)
(***************************************************************************)
EXTENDS PackedFrame, Checksums

CONSTANTS Make, Address   \* of each message: whose checksum it has, its id

\* calc_checksum of the message's CHECKSUM signal.
MessageChecksum(m, d) ==
    CASE Make[m] = "honda"         -> HondaChecksum(Address[m], d)
      [] Make[m] = "toyota"        -> ToyotaChecksum(Address[m], d)
      [] Make[m] = "subaru"        -> SubaruChecksum(Address[m], d)
      [] Make[m] = "chrysler"      -> ChryslerChecksum(d)
      [] Make[m] = "volkswagen"    -> VolkswagenMqbChecksum(Address[m], d)
      [] Make[m] = "xor"           -> XorChecksum(ByteOf(Layout[m]["CHECKSUM"].lsb), d)
      [] Make[m] = "body"          -> PedalChecksum(d)
      [] Make[m] = "hyundai_canfd" -> HkgCanFdChecksum(Address[m], d)
-----------------------------------------------------------------------------
\* The positions that the checksum of each make leaves out.
Unread(m) ==
    LET last_byte == 8 * (Size[m] - 1)
        own_byte  == 8 * ByteOf(Layout[m]["CHECKSUM"].lsb)
    IN CASE Make[m] = "honda" -> last_byte .. last_byte + 3
         [] Make[m] \in {"toyota", "chrysler", "body"} -> last_byte .. last_byte + 7
         [] Make[m] \in {"subaru", "volkswagen"} -> 0 .. 7
         [] Make[m] = "xor" -> own_byte .. own_byte + 7
         [] Make[m] = "hyundai_canfd" -> 0 .. 15

Makes == {"honda", "toyota", "chrysler", "body", "subaru", "volkswagen", "xor", "hyundai_canfd"}

ChecksumSize(make) ==
    CASE make = "honda"         -> 4
      [] make = "hyundai_canfd" -> 16
      [] OTHER                  -> 8

\* dbc.cc asserts the size of a CHECKSUM and at which bit of a byte it starts;
\* the DBC files have it in the byte that the checksum leaves out.
ASSUME MakesAssumption ==
    \A m \in Messages :
        /\ Address[m] \in Nat
        /\ HasSignal(m, "CHECKSUM") =>
              LET own == Layout[m]["CHECKSUM"] IN
              /\ Make[m] \in Makes
              /\ own.size = ChecksumSize(Make[m])
              /\ {Pos(own, k) : k \in 0 .. own.size - 1} = Unread(m)

FlippedBit(x, k) == IF Bit(x, k) = 1 THEN x - Pow2[k] ELSE x + Pow2[k]

Flipped(d, b) == [d EXCEPT ![b \div 8 + 1] = FlippedBit(@, b % 8)]

IsVolkswagen(m) == HasSignal(m, "CHECKSUM") /\ Make[m] = "volkswagen"

\* What the payload CRC of n bytes makes of a change of bit k of its first byte.
CounterSpread(k, n) == Loop(VolkswagenByte, 0, [i \in 1 .. n |-> IF i = 1 THEN Pow2[k] ELSE 0])

\* The rows of padding: no two bytes of COUNTERs one bit apart differ by just what
\* that bit changes of the payload CRC.  This depends on the size of the message;
\* every row of common.cc is so for the size vw_mqb_2010.dbc gives its address.
ASSUME PadAssumption ==
    /\ \A a \in DOMAIN MagicPad : MagicPad[a] \in [1 .. 16 -> 0 .. 255]
    /\ \A m \in Messages : IsVolkswagen(m) =>
          /\ Size[m] >= 2
          /\ \A counter \in 0 .. 15, k \in 0 .. 3 :
                Xor(PadByte(Address[m], counter), PadByte(Address[m], FlippedBit(counter, k)))
                   # CounterSpread(k, Size[m] - 1)

\* What MCFrame gives Checksum as its value, for the theorems.
ChecksumsOfMakes ==
    \A m \in Messages : HasSignal(m, "CHECKSUM") =>
        \A d \in Seq(0 .. 255) : Checksum(m, d) = MessageChecksum(m, d)
-----------------------------------------------------------------------------
(***************************************************************************)
(* A frame with one wrong bit is rejected: its CHECKSUM does not match,    *)
(* also if the bit is in the CHECKSUM, in the COUNTER, or in no signal.    *)
(***************************************************************************)
BitErrorsRejected ==
    bytes # << >> /\ HasSignal(received.address, "CHECKSUM") =>
        \A b \in 0 .. 8 * Len(bytes) - 1 : ~ChecksumMatches(received.address, Flipped(bytes, b))

(***************************************************************************)
(* No checksum depends on a bit of the CHECKSUM it is written to, and each *)
(* fits it: pack() computes it over a CHECKSUM of 0 (packer.cc:91), parse()*)
(* over the one it received.  It is ExcludesItself, for every frame here   *)
(* and each bit.                                                           *)
(***************************************************************************)
OwnBitsExcluded ==
    bytes # << >> /\ HasSignal(received.address, "CHECKSUM") =>
        LET m == received.address  own == Layout[m]["CHECKSUM"] IN
        /\ Checksum(m, bytes) \in 0 .. Pow2[own.size] - 1
        /\ \A k \in 0 .. own.size - 1 :
              Checksum(m, Flipped(bytes, Pos(own, k))) = Checksum(m, bytes)
-----------------------------------------------------------------------------
\* A shift register that is fed bit by bit and divides by x^width + poly; each
\* bit meets the one that leaves the register, whose place is `top'.
Fed(register, bit, poly, top) ==
    LET out == (register \div top + bit) % 2
        doubled == (2 * register) % (2 * top)
    IN IF out = 1 THEN Xor(doubled, poly) ELSE doubled

FedBit(poly, top) ==
    [register \in Nat |-> [bit \in Nat |-> Fed(register, bit, poly, top)]]

FedByte(poly, top) ==
    [register \in Nat |-> [b \in Nat |-> Loop(FedBit(poly, top), register, BitsOf(b))]]

Remainder(d, init, poly, top) == Loop(FedByte(poly, top), init, d)

(***************************************************************************)
(* The CRCs among the checksums are written four ways: with branches       *)
(* (common.cc:44), with tables of bytes and words (common.cc:123, 232) and *)
(* with a loop backwards through the bytes (common.cc:215).  On every      *)
(* frame they are what bit by bit division by the polynomial gives, for    *)
(* the "CRC8 8H2F/AUTOSAR", the "CRC-16 XMODEM" and the "standard crc8".   *)
(***************************************************************************)
ChecksumsAreCrcs ==
    bytes # << >> =>
        LET m == received.address  size == Len(bytes) IN
        /\ ChryslerChecksum(bytes) = Xor(Remainder(Front(bytes), 255, 29, 128), 255)
        /\ VolkswagenPayload(bytes) = Remainder(Tail(bytes), 255, 47, 128)
        /\ PedalChecksum(bytes) = Remainder(Reverse(Front(bytes)), 255, 213, 128)
        /\ HkgCanFdChecksum(Address[m], bytes) =
              Xor(Remainder(SubSeq(bytes, 3, size) \o <<Address[m] % 256, (Address[m] \div 256) % 256>>,
                            0, 4129, 32768),
                  HkgFinalXor(size))
=============================================================================
