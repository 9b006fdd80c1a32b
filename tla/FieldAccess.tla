----------------------------- MODULE FieldAccess -----------------------------
(***************************************************************************)
(* One signal is written into a frame again and again, and read back,      *)
(* judged bit by bit against what the DBC format means by a signal.  The   *)
(* reference knows neither bytes nor shifts: a signal is its bit positions,*)
(* least significant first.                                                *)
(***************************************************************************)
EXTENDS SignalCodec

CONSTANTS Starts, Sizes,   \* start bits and sizes of the signals to try
          Scales,          \* their [is_signed, factor, offset]
          Frames,          \* the frame before the first write
          Values,          \* physical values that are packed
          ShiftOutcomes    \* of 1ULL << 64

\* No signal is wider than the word, and a big endian one stays in be_bits
\* (DbcReader has those that do not).
ASSUME PlacesAssumption ==
    /\ Sizes \subseteq 1 .. WordBits
    /\ Starts \subseteq 0 .. 511
    /\ \A s \in Starts, n \in Sizes : BePosition(s) + n - 1 \in DOMAIN BeBits

ASSUME InputAssumption ==
    /\ Scales \subseteq [is_signed : BOOLEAN, factor : Int \ {0}, offset : Int]
    /\ Frames \subseteq Seq(0 .. 255)
    /\ Values \subseteq Int
    /\ ShiftOutcomes \subseteq Int

VARIABLES dat, start_bit, sig,
          previous, physical, raw, written   \* the last write

accessVars == <<dat, start_bit, sig, previous, physical, raw, written>>

Scaled(placed, scale) ==
    [lsb |-> placed.lsb, msb |-> placed.msb, size |-> placed.size,
     is_little_endian |-> placed.is_little_endian, is_signed |-> scale.is_signed,
     factor |-> scale.factor, offset |-> scale.offset]

AccessInit ==
    /\ dat \in Frames
    /\ \E s \in Starts, n \in Sizes, little \in BOOLEAN, scale \in Scales :
          /\ start_bit = s
          /\ sig = Scaled(Placed(s, n, little), scale)
    /\ previous = dat
    /\ physical = 0
    /\ raw = 0
    /\ written = FALSE

\* What pack() does with one of its signals.
Write(v, shl) ==
    /\ physical' = v
    /\ raw' = Encode(sig, v, shl)
    /\ dat' = SetValue(dat, sig, Encode(sig, v, shl))
    /\ previous' = dat
    /\ written' = TRUE
    /\ UNCHANGED <<start_bit, sig>>

AccessNext == \E v \in Values, shl \in ShiftOutcomes : Write(v, shl)

AccessSpec == AccessInit /\ [][AccessNext]_accessVars
-----------------------------------------------------------------------------
FrameBits == 8 * Len(dat)

BitOf(d, p) == (d[p \div 8 + 1] \div Pow2[p % 8]) % 2

\* Position of bit k of the signal: upwards from the start bit if little
\* endian; if big endian the start bit is the most significant one, and bits
\* go down within a byte and on to the next byte.
Position(k) ==
    IF sig.is_little_endian THEN start_bit + k
    ELSE LET from_top == (7 - (start_bit % 8)) + sig.size - 1 - k IN
         8 * (start_bit \div 8 + from_top \div 8) + 7 - (from_top % 8)

Positions == {Position(k) : k \in 0 .. sig.size - 1}

Fits == \A p \in Positions : p < FrameBits

(***************************************************************************)
(* set_value writes bit k of the value to bit k of the signal and leaves   *)
(* every other bit of the frame alone: the byte walk of packer.cc:18 and   *)
(* its masks, for both byte orders.  Of a signal that leaves the frame it  *)
(* writes what the frame holds, if little endian, and nothing if big.      *)
(***************************************************************************)
WritesItsBits ==
    written =>
        /\ \A k \in 0 .. sig.size - 1 : Position(k) < FrameBits =>
              BitOf(dat, Position(k)) =
                 IF sig.is_little_endian \/ Fits THEN (raw \div Pow2[k]) % 2
                 ELSE BitOf(previous, Position(k))
        /\ \A p \in 0 .. FrameBits - 1 : p \notin Positions => BitOf(dat, p) = BitOf(previous, p)

(***************************************************************************)
(* get_raw_value (parser.cc:14) reads back, bit for bit, what is in a      *)
(* frame that holds the whole signal.                                      *)
(***************************************************************************)
ReadsItsBits ==
    Fits => \A k \in 0 .. sig.size - 1 :
                (GetRawValue(dat, sig) \div Pow2[k]) % 2 = BitOf(dat, Position(k))

(***************************************************************************)
(* update() does not compare the length of a frame with the message        *)
(* (parser.cc:200).  When a frame is cut short, what is read has no bit    *)
(* that was not received: a little endian signal that is not whole reads   *)
(* 0, a big endian one keeps its leading bits.                             *)
(***************************************************************************)
CutMakesUpNothing ==
    Fits => \A n \in 0 .. Len(dat) :
        LET read  == GetRawValue(SubSeq(dat, 1, n), sig)
            whole == \A p \in Positions : p < 8 * n
        IN \A k \in 0 .. sig.size - 1 :
              (read \div Pow2[k]) % 2 =
                 IF Position(k) < 8 * n /\ (whole \/ ~sig.is_little_endian)
                 THEN BitOf(dat, Position(k)) ELSE 0

\* The raw values a signal can hold.
Holds(n) ==
    IF sig.is_signed THEN -Pow2[sig.size - 1] <= n /\ n < Pow2[sig.size - 1]
    ELSE 0 <= n /\ n < Pow2[sig.size]

Rounded == Round(physical - sig.offset, sig.factor)

(***************************************************************************)
(* "both scale and offset are correctly preserved"                         *)
(* (tests/test_packer_parser.py:168): a packed value that the signal can   *)
(* hold is parsed as the nearest one it can express, for signals narrower  *)
(* than an int64_t.                                                        *)
(***************************************************************************)
ScalesBack ==
    written /\ Fits /\ sig.size < WordBits /\ Holds(Rounded) =>
        \A shl \in ShiftOutcomes :
            LET parsed == Decode(sig, GetRawValue(dat, sig), shl) IN
            \A n \in Rounded - 1 .. Rounded + 1 :
                LET other == n * sig.factor + sig.offset
                IN Magnitude(parsed - physical) <= Magnitude(other - physical)

(***************************************************************************)
(* An unsigned signal is never negative, as the ranges of the 64-bit       *)
(* unsigned signals in the DBC files say.                                  *)
(***************************************************************************)
UnsignedNotNegative ==
    Fits /\ ~sig.is_signed /\ sig.factor > 0 =>
        \A shl \in ShiftOutcomes : Decode(sig, GetRawValue(dat, sig), shl) >= sig.offset
=============================================================================
