----------------------------- MODULE SignalCodec -----------------------------
(***************************************************************************)
(* The bit fields of a frame: where a DBC places a signal (dbc.cc),        *)
(* set_value and the scaling of pack (packer.cc), get_raw_value and the    *)
(* scaling of parse (parser.cc).                                           *)
(*                                                                         *)
(* A frame is a sequence of bytes; dat[i + 1] is byte i.  int64_t is       *)
(* WordBits wide.  Each loop is a recursive function of the number of      *)
(* turns, of which there are at most as many as bytes, with the turn's     *)
(* locals in a record.  1ULL << size is undefined when size is the width   *)
(* of the word: x86 shifts by size modulo the width and yields 1, a        *)
(* compiler that folds it yields 0.  The outcome is `shl'.                 *)
(***************************************************************************)
EXTENDS Bits, Sequences

CONSTANT WordBits

ASSUME WordAssumption == WordBits \in Nat \ {0}

\* A bit field of `size' bits at position `shift' of x.
Field(x, shift, size) == (x \div Pow2[shift]) % Pow2[size]

WithField(x, shift, size, v) ==
    x + ((v % Pow2[size]) - Field(x, shift, size)) * Pow2[shift]

ByteOf(bit) == bit \div 8

InFrame(dat, turn) == turn.i >= 0 /\ turn.i < Len(dat) /\ turn.bits > 0

OneShifted(size, shl) == IF size < WordBits THEN Pow2[size] ELSE shl

\* The value of a WordBits-wide word as a signed integer.
AsSigned(x) == IF x >= Pow2[WordBits - 1] THEN x - Pow2[WordBits] ELSE x
-----------------------------------------------------------------------------
\* be_bits: the bits of a frame in the order of big endian signals.
BeBit(k)      == 8 * (k \div 8) + 7 - (k % 8)
BeBits        == [k \in 0 .. 511 |-> BeBit(k)]
BePosition(b) == BeBit(b)

\* lsb and msb of an SG_ line.  A big endian signal that starts so late that
\* it leaves be_bits is read beyond the vector: any integer may be found.
SignalMsb(start_bit, size, little) == IF little THEN start_bit + size - 1 ELSE start_bit

SignalLsb(start_bit, size, little) ==
    IF little THEN start_bit ELSE BeBits[BePosition(start_bit) + size - 1]

Placed(start_bit, size, little) ==
    [lsb |-> SignalLsb(start_bit, size, little), msb |-> SignalMsb(start_bit, size, little),
     size |-> size, is_little_endian |-> little]
-----------------------------------------------------------------------------
(***************************************************************************)
(* What the places mean, for statements about them.  Counted from its      *)
(* least significant bit, a signal fills byte after byte in one direction, *)
(* and each byte from its bit 0; only the first is entered at another bit. *)
(***************************************************************************)
FirstBit(s) == s.lsb % 8

Byte(s, m) == IF s.is_little_endian THEN ByteOf(s.lsb) + m ELSE ByteOf(s.lsb) - m

Pos(s, k) == 8 * Byte(s, (FirstBit(s) + k) \div 8) + ((FirstBit(s) + k) % 8)

IsSignal(s) ==
    /\ s.lsb \in Nat /\ s.size \in 1 .. WordBits /\ s.is_little_endian \in BOOLEAN
    /\ s.msb = Pos(s, s.size - 1)
    /\ \A k \in 0 .. s.size - 1 : Pos(s, k) \in Nat

IsScaled(s) == s.is_signed \in BOOLEAN /\ s.factor \in Int /\ s.factor # 0 /\ s.offset \in Int

\* The signal is in a frame of L bytes as a whole.
WholeIn(s, L) == \A k \in 0 .. s.size - 1 : Pos(s, k) < 8 * L

\* Two signals share a bit.
Overlap(s, t) == \E j \in 0 .. s.size - 1, k \in 0 .. t.size - 1 : Pos(s, j) = Pos(t, k)
-----------------------------------------------------------------------------
\* What a signal occupies of byte i: bits Shift(sig, i) .. Top(sig, i).
Shift(sig, i) == IF ByteOf(sig.lsb) = i THEN sig.lsb % 8 ELSE 0
Top(sig, i)   == IF ByteOf(sig.msb) = i THEN sig.msb % 8 ELSE 7

\* Mutant: every byte is written from its bit 0.
SetTurnUnshifted(sig, turn) ==
    LET size == IF turn.bits < 8 THEN turn.bits ELSE 8
    IN [dat  |-> [turn.dat EXCEPT ![turn.i + 1] = WithField(@, 0, size, turn.ival)],
        i    |-> IF sig.is_little_endian THEN turn.i + 1 ELSE turn.i - 1,
        bits |-> turn.bits - size,
        ival |-> turn.ival \div Pow2[size]]

\* set_value, one turn of its loop.
SetTurn(sig, turn) ==
    LET shift == Shift(sig, turn.i)
        size  == IF turn.bits < 8 - shift THEN turn.bits ELSE 8 - shift
    IN [dat  |-> [turn.dat EXCEPT ![turn.i + 1] = WithField(@, shift, size, turn.ival)],
        i    |-> IF sig.is_little_endian THEN turn.i + 1 ELSE turn.i - 1,
        bits |-> turn.bits - size,
        ival |-> turn.ival \div Pow2[size]]

SetTurns(dat, sig, start) ==
    LET Turn[n \in 0 .. Len(dat)] ==
            IF n = 0 THEN start
            ELSE LET turn == Turn[n - 1]
                 IN IF InFrame(dat, turn) THEN SetTurn(sig, turn) ELSE turn
    IN Turn[Len(dat)]

SetValue(dat, sig, ival) ==
    LET start == [dat |-> dat, i |-> ByteOf(sig.lsb), bits |-> sig.size,
                  ival |-> IF sig.size < WordBits THEN ival % Pow2[sig.size] ELSE ival]
    IN SetTurns(dat, sig, start).dat

\* get_raw_value, one turn of its loop: d is ored into bits that are still 0.
PartSize(sig, i) == Top(sig, i) - Shift(sig, i) + 1

Part(dat, sig, i) == Field(dat[i + 1], Shift(sig, i), PartSize(sig, i))

\* Mutants: every byte is read from its bit 0; each part is shifted in behind
\* the ones before it.
GetTurnUnshifted(dat, sig, turn) ==
    LET bits == turn.bits - PartSize(sig, turn.i)
    IN [ret  |-> turn.ret + Field(dat[turn.i + 1], 0, PartSize(sig, turn.i)) * Pow2[bits],
        bits |-> bits,
        i    |-> IF sig.is_little_endian THEN turn.i - 1 ELSE turn.i + 1]

GetTurnShiftsIn(dat, sig, turn) ==
    [ret  |-> turn.ret * Pow2[PartSize(sig, turn.i)] + Part(dat, sig, turn.i),
     bits |-> turn.bits - PartSize(sig, turn.i),
     i    |-> IF sig.is_little_endian THEN turn.i - 1 ELSE turn.i + 1]

GetTurn(dat, sig, turn) ==
    LET bits == turn.bits - PartSize(sig, turn.i)
    IN [ret  |-> turn.ret + Part(dat, sig, turn.i) * Pow2[bits],
        bits |-> bits,
        i    |-> IF sig.is_little_endian THEN turn.i - 1 ELSE turn.i + 1]

GetTurns(dat, sig, start) ==
    LET Turn[n \in 0 .. Len(dat)] ==
            IF n = 0 THEN start
            ELSE LET turn == Turn[n - 1]
                 IN IF InFrame(dat, turn) THEN GetTurn(dat, sig, turn) ELSE turn
    IN Turn[Len(dat)]

GetRawValue(dat, sig) ==
    LET start == [ret |-> 0, i |-> ByteOf(sig.msb), bits |-> sig.size]
        ret   == GetTurns(dat, sig, start).ret
    IN IF sig.size < WordBits THEN ret ELSE AsSigned(ret)
-----------------------------------------------------------------------------
Magnitude(n) == IF n < 0 THEN -n ELSE n
SignOf(n)    == IF n < 0 THEN -1 ELSE 1

\* Mutant: a cast without round(), which truncates.
Truncate(n, d) == SignOf(n) * SignOf(d) * (Magnitude(n) \div Magnitude(d))

\* C's round(n / d): to the nearest integer, halves away from zero.
Round(n, d) ==
    SignOf(n) * SignOf(d) * ((2 * Magnitude(n) + Magnitude(d)) \div (2 * Magnitude(d)))

\* The raw value pack() hands to set_value for a physical one.
Encode(sig, value, shl) ==
    LET ival == Round(value - sig.offset, sig.factor)
    IN IF ival < 0 THEN OneShifted(sig.size, shl) + ival ELSE ival

\* The sign extension of parse(), and its scaling.
SignExtended(sig, tmp, shl) ==
    IF sig.is_signed /\ (tmp \div Pow2[sig.size - 1]) % 2 = 1
    THEN tmp - OneShifted(sig.size, shl) ELSE tmp

Decode(sig, tmp, shl) == SignExtended(sig, tmp, shl) * sig.factor + sig.offset
=============================================================================
