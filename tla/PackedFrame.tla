----------------------------- MODULE PackedFrame -----------------------------
(***************************************************************************)
(* CANPacker::pack down to the bytes, and what MessageState::parse makes   *)
(* of them: every signal is set in its bit field, the COUNTER is added and *)
(* the CHECKSUM computed over the frame.  It implements CANPacker, which   *)
(* the other modules use: a packed frame carries the COUNTER, and its      *)
(* CHECKSUM matches.  The signals are narrower than an int64_t             *)
(* (FieldAccess has those as wide).                                        *)
(***************************************************************************)
EXTENDS SignalCodec

CONSTANTS
    Messages, OtherAddress, Buses,
    Senders,          \* which messages a user of the packer sends
    Size,             \* of each message: its bytes
    Layout,           \* its signals: name -> placed and scaled signal
    Checksum(_, _),   \* calc_checksum of the message's CHECKSUM, over a frame
    Given,            \* the argument lists a caller may pack it with
    Overrides, NoOverride, NoEntry, NoFrame

VARIABLES sends,     \* the messages the user of this behaviour sends
          counters,
          bytes,     \* what pack() returned
          received,  \* what a parser makes of the frame, as CANPacker has it
          given,     \* the signals it was packed from, the last of each name
          last,      \* of each message, the COUNTER of its last frame
          packs      \* history: of each message, how often it was packed, modulo 2

packVars == <<sends, counters, bytes, received, given, last, packs>>

HasSignal(m, s) == s \in DOMAIN Layout[m]

\* The values a signal expresses.
Expresses(s, v) ==
    \E n \in IF s.is_signed THEN -Pow2[s.size - 1] .. Pow2[s.size - 1] - 1
                            ELSE 0 .. Pow2[s.size] - 1 :
        v = n * s.factor + s.offset

\* Signals lie in their frame, and no two share a bit.
ASSUME LayoutAssumption ==
    \A m \in Messages :
        /\ Size[m] \in 0 .. 64
        /\ \A s \in DOMAIN Layout[m] :
              /\ IsSignal(Layout[m][s]) /\ Layout[m][s].size < WordBits /\ IsScaled(Layout[m][s])
              /\ WholeIn(Layout[m][s], Size[m])
              /\ \A t \in DOMAIN Layout[m] \ {s} : ~Overlap(Layout[m][s], Layout[m][t])

\* As all of the DBC files have the two: unsigned, (1,0).
ASSUME CheckedAssumption ==
    \A m \in Messages : \A s \in DOMAIN Layout[m] \cap {"COUNTER", "CHECKSUM"} :
        ~Layout[m][s].is_signed /\ Layout[m][s].factor = 1 /\ Layout[m][s].offset = 0

\* Callers give values that the signals can express, and any COUNTER in Overrides.
ASSUME GivenAssumption ==
    \A m \in Messages : \A signals \in Given[m] :
        /\ signals \in Seq([name : STRING, value : Int])
        /\ \A i \in DOMAIN signals :
              LET s == signals[i].name IN
              HasSignal(m, s) =>
                  IF s = "COUNTER" THEN signals[i].value \in Overrides
                  ELSE s = "CHECKSUM" \/ Expresses(Layout[m][s], signals[i].value)

\* No caller gives a negative COUNTER: pack() keeps it as a uint32_t (packer.cc:69),
\* which the conversion of a negative double leaves undefined.
ASSUME UserAssumption ==
    /\ OtherAddress \notin Messages /\ Buses # {}
    /\ Senders \subseteq SUBSET Messages
    /\ Overrides \subseteq Nat /\ NoOverride \notin Overrides
    /\ NoEntry \notin Int /\ NoEntry \notin [counter : Int, explicit : BOOLEAN]
-----------------------------------------------------------------------------
\* The zero bytes; \o makes TLC evaluate them before EXCEPT changes them.
Blank(m) == << >> \o [i \in 1 .. Size[m] |-> 0]

\* No signal is as wide as the word: the outcome of 1ULL << 64 does not matter.
SetSignal(m, d, s) == SetValue(d, Layout[m][s.name], Encode(Layout[m][s.name], s.value, 0))

\* Mutant: pack() gives up at an unknown name.
FilledUntilUnknown(m, signals) ==
    LET After[n \in 0 .. Len(signals)] ==
            IF n = 0 THEN Blank(m)
            ELSE IF \A i \in 1 .. n : HasSignal(m, signals[i].name)
                 THEN SetSignal(m, After[n - 1], signals[n]) ELSE After[n - 1]
    IN After[Len(signals)]

\* pack()'s loop over the signals it is given; unknown names are skipped.
Filled(m, signals) ==
    LET After[n \in 0 .. Len(signals)] ==
            IF n = 0 THEN Blank(m)
            ELSE IF HasSignal(m, signals[n].name)
                 THEN SetSignal(m, After[n - 1], signals[n]) ELSE After[n - 1]
    IN After[Len(signals)]

LastGiven(signals, name) == signals[CHOOSE i \in DOMAIN signals :
                                  /\ signals[i].name = name
                                  /\ \A j \in DOMAIN signals : signals[j].name = name => j <= i].value

Names(signals) == {signals[i].name : i \in DOMAIN signals}

CounterGiven(m, signals) == HasSignal(m, "COUNTER") /\ "COUNTER" \in Names(signals)

NextCounter(m) == IF counters[m] = NoEntry THEN 0 ELSE counters[m]

CounterMod ==
    [m \in Messages |-> IF HasSignal(m, "COUNTER") THEN Pow2[Layout[m]["COUNTER"].size] ELSE 0]

Counted(m, signals, d) ==
    IF ~HasSignal(m, "COUNTER") \/ CounterGiven(m, signals) THEN d
    ELSE SetValue(d, Layout[m]["COUNTER"], NextCounter(m))

Closed(m, d) ==
    IF HasSignal(m, "CHECKSUM") THEN SetValue(d, Layout[m]["CHECKSUM"], Checksum(m, d)) ELSE d

\* Mutant: an automatic COUNTER is not incremented.
CounterAfterStuck(m, signals) ==
    IF ~HasSignal(m, "COUNTER") THEN counters[m]
    ELSE IF CounterGiven(m, signals) THEN LastGiven(signals, "COUNTER")
    ELSE NextCounter(m)

CounterAfter(m, signals) ==
    IF ~HasSignal(m, "COUNTER") THEN counters[m]
    ELSE IF CounterGiven(m, signals) THEN LastGiven(signals, "COUNTER")
    ELSE (NextCounter(m) + 1) % CounterMod[m]

\* Mutant: the CHECKSUM is computed before the COUNTER is set.
FrameCountsLast(m, signals) == Counted(m, signals, Closed(m, Filled(m, signals)))

Frame(m, signals) == Closed(m, Counted(m, signals, Filled(m, signals)))

\* What parse() finds in a frame: the number it compares, and the value.
Tmp(m, d, s) == SignExtended(Layout[m][s], GetRawValue(d, Layout[m][s]), 0)

Parsed(m, d, s) == Decode(Layout[m][s], GetRawValue(d, Layout[m][s]), 0)

ChecksumMatches(m, d) == HasSignal(m, "CHECKSUM") => Checksum(m, d) = Tmp(m, d, "CHECKSUM")

Received(m, bus, d) ==
    [src |-> bus, address |-> m, fits |-> Len(d) <= 64, checksum_ok |-> ChecksumMatches(m, d),
     counter |-> IF HasSignal(m, "COUNTER") THEN Tmp(m, d, "COUNTER") ELSE 0, value |-> 0]

Pack(m, bus, signals) ==
    /\ bytes' = Frame(m, signals)
    /\ received' = Received(m, bus, Frame(m, signals))
    /\ counters' = [counters EXCEPT ![m] = CounterAfter(m, signals)]
    /\ given' = [n \in Names(signals) |-> LastGiven(signals, n)]
    /\ last' = [last EXCEPT ![m] = [counter |-> received'.counter,
                                    explicit |-> CounterGiven(m, signals)]]
    /\ packs' = [packs EXCEPT ![m] = 1 - @]
    /\ UNCHANGED sends

\* pack() of an undefined address returns no bytes.
PackUndefined ==
    /\ bytes' = << >>
    /\ received' = NoFrame
    /\ given' = << >>
    /\ UNCHANGED <<sends, counters, last, packs>>

PackInit ==
    /\ sends \in Senders
    /\ counters = [m \in Messages |-> NoEntry]
    /\ bytes = << >>
    /\ received = NoFrame
    /\ given = << >>
    /\ last = [m \in Messages |-> NoEntry]
    /\ packs = [m \in Messages |-> 0]

PackNext ==
    \/ \E m \in sends, bus \in Buses : \E signals \in Given[m] : Pack(m, bus, signals)
    \/ PackUndefined

PackSpec == PackInit /\ [][PackNext]_packVars
-----------------------------------------------------------------------------
(***************************************************************************)
(* What the checksum functions are trusted with: their result fits the     *)
(* CHECKSUM and does not depend on what the CHECKSUM holds.  pack() needs  *)
(* it, which computes the checksum when the CHECKSUM is still 0.           *)
(***************************************************************************)
ExcludesItself(m, d) ==
    /\ Checksum(m, d) \in 0 .. Pow2[Layout[m]["CHECKSUM"].size] - 1
    /\ \A v \in 0 .. Pow2[Layout[m]["CHECKSUM"].size] - 1 :
          Checksum(m, SetValue(d, Layout[m]["CHECKSUM"], v)) = Checksum(m, d)

ChecksumsExcludeThemselves ==
    \A m \in Messages : HasSignal(m, "CHECKSUM") =>
        \A d \in Seq(0 .. 255) : Len(d) = Size[m] => ExcludesItself(m, d)

Packer == INSTANCE CANPacker WITH Values <- {0}, packed <- received

(***************************************************************************)
(* The bytes implement the abstract packer: what pack() returns has the    *)
(* COUNTER it should have and a CHECKSUM that its own parser accepts, for  *)
(* checksums that are computed before the CHECKSUM is in the frame         *)
(* (packer.cc:92) and checked when it is (parser.cc:51).                   *)
(***************************************************************************)
ImplementsPacker == Packer!PackerSpec

(***************************************************************************)
(* "packer should increment the counter", and after an explicit COUNTER    *)
(* "should resume counting from the override value"                        *)
(* (tests/test_packer_parser.py:28,44): the next automatic COUNTER that is *)
(* received repeats it.  So it is at every call that packs a message and   *)
(* gives it no COUNTER, the calls that return the same frame once more     *)
(* included (packs tells them from stuttering), whatever other messages    *)
(* and undefined addresses are packed in between.                          *)
(***************************************************************************)
Resumes(m) ==
    last'[m].counter = IF last[m] = NoEntry THEN 0
                       ELSE IF last[m].explicit THEN last[m].counter
                       ELSE (last[m].counter + 1) % CounterMod[m]

CountsPerMessage ==
    [][\A m \in Messages : HasSignal(m, "COUNTER") /\ packs'[m] # packs[m] /\ ~last'[m].explicit
                              => Resumes(m)]_packVars

(***************************************************************************)
(* Packed values are parsed back (tests/test_packer_parser.py:160),        *)
(* signals that were not given are 0 in the frame, whatever order they     *)
(* were given in and whatever COUNTER and CHECKSUM were added.             *)
(***************************************************************************)
ParsesBack ==
    bytes # << >> =>
        LET m == received.address IN
        \A s \in DOMAIN Layout[m] \ {"COUNTER", "CHECKSUM"} :
            Parsed(m, bytes, s) = IF s \in DOMAIN given THEN given[s] ELSE Layout[m][s].offset
=============================================================================
