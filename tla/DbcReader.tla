------------------------------ MODULE DbcReader ------------------------------
(***************************************************************************)
(* dbc_parse_from_stream of opendbc/can/dbc.cc, one step per line: the     *)
(* messages, signals and values of a DBC text, or an exception.            *)
(*                                                                         *)
(*   idle --Open--> reading --line by line--> parsed --Close--> idle       *)
(*                     `------Refuse--------> threw ---'                   *)
(*                                                                         *)
(* The sets address_set, msg_name_set and signal_name_sets[address] are    *)
(* filled together with msgs and signals, and are read off them.           *)
(***************************************************************************)
EXTENDS DbcText

CONSTANTS Names,     \* the names that occur
          Texts,     \* the texts that may be read
          Garbage    \* what a read beyond be_bits may find

Descriptions == {NoText} \cup ({"text"} \X Nat)

Lines == [kind : {"BO"}, address : Nat, name : Names, size : Nat]
         \cup [kind : {"SG"}, name : Names, start_bit : Nat, size : Nat,
               is_little_endian : BOOLEAN]
         \cup [kind : {"VAL"}, address : Nat, name : Names,
               defs : Seq(Nat \X Descriptions)]
         \cup {Bad, Other}

ASSUME TextsAssumption == Texts \subseteq Seq(Lines)
ASSUME GarbageAssumption == Garbage \subseteq Int

VARIABLES state, make, allow_duplicate_msg_name,
          stream, line_num,      \* the text and how many lines of it were read
          address,               \* of the BO_ line read last
          msgs, signals, vals,
          addr_to_msg, name_to_msg   \* to positions in msgs

argVars    == <<make, allow_duplicate_msg_name, stream>>
dbcVars    == <<msgs, signals, vals, addr_to_msg, name_to_msg>>
readerVars == <<state, argVars, line_num, address, dbcVars>>

Empty == [x \in {} |-> 0]
-----------------------------------------------------------------------------
\* get_checksum: the layout CHECKSUM and COUNTER must have, by the start of
\* the DBC's name.  -1 leaves a value open.
Any == -1

Layout(checksum_size, counter_size, checksum_start_bit, counter_start_bit, little) ==
    [checksum_size |-> checksum_size, counter_size |-> counter_size,
     checksum_start_bit |-> checksum_start_bit, counter_start_bit |-> counter_start_bit,
     little_endian |-> little]

ChecksumStates ==
    [honda         |-> Layout(4, 2, 3, 5, FALSE),
     toyota        |-> Layout(8, Any, 7, Any, FALSE),
     hyundai_canfd |-> Layout(16, Any, 0, Any, TRUE),
     vw_mqb_2010   |-> Layout(8, 4, 0, 0, TRUE),
     vw_golf_mk4   |-> Layout(8, 4, 0, Any, TRUE),
     subaru_global |-> Layout(8, Any, 0, Any, TRUE),
     chrysler      |-> Layout(8, Any, 7, Any, FALSE),
     comma_body    |-> Layout(8, 4, 7, 3, FALSE)]

NoChecksum == "none"
Makes      == DOMAIN ChecksumStates \cup {NoChecksum}

\* The assertions of set_signal_type.
Fits(wanted, got) == wanted = Any \/ got = wanted

ChecksumFits(chk, sg) ==
    /\ Fits(chk.checksum_size, sg.size)
    /\ Fits(chk.checksum_start_bit, sg.start_bit % 8)
    /\ sg.is_little_endian = chk.little_endian

CounterFits(chk, sg) ==
    /\ Fits(chk.counter_size, sg.size)
    /\ Fits(chk.counter_start_bit, sg.start_bit % 8)
    /\ sg.is_little_endian = chk.little_endian

LayoutFits(mk, sg) ==
    /\ mk # NoChecksum /\ sg.name = CHECKSUM => ChecksumFits(ChecksumStates[mk], sg)
    /\ mk # NoChecksum /\ sg.name = COUNTER => CounterFits(ChecksumStates[mk], sg)
    /\ sg.name = CHECKSUM_PEDAL => sg.size = 8
    /\ sg.name = COUNTER_PEDAL => sg.size = 4

\* The type it assigns; a CHECKSUM's function comes with its type, a
\* CHECKSUM_PEDAL has none.
SignalType(mk, sg) ==
    CASE sg.name = CHECKSUM /\ mk # NoChecksum -> "CHECKSUM"
      [] sg.name = COUNTER /\ mk # NoChecksum  -> "COUNTER"
      [] sg.name = CHECKSUM_PEDAL              -> "PEDAL_CHECKSUM"
      [] sg.name = COUNTER_PEDAL               -> "COUNTER"
      [] OTHER                                 -> "DEFAULT"
-----------------------------------------------------------------------------
\* be_bits, the bits of a 64 byte frame in big endian order, is its own
\* inverse; find() returns its end for a bit that is not there.
MaxBits       == 64 * 8
BeBit(k)      == 8 * (k \div 8) + 7 - (k % 8)
BePosition(b) == IF b < MaxBits THEN BeBit(b) ELSE MaxBits

\* What lsb may become.  be_bits is indexed before the bounds are checked.
BeIndex(sg) == BePosition(sg.start_bit) + sg.size - 1
Beyond(sg)  == ~sg.is_little_endian /\ BeIndex(sg) \notin 0 .. MaxBits - 1

Lsbs(sg) ==
    IF sg.is_little_endian THEN {sg.start_bit}
    ELSE IF Beyond(sg) THEN Garbage ELSE {BeBit(BeIndex(sg))}

Msb(sg) == IF sg.is_little_endian THEN sg.start_bit + sg.size - 1 ELSE sg.start_bit

\* Mutant: only the lsb is checked.
LsbInBounds(sg, lsb) == lsb < MaxBits

InBounds(sg, lsb) == lsb < MaxBits /\ Msb(sg) < MaxBits

Signal(sg, lsb) ==
    [name |-> sg.name, start_bit |-> sg.start_bit, size |-> sg.size, lsb |-> lsb,
     msb |-> Msb(sg), is_little_endian |-> sg.is_little_endian,
     type |-> SignalType(make, sg)]
-----------------------------------------------------------------------------
SignalsOf(a) == IF a \in DOMAIN signals THEN signals[a] ELSE << >>

address_set         == {msgs[i].address : i \in DOMAIN msgs}
msg_name_set        == {msgs[i].name : i \in DOMAIN msgs}
signal_name_sets(a) == {SignalsOf(a)[i].name : i \in DOMAIN SignalsOf(a)}

ReaderInit ==
    /\ state = "idle"
    /\ make = NoChecksum
    /\ allow_duplicate_msg_name = FALSE
    /\ stream = << >>
    /\ line_num = 0
    /\ address = 0
    /\ msgs = << >>
    /\ signals = Empty
    /\ vals = << >>
    /\ addr_to_msg = Empty
    /\ name_to_msg = Empty

Open(mk, text, allow) ==
    /\ state = "idle"
    /\ state' = "reading"
    /\ make' = mk
    /\ allow_duplicate_msg_name' = allow
    /\ stream' = text
    /\ UNCHANGED <<line_num, address, dbcVars>>

\* The line getline() returns next.
More == state = "reading" /\ line_num < Len(stream)
Line == stream[line_num + 1]
Took == line_num' = line_num + 1 /\ UNCHANGED <<state, argVars>>

PassOver ==
    /\ More
    /\ Line.kind = "other"
    /\ Took
    /\ UNCHANGED <<address, dbcVars>>

\* Mutant: the addresses are not compared.
IsDuplicateName(bo) == ~allow_duplicate_msg_name /\ bo.name \in msg_name_set

IsDuplicate(bo) ==
    \/ bo.address \in address_set
    \/ ~allow_duplicate_msg_name /\ bo.name \in msg_name_set

\* Mutant: a local variable `address' hides the one the signals go by.
ReadMessageShadowed ==
    /\ More
    /\ Line.kind = "BO"
    /\ ~IsDuplicate(Line)
    /\ msgs' = Append(msgs, [address |-> Line.address, name |-> Line.name,
                             size |-> Line.size, sigs |-> << >>])
    /\ Took
    /\ UNCHANGED <<address, signals, vals, addr_to_msg, name_to_msg>>

ReadMessage ==
    /\ More
    /\ Line.kind = "BO"
    /\ ~IsDuplicate(Line)
    /\ address' = Line.address
    /\ msgs' = Append(msgs, [address |-> Line.address, name |-> Line.name,
                             size |-> Line.size, sigs |-> << >>])
    /\ Took
    /\ UNCHANGED <<signals, vals, addr_to_msg, name_to_msg>>

\* Signals collect under the address read last, or under 0 before any BO_.
AddSignal(sg, lsb) ==
    signals' = [a \in DOMAIN signals \cup {address} |->
                    IF a = address THEN Append(SignalsOf(address), Signal(sg, lsb))
                    ELSE signals[a]]

ReadSignal ==
    /\ More
    /\ Line.kind = "SG"
    /\ LayoutFits(make, Line)
    /\ \E lsb \in Lsbs(Line) :
          /\ InBounds(Line, lsb)
          /\ Line.name \notin signal_name_sets(address)
          /\ AddSignal(Line, lsb)
    /\ Took
    /\ UNCHANGED <<address, msgs, vals, addr_to_msg, name_to_msg>>

\* def_val: the values and the upper case descriptions, joined by spaces.  A
\* description that is empty leaves nothing behind.
Tokens(defs) ==
    LET both == << >> \o [i \in 1 .. 2 * Len(defs) |->
                   IF i % 2 = 1 THEN <<"value", defs[(i + 1) \div 2][1]>>
                                ELSE defs[i \div 2][2]]
    IN Kept(both, {i \in DOMAIN both : both[i] # NoText})

ReadVal ==
    /\ More
    /\ Line.kind = "VAL"
    /\ vals' = Append(vals, [address |-> Line.address, name |-> Line.name,
                             def_val |-> Tokens(Line.defs), sigs |-> << >>])
    /\ Took
    /\ UNCHANGED <<address, msgs, signals, addr_to_msg, name_to_msg>>

\* A DBC_ASSERT fails; the DBC built so far is never seen.
Refused ==
    \/ Line.kind = "bad"
    \/ Line.kind = "BO" /\ IsDuplicate(Line)
    \/ /\ Line.kind = "SG"
       /\ \/ ~LayoutFits(make, Line)
          \/ \E lsb \in Lsbs(Line) : ~InBounds(Line, lsb)
          \/ Line.name \in signal_name_sets(address)

Refuse ==
    /\ More
    /\ Refused
    /\ state' = "threw"
    /\ UNCHANGED <<argVars, line_num, address, dbcVars>>

\* A later message takes the place of an earlier one in the maps.
LastAt(a)    == CHOOSE i \in DOMAIN msgs :
                   msgs[i].address = a /\ \A j \in DOMAIN msgs : msgs[j].address = a => j <= i
\* Mutant: insert() instead of operator[], so that the first message stays.
FirstNamed(n) == CHOOSE i \in DOMAIN msgs :
                   msgs[i].name = n /\ \A j \in DOMAIN msgs : msgs[j].name = n => j >= i

LastNamed(n) == CHOOSE i \in DOMAIN msgs :
                   msgs[i].name = n /\ \A j \in DOMAIN msgs : msgs[j].name = n => j <= i

MapAddresses == addr_to_msg' = [a \in address_set |-> LastAt(a)]

MapNames == name_to_msg' = [n \in msg_name_set |-> LastNamed(n)]

Finish ==
    /\ state = "reading"
    /\ line_num = Len(stream)
    /\ state' = "parsed"
    /\ msgs' = [i \in DOMAIN msgs |-> [msgs[i] EXCEPT !.sigs = SignalsOf(msgs[i].address)]]
    /\ vals' = [i \in DOMAIN vals |-> [vals[i] EXCEPT !.sigs = SignalsOf(vals[i].address)]]
    /\ MapAddresses
    /\ MapNames
    /\ UNCHANGED <<argVars, line_num, address, signals>>

\* The caller is done with the DBC; the next call has locals of its own.
Close ==
    /\ state \in {"parsed", "threw"}
    /\ state' = "idle"
    /\ make' = NoChecksum
    /\ allow_duplicate_msg_name' = FALSE
    /\ stream' = << >>
    /\ line_num' = 0
    /\ address' = 0
    /\ msgs' = << >>
    /\ signals' = Empty
    /\ vals' = << >>
    /\ addr_to_msg' = Empty
    /\ name_to_msg' = Empty

ReadLine == PassOver \/ ReadMessage \/ ReadSignal \/ ReadVal \/ Refuse \/ Finish

ReaderNext ==
    \/ \E mk \in Makes, text \in Texts, allow \in BOOLEAN : Open(mk, text, allow)
    \/ ReadLine
    \/ Close

ReaderSpec == ReaderInit /\ [][ReaderNext]_readerVars
-----------------------------------------------------------------------------
SignalTypes == {"CHECKSUM", "COUNTER", "PEDAL_CHECKSUM", "DEFAULT"}

SignalRecords == [name : Names, start_bit : Nat, size : Nat, lsb : Int, msb : Int,
              is_little_endian : BOOLEAN, type : SignalTypes]

TokenRecords == ({"value", "text"} \X Nat)

\* Both ends of a signal are bits of a 64 byte frame.
WithinFrame(sig) == sig.lsb \in 0 .. MaxBits - 1 /\ sig.msb \in 0 .. MaxBits - 1

\* What is accepted does not end above the frame (dbc.cc:170 asks no more), and
\* lies within it unless it is empty or its lsb was read beyond be_bits.
Bounded(sig) ==
    /\ sig.lsb < MaxBits /\ sig.msb < MaxBits
    /\ WithinFrame(sig) \/ sig.size = 0 \/ Beyond(sig)

SignalsBounded ==
    /\ DOMAIN signals \subseteq Nat
    /\ \A a \in DOMAIN signals :
          /\ signals[a] \in Seq(SignalRecords)
          /\ \A i \in DOMAIN signals[a] : Bounded(signals[a][i])

MessagesTyped ==
    /\ msgs \in Seq([address : Nat, name : Names, size : Nat, sigs : Seq(SignalRecords)])
    /\ DOMAIN addr_to_msg \subseteq Nat
    /\ \A a \in DOMAIN addr_to_msg : addr_to_msg[a] \in DOMAIN msgs
    /\ DOMAIN name_to_msg \subseteq Names
    /\ \A n \in DOMAIN name_to_msg : name_to_msg[n] \in DOMAIN msgs

LocalsTyped ==
    /\ state \in {"idle", "reading", "parsed", "threw"}
    /\ make \in Makes
    /\ allow_duplicate_msg_name \in BOOLEAN
    /\ stream \in Seq(Lines)
    /\ line_num \in 0 .. Len(stream)
    /\ address \in Nat

(***************************************************************************)
(* Type invariant: the locals of dbc_parse_from_stream, every map pointing *)
(* into msgs.  No signal that was accepted ends above a 64 byte frame, and *)
(* each lies within one, from bit 0 to bit 511, with two exceptions: a big *)
(* endian signal that leaves be_bits and one of size 0, either of which    *)
(* may have an end below bit 0 (AcceptedInFrame).                          *)
(***************************************************************************)
ReaderTypeOK ==
    /\ LocalsTyped
    /\ MessagesTyped
    /\ SignalsBounded
    /\ vals \in Seq([address : Nat, name : Names, def_val : Seq(TokenRecords),
                     sigs : Seq(SignalRecords)])

(***************************************************************************)
(* "Signal out of bounds" (dbc.cc:170): a DBC that was parsed without this *)
(* exception has only signals that lie within a 64 byte frame, those whose *)
(* lsb was looked up beyond be_bits and the empty ones included.           *)
(***************************************************************************)
AcceptedInFrame ==
    state = "parsed" =>
        \A i \in DOMAIN msgs : \A j \in DOMAIN msgs[i].sigs : WithinFrame(msgs[i].sigs[j])

(***************************************************************************)
(* What a text says, without reading it line by line: the n-th BO_ line    *)
(* and the block of lines up to the next one; block 0 has no BO_ line.     *)
(***************************************************************************)
BoLines(text) ==
    Kept([i \in DOMAIN text |-> i], {i \in DOMAIN text : text[i].kind = "BO"})

Block(text, at, n) ==
    SubSeq(text, IF n = 0 THEN 1 ELSE at[n] + 1,
                 IF n = Len(at) THEN Len(text) ELSE at[n + 1] - 1)

OfKind(text, kind) == Kept(text, {i \in DOMAIN text : text[i].kind = kind})

\* The signals written for a message: its own block and, for the message
\* with address 0, those before the first BO_ line.
WrittenFor(text, at, n) ==
    (IF text[at[n]].address = 0 THEN OfKind(Block(text, at, 0), "SG") ELSE << >>)
        \o OfKind(Block(text, at, n), "SG")

IsWritten(sig, sg) ==
    /\ <<sig.name, sig.start_bit, sig.size, sig.is_little_endian>>
         = <<sg.name, sg.start_bit, sg.size, sg.is_little_endian>>
    /\ IF sg.is_little_endian
       THEN sig.lsb = sg.start_bit /\ sig.msb = sig.lsb + sg.size - 1
       ELSE /\ sig.msb = sg.start_bit
            /\ Beyond(sg) \/ BePosition(sig.lsb) - BePosition(sig.msb) = sg.size - 1

(***************************************************************************)
(* A DBC that was parsed has the messages of its text in their order, each *)
(* with the signals that were written between its BO_ line and the next,   *)
(* and all values: nothing is attached to a neighbour, lost or reordered,  *)
(* wherever orphans, values and other lines stand in between.              *)
(***************************************************************************)
ReadsAsWritten ==
    state = "parsed" =>
        LET at == BoLines(stream)
            values == OfKind(stream, "VAL")
        IN /\ Len(msgs) = Len(at)
           /\ \A n \in DOMAIN at :
                 LET written == WrittenFor(stream, at, n) IN
                 /\ <<msgs[n].address, msgs[n].name, msgs[n].size>>
                      = <<stream[at[n]].address, stream[at[n]].name, stream[at[n]].size>>
                 /\ Len(msgs[n].sigs) = Len(written)
                 /\ \A i \in DOMAIN written : IsWritten(msgs[n].sigs[i], written[i])
           /\ Len(vals) = Len(values)
           /\ \A i \in DOMAIN values :
                 vals[i].address = values[i].address /\ vals[i].name = values[i].name

DistinctNames(sgs) == \A i, j \in DOMAIN sgs : sgs[i].name = sgs[j].name => i = j

\* The text is well formed as a whole: what its lines are about, not the
\* order they are met in.
WellFormed(text, mk, allow) ==
    LET at == BoLines(text) IN
    /\ \A i \in DOMAIN text : text[i].kind # "bad"
    /\ \A i, j \in DOMAIN at :
          \/ i = j
          \/ /\ text[at[i]].address # text[at[j]].address
             /\ allow \/ text[at[i]].name # text[at[j]].name
    /\ \A n \in DOMAIN at : DistinctNames(WrittenFor(text, at, n))
    /\ DistinctNames(OfKind(Block(text, at, 0), "SG"))
    /\ \A i \in DOMAIN text :
          text[i].kind = "SG" => LayoutFits(mk, text[i])
                                 /\ \/ Beyond(text[i]) /\ Msb(text[i]) < MaxBits
                                    \/ \A lsb \in Lsbs(text[i]) : InBounds(text[i], lsb)

ReadsBeyond(text) == \E i \in DOMAIN text : text[i].kind = "SG" /\ Beyond(text[i])

(***************************************************************************)
(* The exceptions of dbc_parse_from_stream are exactly about ill-formed    *)
(* texts: none is parsed, and no other text is refused, whatever the order *)
(* of the lines.  The one exception is a big endian signal that leaves     *)
(* be_bits, for which either may happen.                                   *)
(***************************************************************************)
RefusesExactlyIllFormed ==
    /\ state = "parsed" => WellFormed(stream, make, allow_duplicate_msg_name)
    /\ state = "threw" => \/ ~WellFormed(stream, make, allow_duplicate_msg_name)
                          \/ ReadsBeyond(stream)

(***************************************************************************)
(* In a parsed DBC every message is found under its address, and under its *)
(* name unless a later message has the same one, which only a caller that  *)
(* allows duplicates can see.                                              *)
(***************************************************************************)
LookupsAgree ==
    state = "parsed" =>
        \A i \in DOMAIN msgs :
            /\ addr_to_msg[msgs[i].address] = i
            /\ \/ name_to_msg[msgs[i].name] = i
               \/ /\ allow_duplicate_msg_name
                  /\ name_to_msg[msgs[i].name] > i
                  /\ msgs[name_to_msg[msgs[i].name]].name = msgs[i].name
=============================================================================
