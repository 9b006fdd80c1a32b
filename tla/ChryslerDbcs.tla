---------------------------- MODULE ChryslerDbcs -----------------------------
(***************************************************************************)
(* The DBCs of opendbc/dbc/generator/chrysler: the script that gives the   *)
(* messages of _stellantis_common.dbc the addresses of RAM trucks, and the *)
(* hand-written files with the lines its work can break: addresses, sizes, *)
(* values, and CHECKSUM and COUNTER signals.                               *)
(***************************************************************************)
EXTENDS DbcText

Plain(a, size) == <<BO(a, <<"message", a>>, size)>>

\* Big endian, in the last two bytes.
Checked(a, size) ==
    <<BO(a, <<"message", a>>, size), SG(COUNTER, 8 * size - 9, 4, FALSE),
      SG(CHECKSUM, 8 * size - 1, 8, FALSE)>>

Counted(a, size, start_bit, bits) ==
    <<BO(a, <<"message", a>>, size), SG(COUNTER, start_bit, bits, FALSE)>>

Described(values) == [i \in DOMAIN values |-> <<values[i], <<"text", values[i]>>>>]

StellantisCommon ==
    Checked(258, 8) \o Checked(264, 8) \o Plain(280, 8) \o Checked(284, 8) \o Checked(288, 7)
    \o Checked(320, 8) \o Checked(268, 8) \o Plain(344, 8) \o Checked(368, 8) \o Plain(464, 8)
    \o Checked(500, 8) \o Plain(501, 8) \o Checked(544, 8) \o Checked(559, 8)
    \o Checked(571, 3) \o Checked(625, 8) \o Checked(669, 3) \o Plain(678, 8) \o Plain(720, 6)
    \o Plain(792, 8) \o Plain(820, 8)
    \o <<VAL(320, <<"ACC_OFF_REQ">>, Described(<<2, 1, 0>>)),
         VAL(368, <<"Gear_State">>, Described(<<4, 2, 1, 0>>)),
         VAL(669, <<"PARKING_BRAKE_STATUS">>, Described(<<3, 2, 1, 0>>))>>

RamDtCore ==
    Checked(53, 8) \o Counted(133, 8, 61, 4) \o Checked(135, 8) \o Plain(137, 8)
    \o Checked(164, 8) \o Checked(166, 8) \o Plain(221, 8) \o Plain(650, 8)

RamHdCore == Checked(545, 8) \o Checked(630, 8)

PacificaCore ==
    Plain(514, 8) \o Plain(653, 2) \o Counted(746, 5, 31, 4) \o Counted(736, 8, 7, 16) \o Checked(658, 6)
    \o Plain(705, 8) \o Plain(719, 8) \o Plain(671, 8) \o Plain(784, 8) \o Plain(826, 8)
    \o Counted(332, 8, 55, 4) \o Checked(331, 8) \o Checked(608, 8) \o Plain(729, 5)
    \o Plain(257, 5) \o Plain(825, 2) \o Checked(168, 8) \o Checked(270, 8)
    \o Checked(291, 8) \o Checked(294, 8) \o Counted(308, 8, 55, 4) \o Plain(532, 8)
    \o Plain(655, 8) \o Checked(660, 8) \o Plain(764, 8) \o Plain(816, 8) \o Plain(878, 8)
    \o Plain(324, 8) \o Plain(832, 8)
    \o <<VAL(501, <<"CRUISE_STATE">>, Described(<<0, 1, 2, 3, 4>>)),
         VAL(746, <<"PRNDL">>, Described(<<5, 4, 3, 2, 1>>)),
         VAL(792, <<"TURN_SIGNALS">>, Described(<<2, 1>>))>>
-----------------------------------------------------------------------------
\* chrysler_to_ram: pairs <<address, new address>> for each of its outputs.
RamDt == { <<258,35>>, <<264,37>>, <<268,113>>, <<280,181>>, <<284,121>>, <<288,123>>,
           <<320,131>>, <<344,139>>, <<368,147>>, <<464,464>>, <<500,153>>, <<501,232>>,
           <<544,49>>, <<571,177>>, <<559,157>>, <<625,163>>, <<669,213>>, <<678,250>>,
           <<720,720>>, <<792,792>>, <<820,657>> }
RamHd == { <<571,570>>, <<678,629>> }

\* addr_lookup.get(addr, addr)
Looked(lookup, a) == IF \E p \in lookup : p[1] = a THEN (CHOOSE p \in lookup : p[1] = a)[2] ELSE a

\* Mutant: only messages get the new address, their values keep the old one.
RemappedMessages(lookup, text) ==
    << >> \o [i \in DOMAIN text |->
                 IF text[i].kind = "BO"
                 THEN [text[i] EXCEPT !.address = Looked(lookup, @)] ELSE text[i]]

\* Lines that start with BO_ or VAL_ get their address replaced.
Remapped(lookup, text) ==
    << >> \o [i \in DOMAIN text |->
                 IF text[i].kind \in {"BO", "VAL"}
                 THEN [text[i] EXCEPT !.address = Looked(lookup, @)] ELSE text[i]]

\* wrote_addrs, and the assertion that every address of the table was met.
WroteAddrs(text)            == {text[i].address : i \in {j \in DOMAIN text : text[j].kind \in {"BO", "VAL"}}}
MissingAddrs(lookup, text) == {p[1] : p \in lookup} \ WroteAddrs(text)
=============================================================================
