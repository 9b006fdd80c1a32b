---------------------------- MODULE GeneratedDbcs ----------------------------
(***************************************************************************)
(* The generator, the DBC reader and the Python classes on top of it: what *)
(* create_all leaves in the output directory is what dbc_lookup opens.     *)
(*                                                                         *)
(* Bounds: the generator moves while no DBC is open; generated DBCs are    *)
(* opened after the first run of each revision (later runs leave the same, *)
(* CompleteIsCurrent), and only where they are whole.  A revision without  *)
(* sources has the hand-written files that are read as they are.           *)
(***************************************************************************)
EXTENDS DbcGenerator, DbcClients

CONSTANTS TextOf,      \* the lines of each source file
          MakeOf,      \* what get_checksum makes of its DBC's name
          HandMade     \* DBCs that are not generated: [make, text, allow]

ASSUME ContentAssumption ==
    /\ TextOf \in [Files -> Seq(Lines)]
    /\ MakeOf \in [Files -> Makes]
    /\ HandMade \subseteq [make : Makes, text : Seq(Lines), allow : BOOLEAN]

allVars == <<genVars, clientVars>>

AllInit == GenInit /\ ReaderInit /\ ClientInit

\* The text of a generated DBC: a line for each imported file, their texts,
\* and the core.
Comment(text) == <<Other>> \o text

GeneratedText(chunks) ==
    LET texts == [i \in 1 .. Len(chunks) |-> Comment(TextOf[chunks[i].file])]
    IN Comment(IF Len(chunks) = 1 THEN texts[1]
               ELSE IF Len(chunks) = 2 THEN texts[1] \o texts[2]
               ELSE texts[1] \o texts[2] \o texts[3])

Whole(chunks) == \A i \in DOMAIN chunks : chunks[i].whole

FirstRun == pc = "done" /\ kills = 0 /\ edits = 0 /\ client = NoClient

OpenGenerated(f) ==
    /\ FirstRun
    /\ f \in DOMAIN out /\ Whole(out[f])
    /\ Open(MakeOf[f], GeneratedText(out[f]), FALSE)
    /\ UNCHANGED <<genVars, client>>

OpenHandMade ==
    /\ FirstRun
    /\ SourcesOf(rev) = {}
    /\ \E dbc \in HandMade : Open(dbc.make, dbc.text, dbc.allow)
    /\ UNCHANGED <<genVars, client>>

Reading == ReadLine /\ UNCHANGED <<genVars, client>>

Closing == client = NoClient /\ Close /\ UNCHANGED <<genVars, client>>

Generating == state = "idle" /\ GenNext /\ UNCHANGED clientVars

AllNext ==
    \/ Generating
    \/ \E f \in Files : OpenGenerated(f)
    \/ OpenHandMade
    \/ Reading
    \/ Closing
    \/ ClientNext /\ UNCHANGED genVars

AllSpec ==
    /\ AllInit /\ [][AllNext]_allVars
    /\ WF_allVars(state = "idle" /\ GenStep /\ UNCHANGED clientVars)
-----------------------------------------------------------------------------
\* The DBC being read was generated.
IsGenerated == SourcesOf(rev) # {}

(***************************************************************************)
(* Everything the generator makes of the repository's sources is accepted: *)
(* the radar scripts' texts, and the imports of the Chrysler DBCs, where   *)
(* the script that renumbers messages must not let two of them meet, in    *)
(* its own output or in a file that imports it.  CANDefine accepts it too: *)
(* no value is left with an address that was renumbered.                   *)
(***************************************************************************)
GeneratedAccepted ==
    IsGenerated => state # "threw" /\ client # Raised("CANDefine")

Bits(sig) ==
    IF sig.is_little_endian THEN sig.lsb .. sig.msb
    ELSE {BeBit(k) : k \in BePosition(sig.msb) .. BePosition(sig.lsb)}

CONSTANT Overlapping    \* messages with multiplexed signals

(***************************************************************************)
(* In a generated DBC the signals of a message share no bit and lie within *)
(* it, so that packing one of them cannot change another (the parts of a   *)
(* multiplexed VIN aside).  Only the corner radar's script checks this of  *)
(* its points, and nothing checks it when a DBC is read.                   *)
(***************************************************************************)
SignalsDisjoint ==
    IsGenerated /\ state = "parsed" =>
        \A n \in DOMAIN msgs :
            LET m == msgs[n] IN
            /\ \A i \in DOMAIN m.sigs : Bits(m.sigs[i]) \subseteq 0 .. 8 * m.size - 1
            /\ \/ m.address \in Overlapping
               \/ \A i, j \in DOMAIN m.sigs :
                     i < j => Bits(m.sigs[i]) \cap Bits(m.sigs[j]) = {}
=============================================================================
