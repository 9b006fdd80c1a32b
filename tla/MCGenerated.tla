----------------------------- MODULE MCGenerated -----------------------------
(***************************************************************************)
(* The directories of Chrysler, Hyundai and Tesla as revisions, one with a *)
(* common file that lacks a message, one whose scripts are gone, and one   *)
(* without sources, in which small hand-made DBCs are read.                *)
(***************************************************************************)
EXTENDS GeneratedDbcs

Radar == INSTANCE RadarScripts
Chry  == INSTANCE ChryslerDbcs

CONSTANTS chrysler, broken, scriptless, hyundai, tesla, handmade,   \* revisions
          ram, corner_radar, front_radar, bosch, continental,       \* scripts
          common, ram_dt_common, ram_hd_common, ram_dt, ram_hd, pacifica,
          corner, front, radar_bosch, radar_continental             \* files

AllFiles == {common, ram_dt_common, ram_hd_common, ram_dt, ram_hd, pacifica, corner, front,
             radar_bosch, radar_continental}

ChryslerFiles == {common, ram_dt, ram_hd, pacifica}

HandwrittenOf ==
    [r \in Revisions |-> IF r \in {chrysler, broken} THEN ChryslerFiles
                         ELSE IF r = scriptless THEN {common, ram_dt} ELSE {}]

ScriptsOf ==
    [r \in Revisions |-> CASE r \in {chrysler, broken} -> {ram}
                           [] r = hyundai -> {corner_radar, front_radar}
                           [] r = tesla   -> {bosch, continental}
                           [] OTHER       -> {}]

OutputsOf ==
    [s \in ScriptNames |-> CASE s = ram          -> <<ram_dt_common, ram_hd_common>>
                             [] s = corner_radar -> <<corner>>
                             [] s = front_radar  -> <<front>>
                             [] s = bosch        -> <<radar_bosch>>
                             [] s = continental  -> <<radar_continental>>]

ImportsOf ==
    [f \in Files |-> CASE f = ram_dt   -> <<ram_dt_common>>
                       [] f = ram_hd   -> <<ram_hd_common>>
                       [] f = pacifica -> <<common>>
                       [] OTHER        -> << >>]

PrivateFiles == {common, ram_dt_common, ram_hd_common}

\* The common file of each revision; message 820 is gone from the broken one.
CommonText(r) ==
    IF r = broken THEN SelectSeq(Chry!StellantisCommon, LAMBDA l : l.kind = "VAL" \/ l.kind = "SG"
                                                          \/ l.address # 820)
    ELSE Chry!StellantisCommon

\* The RAM script asserts that it met every address.
FailingOf ==
    {<<r, ram>> : r \in {r \in {chrysler, broken} :
        Chry!MissingAddrs(Chry!RamDt, CommonText(r)) \cup Chry!MissingAddrs(Chry!RamHd, CommonText(r))
            # {}}}

Texts_ ==
    [f \in Files |-> CASE f = common            -> Chry!StellantisCommon
                       [] f = ram_dt_common     -> Chry!Remapped(Chry!RamDt, Chry!StellantisCommon)
                       [] f = ram_hd_common     -> Chry!Remapped(Chry!RamHd, Chry!StellantisCommon)
                       [] f = ram_dt            -> Chry!RamDtCore
                       [] f = ram_hd            -> Chry!RamHdCore
                       [] f = pacifica          -> Chry!PacificaCore
                       [] f = corner            -> Radar!CornerRadar
                       [] f = front             -> Radar!FrontRadar
                       [] f = radar_bosch       -> Radar!Bosch
                       [] f = radar_continental -> Radar!Continental]

Makes_ == [f \in Files |-> IF f \in {ram_dt, ram_hd, pacifica} THEN "chrysler" ELSE NoChecksum]
-----------------------------------------------------------------------------
\* The lines of hand-made DBCs: messages that share a name or an address with
\* another one, address 0, signals of both byte orders, one that is cut off by
\* the end of the frame, a COUNTER, values with and without a description.
A == <<"A">>
B == <<"B">>
S == <<"S">>
T == <<"T">>

Letters ==
    { BO(0, A, 8), BO(1, A, 8), BO(1, B, 8), BO(2, B, 8),
      SG(S, 7, 12, FALSE), SG(S, 0, 8, TRUE), SG(COUNTER, 5, 2, FALSE),
      SG(T, 508, 8, FALSE),
      VAL(1, S, << <<0, <<"text", 0>>>>, <<1, <<"text", 1>>>> >>),
      VAL(1, S, << <<0, NoText>>, <<1, NoText>>, <<2, <<"text", 2>>>> >>),
      Bad, Other }

Short == UNION {[1 .. n -> Letters] : n \in 0 .. 3}

\* Each layout rule of set_signal_type, just right and just wrong, frames at the
\* limit, and empty signals.
Curated ==
    { << SG(S, 0, 4, TRUE), BO(1, A, 8), SG(S, 0, 8, TRUE), BO(0, B, 8), SG(T, 8, 8, TRUE) >>,
      << SG(S, 0, 4, TRUE), BO(1, A, 8), BO(0, B, 8), SG(S, 8, 8, TRUE) >>,
      << BO(1, A, 8), SG(S, 0, 8, TRUE), BO(2, B, 8), SG(S, 0, 8, TRUE), SG(T, 8, 8, TRUE),
         VAL(1, S, << <<0, <<"text", 0>>>> >>), VAL(2, T, << <<1, <<"text", 1>>>> >>),
         VAL(1, S, << <<3, <<"text", 3>>>>, <<3, <<"text", 4>>>> >>) >>,
      << BO(1, A, 65), SG(S, 504, 8, TRUE) >>,
      << BO(1, A, 64), SG(S, 504, 9, TRUE) >>,
      << BO(1, A, 64), SG(S, 511, 8, FALSE) >>,
      << BO(1, A, 64), SG(S, 511, 9, FALSE) >>,
      << BO(1, A, 64), SG(S, 512, 1, FALSE) >>,
      << BO(1, A, 8), SG(S, 0, 0, TRUE), SG(T, 7, 0, FALSE) >> }

OneSignal(n, start_bit, size, little) == << BO(1, A, 8), SG(n, start_bit, size, little) >>

Layouts ==
    { OneSignal(n, start_bit, size, little) :
        n \in {CHECKSUM, COUNTER, CHECKSUM_PEDAL, COUNTER_PEDAL},
        start_bit \in {0, 3, 5, 7, 19, 21}, size \in {2, 4, 8}, little \in BOOLEAN }

Files_ == [make : {"honda"}, text : Short, allow : {FALSE}]
          \cup [make : {NoChecksum}, text : Curated, allow : BOOLEAN]
          \cup [make : {NoChecksum}, text : {<<BO(1, A, 8), BO(2, A, 8), BO(3, B, 8)>>}, allow : {TRUE}]
          \cup [make : Makes, text : Layouts, allow : {FALSE}]

AllTexts ==
    {dbc.text : dbc \in HandMade}
    \cup UNION {{GeneratedText(Expected(r, f)) : f \in PublicOf(r)}
                : r \in {chrysler, hyundai, tesla}}

AllNames ==
    {CHECKSUM, COUNTER, CHECKSUM_PEDAL, COUNTER_PEDAL, A, B, S, T}
    \cup {<<n>> : n \in {"STATE_3", "REL_SPEED", "STATE_2", "VIN_MuxID", "VIN_Part1", "VIN_Part2",
                        "VIN_Part3", "ACC_OFF_REQ", "Gear_State", "PARKING_BRAKE_STATUS",
                        "CRUISE_STATE", "PRNDL", "TURN_SIGNALS"}}
    \cup ({"message", "signal"} \X Nat)
    \cup ({"point"} \X Nat \X Nat)

\* What a CANParser is asked for: up to two messages, one of them unknown.
SomeKeys     == {<<"address", 0>>, <<"address", 1>>, <<"address", 9>>, <<"name", A>>, <<"name", B>>}
SomeRequests == UNION {[1 .. n -> SomeKeys] : n \in 0 .. 2}

SomeGarbage == {-1, 3, 600}

OverlappingMessages == Radar!Multiplexed
=============================================================================
