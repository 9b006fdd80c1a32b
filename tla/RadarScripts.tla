---------------------------- MODULE RadarScripts -----------------------------
(***************************************************************************)
(* The DBCs the four radar scripts below opendbc/dbc/generator write.  A   *)
(* script's text is a table of bit positions; names are numbered, except   *)
(* those the reader knows.                                                 *)
(***************************************************************************)
EXTENDS DbcText

\* VERSION, NS_, BS_ and BU_: nothing the reader looks at.  The word VAL_ in
\* the NS_ list stands alone on its line, so it is no VAL_ line.
Preamble == <<Other>>
-----------------------------------------------------------------------------
(* hyundai_kia_mando_corner_radar.py *)

CornerMetadataTable ==
    << <<0,32>>, <<32,32>>, <<64,4>>, <<68,4>>, <<72,8>>, <<80,7>>, <<87,1>>, <<88,3>>,
       <<91,5>>, <<96,8>>, <<104,7>>, <<111,2>>, <<113,7>>, <<120,7>>, <<127,3>>, <<130,2>>,
       <<133,2>>, <<134,1>>, <<135,3>>, <<138,8>>, <<146,2>>, <<148,1>>, <<149,4>>, <<153,1>>,
       <<154,2>>, <<157,2>>, <<158,7>>, <<165,7>>, <<172,7>>, <<179,7>>, <<186,4>>, <<190,14>>,
       <<204,11>>, <<215,2>>, <<217,7>>, <<224,6>>, <<230,6>>, <<236,6>>, <<242,8>>, <<250,6>>,
       <<256,8>>, <<264,3>>, <<267,12>>, <<279,32>>, <<311,1>>, <<312,2>>, <<314,32>>,
       <<346,6>>, <<352,7>>, <<359,6>>, <<365,10>>, <<375,10>>, <<385,7>>, <<392,7>>, <<399,8>>,
       <<407,10>>, <<417,1>>, <<418,1>> >>

\* Mutant: signals 17, 18 and 26 are written @1 like the others.
CornerMetadataLittle(a) == Message(a, 64, CornerMetadataTable, TRUE)

CornerMetadata(a) ==
    <<BO(a, <<"message", a>>, 64)>>
        \o [i \in 1 .. 58 |-> SG(<<"signal", i>>, CornerMetadataTable[i][1],
                                 CornerMetadataTable[i][2], i \notin {17, 18, 26})]

radar_point_signals ==
    << <<7,14>>, <<21,2>>, <<23,8>>, <<31,13>>, <<44,2>>, <<46,2>>, <<48,12>>, <<60,2>>,
       <<62,1>>, <<63,7>>, <<70,1>>, <<71,6>>, <<77,2>>, <<79,8>>, <<87,1>>, <<88,2>>, <<90,3>>,
       <<93,6>>, <<99,8>>, <<107,1>> >>

\* radar_point_bit_count: the sum of the lengths, which the assertion in the
\* script's loop makes the distance from the first bit to the last.
PointBitCount == radar_point_signals[20][1] + radar_point_signals[20][2]
                 - radar_point_signals[1][1]

CornerPoint(i) ==
    [k \in 1 .. 20 |-> SG(<<"point", i, k>>, i * PointBitCount + radar_point_signals[k][1],
                          radar_point_signals[k][2], TRUE)]

CornerPoints(a) == Message(a, 64, << <<0,5>>, <<5,2>> >>, TRUE) \o Repeated(5, 20, CornerPoint)

CornerChecksum(a) == Message(a, 3, << <<0,16>> >>, TRUE)

CornerRadar ==
    Preamble \o CornerMetadata(256) \o CornerMetadata(512)
             \o CornerPoints(257) \o CornerPoints(513)
             \o CornerChecksum(260) \o CornerChecksum(516)
-----------------------------------------------------------------------------
(* hyundai_kia_mando_front_radar.py: the COUNTER of a track has one bit, and *)
(* is left alone because the file's name selects no checksum.                *)

FrontTrack(i) ==
    <<BO(1280 + i, <<"message", 1280 + i>>, 8)>>
        \o Signals(<< <<7,8>>, <<12,10>>, <<15,3>>, <<18,11>>, <<33,10>>, <<37,4>> >>, FALSE)
        \o << SG(COUNTER, 38, 1, FALSE) >>
        \o << SG(<<"STATE_3">>, 39, 1, FALSE), SG(<<"REL_SPEED">>, 53, 14, FALSE),
              SG(<<"STATE_2">>, 55, 2, FALSE) >>

FrontRadar == Preamble \o Repeated(32, 11, FrontTrack)
-----------------------------------------------------------------------------
(* tesla/radar_common.py *)

MovingState == <<"signal", 4>>
Class       == <<"signal", 10>>

RadarPoint(base_id) ==
    Message(base_id, 8,
            << <<0,12>>, <<12,12>>, <<24,11>>, <<35,5>>, <<40,10>>, <<50,5>>, <<55,1>>,
               <<56,5>>, <<61,1>>, <<62,1>>, <<63,1>> >>, TRUE)
    \o Message(base_id + 1, 8,
            << <<0,10>>, <<10,6>>, <<16,6>>, <<22,2>>, <<24,6>>, <<30,6>>, <<36,6>>, <<42,6>>,
               <<48,5>>, <<53,3>>, <<56,6>>, <<62,1>>, <<63,1>> >>, TRUE)

Described(n) == << >> \o [i \in 1 .. n |-> <<n - i, <<"text", n - i>>>>]

RadarValues(base_id) ==
    <<VAL(base_id + 1, MovingState, Described(4)), VAL(base_id + 1, Class, Described(5))>>
-----------------------------------------------------------------------------
(* tesla/tesla_radar_continental.py *)

ContinentalHead ==
    Message(1025, 8,
            << <<29,1>>, <<25,1>>, <<8,12>>, <<24,1>>, <<20,2>>, <<22,1>>, <<26,1>>, <<30,1>>,
               <<31,1>>, <<23,1>>, <<28,1>>, <<27,1>>, <<0,8>> >>, TRUE)
    \o Message(1617, 8, << <<7,64>> >>, FALSE)
    \o Message(1601, 8, << <<7,64>> >>, FALSE)

LowPowerMode ==
    <<VAL(1025, <<"signal", 5>>, << <<1, <<"text", 1>>>>, <<0, <<"text", 0>>>>,
                                     <<2, <<"text", 2>>>>, <<3, <<"text", 3>>>> >>)>>

ContinentalPoint(i)  == RadarPoint(1040 + 2 * i)
ContinentalValues(i) == RadarValues(1040 + 2 * i)

Continental ==
    Preamble \o ContinentalHead \o Repeated(40, 26, ContinentalPoint)
             \o LowPowerMode \o Repeated(40, 2, ContinentalValues)
-----------------------------------------------------------------------------
(* tesla/tesla_radar_bosch.py *)

BoschInfo ==
    Message(769, 8, << <<0,8>>, <<8,8>>, <<16,8>>, <<24,8>>, <<32,12>>, <<44,1>>, <<45,1>>,
                       <<46,1>>, <<47,1>> >>, TRUE)
    \o Message(770, 8, << <<0,6>>, <<6,6>>, <<12,6>>, <<18,6>>, <<24,6>>, <<30,1>>, <<31,1>>,
                           <<32,16>>, <<48,16>> >>, TRUE)

\* Alerts 1 to 62 are single bits.
BoschAlerts ==
    Message(1281, 8, [i \in 1 .. 63 |-> IF i < 63 THEN <<i - 1, 1>> ELSE <<62, 2>>], TRUE)

BoschMPoint(i)  == RadarPoint(784 + 3 * i)
BoschLPoint(i)  == RadarPoint(881 + 3 * i)
BoschMValues(i) == RadarValues(784 + 3 * i)
BoschLValues(i) == RadarValues(881 + 3 * i)

\* The parts of the VIN are multiplexed: they share their bits.
Multiplexed == {697}

BoschVin ==
    <<BO(697, <<"message", 697>>, 8)>>
    \o << SG(<<"VIN_MuxID">>, 0, 8, TRUE), SG(<<"VIN_Part1">>, 47, 24, FALSE),
          SG(<<"VIN_Part2">>, 15, 56, FALSE), SG(<<"VIN_Part3">>, 15, 56, FALSE) >>

BoschSent ==
    Message(681, 8, << <<48,8>>, <<56,8>>, <<8,8>>, <<24,8>>, <<0,3>>, <<3,2>>, <<5,3>>,
                       <<16,8>> >>, TRUE)
    \o Message(409, 8, << <<32,8>>, <<16,8>>, <<0,8>>, <<8,8>>, <<40,8>>, <<56,8>>,
                           <<52,4>> >>, TRUE)
    \o Message(361, 8, << <<0,13>>, <<13,13>>, <<26,13>>, <<39,13>>, <<56,8>>, <<52,4>> >>, TRUE)
    \o Message(345, 8, << <<16,8>>, <<0,8>>, <<32,8>>, <<8,8>>, <<44,4>>, <<24,8>> >>, TRUE)
    \o Message(329, 8, << <<16,8>>, <<40,8>>, <<8,8>>, <<24,8>>, <<32,8>>, <<48,4>>, <<56,8>>,
                           <<52,4>> >>, TRUE)
    \o Message(297, 6, << <<24,8>>, <<40,8>>, <<36,4>> >>, TRUE)
    \o Message(281, 6, << <<24,8>>, <<8,8>>, <<36,4>>, <<16,8>>, <<0,8>>, <<40,8>>,
                           <<32,4>> >>, TRUE)
    \o Message(265, 8, << <<24,8>>, <<56,8>>, <<13,3>> >>, TRUE)
    \o Message(521, 8, << <<8,8>>, <<16,8>>, <<24,8>>, <<32,8>>, <<40,8>>, <<48,8>> >>, TRUE)
    \o Message(537, 8, << <<52,4>>, <<56,8>> >>, TRUE)
    \o Message(425, 5, << <<16,8>>, <<28,4>>, <<32,8>> >>, TRUE)
    \o Message(729, 8, << <<0,8>>, <<8,8>>, <<16,8>> >>, TRUE)
    \o Message(1601, 8, << <<7,64>> >>, FALSE)
    \o Message(1617, 8, << <<7,64>> >>, FALSE)

\* The CM_, BA_DEF_ and BA_ lines are passed over.
FourWheelDrive == <<Other, VAL(681, <<"signal", 6>>, Described(4))>>

Bosch ==
    Preamble \o BoschInfo \o BoschAlerts
             \o Repeated(32, 26, BoschMPoint) \o Repeated(5, 26, BoschLPoint)
             \o BoschVin \o BoschSent \o FourWheelDrive
             \o Repeated(32, 2, BoschMValues) \o Repeated(5, 2, BoschLValues)
=============================================================================
