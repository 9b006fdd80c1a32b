------------------------------- MODULE MCFrame -------------------------------
(***************************************************************************)
(* Values for TLC: one message of each make with a COUNTER and a CHECKSUM, *)
(* placed as in the DBC files, and one of its signals.                     *)
(***************************************************************************)
EXTENDS MessageChecksums

Signal(start, size, little, signed, factor, offset) ==
    [is_signed |-> signed, factor |-> factor, offset |-> offset] @@ Placed(start, size, little)

Unsigned(start, size, little) == Signal(start, size, little, FALSE, 1, 0)

Signals(counter, checksum, torque) ==
    [COUNTER |-> counter, CHECKSUM |-> checksum, TORQUE |-> torque]

MessageMake ==
    [STEERING_CONTROL |-> "honda", LKAS_HUD_A |-> "honda", STEERING_LKA |-> "toyota",
     LKAS_COMMAND |-> "chrysler", ES_LKAS |-> "subaru", GRA_ACC_01 |-> "volkswagen",
     HCA_1 |-> "xor", TORQUE_CMD |-> "body", ADRV_0x200 |-> "hyundai_canfd"]

AllMessages == DOMAIN MessageMake

\* One user sends the two messages with the smallest COUNTERs in turns.
Users == {{"STEERING_CONTROL", "LKAS_HUD_A"}}
         \cup {{m} : m \in AllMessages \ {"STEERING_CONTROL", "LKAS_HUD_A"}}

MessageAddress ==
    [STEERING_CONTROL |-> 228, LKAS_HUD_A |-> 13274, STEERING_LKA |-> 740,
     LKAS_COMMAND |-> 658, ES_LKAS |-> 290, GRA_ACC_01 |-> 299,
     HCA_1 |-> 210, TORQUE_CMD |-> 592, ADRV_0x200 |-> 512]

MessageSize ==
    [STEERING_CONTROL |-> 5, LKAS_HUD_A |-> 5, STEERING_LKA |-> 5, LKAS_COMMAND |-> 6,
     ES_LKAS |-> 8, GRA_ACC_01 |-> 8, HCA_1 |-> 5, TORQUE_CMD |-> 6, ADRV_0x200 |-> 8]

MessageLayout ==
    [STEERING_CONTROL |-> Signals(Unsigned(37, 2, FALSE), Unsigned(35, 4, FALSE),
                                  Signal(7, 16, FALSE, TRUE, 1, 0)),
     LKAS_HUD_A       |-> Signals(Unsigned(37, 2, FALSE), Unsigned(35, 4, FALSE),
                                  Unsigned(6, 7, FALSE)),
     STEERING_LKA     |-> Signals(Unsigned(6, 6, FALSE), Unsigned(39, 8, FALSE),
                                  Signal(15, 16, FALSE, TRUE, 1, 0)),
     LKAS_COMMAND     |-> Signals(Unsigned(39, 4, FALSE), Unsigned(47, 8, FALSE),
                                  Signal(2, 11, FALSE, FALSE, 1, -1024)),
     ES_LKAS          |-> Signals(Unsigned(8, 4, TRUE), Unsigned(0, 8, TRUE),
                                  Signal(16, 13, TRUE, TRUE, -1, 0)),
     GRA_ACC_01       |-> Signals(Unsigned(8, 4, TRUE), Unsigned(0, 8, TRUE),
                                  Unsigned(24, 2, TRUE)),
     HCA_1            |-> Signals(Unsigned(8, 4, TRUE), Unsigned(0, 8, TRUE),
                                  Unsigned(16, 15, TRUE)),
     TORQUE_CMD       |-> Signals(Unsigned(35, 4, FALSE), Unsigned(47, 8, FALSE),
                                  Signal(7, 16, FALSE, TRUE, 1, 0)),
     ADRV_0x200       |-> Signals(Unsigned(16, 8, TRUE), Unsigned(0, 16, TRUE),
                                  Unsigned(24, 8, TRUE))]

\* The padding of GRA_ACC_01, which depends on the COUNTER.
GraPad ==
    (299 :> <<106, 56, 180, 39, 34, 239, 225, 187, 248, 128, 132, 73, 199, 158, 30, 43>>)

\* Values each TORQUE can hold.
Torques(m) ==
    CASE m = "GRA_ACC_01" -> {1, 2}
      [] m \in {"LKAS_HUD_A", "ADRV_0x200"} -> {1, 100}
      [] m = "HCA_1" -> {1, 1000}
      [] OTHER -> {-1, 1000}

TorqueArg(v)  == [name |-> "TORQUE", value |-> v]
CounterArg(n) == [name |-> "COUNTER", value |-> n]
UnknownArg    == [name |-> "UNKNOWN_SIGNAL", value |-> 0]

\* The eight bits of the COUNTER of ADRV_0x200 would count too far: it is always given.
Automatic(m) ==
    IF m = "ADRV_0x200" THEN {}
    ELSE {<< >>} \cup {<<UnknownArg, TorqueArg(v)>> : v \in Torques(m)}

Explicit(m) ==
    {<<CounterArg(9), TorqueArg(v)>> : v \in Torques(m)}
    \cup {<<TorqueArg(v), TorqueArg(w), CounterArg(2)>> : v \in Torques(m), w \in Torques(m)}

Calls == [m \in AllMessages |-> Automatic(m) \cup Explicit(m)]
=============================================================================
