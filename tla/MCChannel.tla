------------------------------ MODULE MCChannel ------------------------------
(* CounterChannel on small instances.                                      *)
EXTENDS CounterChannel, TLC

CONSTANTS a, other

OneMessage == {a}
Untimed    == a :> 0

TwoBitCounter     == a :> 4
SixteenBitCounter == a :> 65536   \* chrysler_pacifica_2017_hybrid TRIP
=============================================================================
