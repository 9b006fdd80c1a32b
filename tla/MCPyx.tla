-------------------------------- MODULE MCPyx --------------------------------
(* CANParserPyx on small instances.                                        *)
EXTENDS CANParserPyx, TLC

CONSTANTS a, b, other

TwoMessages == {a, b}
Untimed     == [m \in Messages |-> 0]

\* a has a one-bit COUNTER, b a CHECKSUM.
CounterOnA  == a :> 2 @@ b :> 0
ChecksumOnB == {b}
=============================================================================
