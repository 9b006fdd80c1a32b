------------------------------ MODULE MCParser ------------------------------
(* ParserMonitor on small instances: values for the function constants.    *)
EXTENDS ParserMonitor, TLC

CONSTANTS a, b, other

TwoMessages == {a, b}
OneMessage  == {a}

\* With NanosPerSecond = 2: timeouts of 20 and 10 ticks.
SlowAndFast == a :> 1 @@ b :> 2
Untimed     == [m \in Messages |-> 0]

NoCounters   == [m \in Messages |-> 0]
TwoBitCounters == [m \in Messages |-> 4]

\* Either side of both timeouts, counted from the first instant.
TimeoutNanos == {1, 11, 12, 21, 22}
=============================================================================
