----------------------------- MODULE SignalFeed ------------------------------
(***************************************************************************)
(* What the Python CANParser promises its clients, without frames, checks, *)
(* timestamps of calls or C++ buffers: every message has a log of accepted *)
(* values, and each update hands over exactly what was logged since the    *)
(* previous one, in order, together with the latest entry.  Nothing is     *)
(* lost, repeated, reordered or kept back.                                 *)
(***************************************************************************)
EXTENDS Integers, Sequences

CONSTANTS Messages,
          Values, Times,
          Unset,         \* a signal that was never written
          Initial        \* the entry reported before anything was accepted

VARIABLES log,      \* accepted entries <<value, time>> of each message
          read,     \* how many of them have been handed over
          latest,   \* vl and ts_nanos
          inbox,    \* vl_all
          updated   \* the addresses the last update returned

vars == <<log, read, latest, inbox, updated>>

Init ==
    /\ log = [m \in Messages |-> << >>]
    /\ read = [m \in Messages |-> 0]
    /\ latest = [m \in Messages |-> Unset]
    /\ inbox = [m \in Messages |-> << >>]
    /\ updated = {}

Unread(m) == SubSeq(log[m], read[m] + 1, Len(log[m]))

LatestOf(s) == IF s = << >> THEN Initial ELSE s[Len(s)]

Accept(m, v, t) ==
    /\ log' = [log EXCEPT ![m] = Append(@, <<v, t>>)]
    /\ UNCHANGED <<read, latest, inbox, updated>>

\* update_strings starts by forgetting what the previous call handed over;
\* when its argument is malformed nothing else happens.
Clear ==
    /\ inbox' = [m \in Messages |-> << >>]
    /\ UNCHANGED <<log, read, latest, updated>>

\* It may also report messages that have nothing new.
HandOver(S) ==
    /\ {m \in Messages : Unread(m) # << >>} \subseteq S
    /\ inbox' = [m \in Messages |->
                    IF m \in S
                    THEN [i \in 1 .. Len(Unread(m)) |-> Unread(m)[i][1]]
                    ELSE inbox[m]]
    /\ read' = [m \in Messages |-> Len(log[m])]
    /\ latest' = [m \in Messages |-> IF m \in S THEN LatestOf(log[m]) ELSE latest[m]]
    /\ updated' = S
    /\ UNCHANGED log

Next ==
    \/ \E m \in Messages, v \in Values, t \in Times : Accept(m, v, t)
    \/ Clear
    \/ \E S \in SUBSET Messages : HandOver(S)

Spec == Init /\ [][Next]_vars
=============================================================================
