------------------------------- MODULE DbcText -------------------------------
(***************************************************************************)
(* The lines of a DBC file, as far as dbc.cc tells them apart.  A line is  *)
(* a BO_, SG_ or VAL_ line its regular expression takes, one it refuses,   *)
(* or a line the reader passes over.  A name is a tuple; numbers stay in   *)
(* the range of int, and sign, factor and offset of a signal are left out. *)
(***************************************************************************)
EXTENDS Integers, Sequences

BO(a, n, size)                   == [kind |-> "BO", address |-> a, name |-> n, size |-> size]
SG(n, start_bit, size, little)   == [kind |-> "SG", name |-> n, start_bit |-> start_bit,
                                     size |-> size, is_little_endian |-> little]
\* defs: the pairs <<value, description>> of the line.
VAL(a, n, defs)                  == [kind |-> "VAL", address |-> a, name |-> n, defs |-> defs]
Bad                              == [kind |-> "bad"]
Other                            == [kind |-> "other"]

\* The names that dbc.cc knows, and the empty description.
CHECKSUM       == <<"CHECKSUM">>
COUNTER        == <<"COUNTER">>
CHECKSUM_PEDAL == <<"CHECKSUM_PEDAL">>
COUNTER_PEDAL  == <<"COUNTER_PEDAL">>
NoText         == <<"">>

\* The elements of s at the positions in at, in their order (SelectSeq of a
\* set of positions, as a recursive function).
Kept(s, at) ==
    LET Upto[n \in 0 .. Len(s)] == IF n = 0 THEN << >>
                                   ELSE IF n \in at THEN Append(Upto[n - 1], s[n])
                                   ELSE Upto[n - 1]
    IN Upto[Len(s)]

\* A message and its signals, given as a table of <<start_bit, size>>.
Signals(table, little) ==
    << >> \o [i \in DOMAIN table |-> SG(<<"signal", i>>, table[i][1], table[i][2], little)]

Message(a, size, table, little) ==
    <<BO(a, <<"message", a>>, size)>> \o Signals(table, little)

\* The concatenation of n sequences of w lines each.
Repeated(n, w, Block(_)) ==
    << >> \o [k \in 1 .. n * w |-> Block((k - 1) \div w)[((k - 1) % w) + 1]]
=============================================================================
