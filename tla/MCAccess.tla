------------------------------ MODULE MCAccess ------------------------------
(* Values for TLC: three-byte frames and a ten-bit word, so that a signal  *)
(* may lie in three bytes as a 64-bit one does in nine.                    *)
EXTENDS FieldAccess

SomeFrames == {<<0, 0, 0>>, <<165, 60, 129>>}

SomeValues == {-512, -7, -1, 0, 6, 21, 341}

SomeScales ==
    {[is_signed |-> FALSE, factor |-> 1,  offset |-> 0],
     [is_signed |-> FALSE, factor |-> -2, offset |-> 21],
     [is_signed |-> TRUE,  factor |-> 3,  offset |-> -5]}
=============================================================================
