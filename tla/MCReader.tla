------------------------------- MODULE MCReader -------------------------------
(***************************************************************************)
(* A DBC with a big endian signal that leaves be_bits, the bits of a frame *)
(* of 64 bytes: bit 508 is the fourth last of them, and it has eight bits. *)
(***************************************************************************)
EXTENDS DbcReader

A == <<"A">>
S == <<"S">>

SomeNames == {A, S}

OutOfFrame == {<< BO(1, A, 8), SG(S, 508, 8, FALSE) >>}

SomeGarbage == {-1, 3, 600}
=============================================================================
