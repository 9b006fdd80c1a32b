--------------------------------- MODULE Bits ---------------------------------
(***************************************************************************)
(* Numbers as their bits, the loops that run over them, and exclusive or   *)
(* of what the checksums keep: numbers of at most 16 bits.                 *)
(***************************************************************************)
EXTENDS Integers, Sequences

\* 1 << n.
Pow2[n \in Nat] == IF n = 0 THEN 1 ELSE 2 * Pow2[n - 1]

Bit(x, k) == (x \div Pow2[k]) % 2

\* A loop over items: step[register][item] is what one turn makes of the register.
Loop(step, start, items) ==
    LET After[n \in 0 .. Len(items)] ==
            IF n = 0 THEN start ELSE step[After[n - 1]][items[n]]
    IN After[Len(items)]

\* for (j = 0; j < 8; j++)
EightTurns == [j \in 1 .. 8 |-> j - 1]

\* Of two bytes, as a table that TLC computes once.
XorByte ==
    [x \in 0 .. 255 |-> [y \in 0 .. 255 |->
        Loop([sum \in Nat |-> [k \in Nat |-> sum + Pow2[k] * ((Bit(x, k) + Bit(y, k)) % 2)]],
             0, EightTurns)]]

\* x ^ y.
Xor(x, y) == 256 * XorByte[x \div 256][y \div 256] + XorByte[x % 256][y % 256]
=============================================================================
