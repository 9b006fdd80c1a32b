--------------------------- MODULE PackedFrameProofs ---------------------------
(***************************************************************************)
(* What pack() writes and parse() finds in it, for any messages, layouts   *)
(* whose signals share no bit, calls and orders of calls.                  *)
(*                                                                         *)
(* 1. What is read of a signal after one was set: itself, or another one.  *)
(* 2. pack()'s loop: after each turn, a signal holds the last value that   *)
(*    was given for it, or 0 (FillInv).                                    *)
(* 3. Packed and parsed: scaling, wrapping and sign extension undo each    *)
(*    other for a value the signal expresses.                              *)
(* 4. The frame, with its COUNTER and CHECKSUM (FrameIs).                  *)
(* 5. The states: what counters holds for a message determines the COUNTER *)
(*    its parser expects next (PackInv); the theorems.                     *)
(*                                                                         *)
(* The bits of a field are the lemmas of FieldAccessProofs.  The theorems  *)
(* of section 5 assume ChecksumsExcludeThemselves of the checksum.  The    *)
(* rest of the module is about the checksums of the makes (Checksums,      *)
(* MessageChecksums), of which it proves that, and the properties of       *)
(* MessageChecksums, from ChecksumsOfMakes.                                *)
(*                                                                         *)
(*  6. Loops over items, related turn by turn.                             *)
(*  7. Exclusive or, by its bits: a word is determined by its bits.        *)
(*  8. The shift register of a CRC, by its bits: its turns add up, and     *)
(*     lose nothing.                                                       *)
(*  9. Eight turns at once: a byte that is fed is a byte that is added.    *)
(* 10. So the branches, tables and loops of common.cc divide (CrcsAre).    *)
(* 11. Frames that agree on what a loop reads, and frames that differ in   *)
(*     one byte of it.                                                     *)
(* 12. What a flipped bit does to a byte and to its halves; which bytes of *)
(*     two frames agree.                                                   *)
(* 13. No checksum reads the place it is written to, and                   *)
(* 14. each bit that it reads changes it: sums by at most 128 modulo 256,  *)
(*     or 8 modulo 16; CRCs because their steps lose nothing; the          *)
(*     volkswagen one, whose padding depends on a COUNTER that it reads    *)
(*     too, by PadAssumption.                                              *)
(* 15. The same of each message's checksum, by MakesAssumption.            *)
(* 16. The last frame that was packed is whole and matches (SentInv); the  *)
(*     theorems.                                                           *)
(***************************************************************************)
EXTENDS MessageChecksums, FieldAccessProofs

-----------------------------------------------------------------------------
(***************************************************************************)
(* 1. What is read of a signal after one was set.                          *)
(***************************************************************************)
\* A signal that is narrower than the word and whole in a frame of L bytes.
InPlace(s, L) == IsSignal(s) /\ IsScaled(s) /\ s.size < WordBits /\ WholeIn(s, L)

LEMMA SizeNat ==
    ASSUME NEW s, IsSignal(s)
    PROVE  s.size \in Nat /\ s.size > 0 /\ Pow2[s.size] \in Nat \ {0}
<1>1. s.size \in Nat /\ s.size > 0
  BY WordAssumption DEF IsSignal
<1>. QED  BY <1>1, PowNat

LEMMA ReadsWhole ==
    ASSUME NEW L \in Nat, NEW d, IsBytes(d, L), NEW s, InPlace(s, L)
    PROVE  /\ GetRawValue(d, s) \in 0 .. Pow2[s.size] - 1
           /\ \A k \in 0 .. s.size - 1 : Bit(GetRawValue(d, s), k) = BitOf(d, Pos(s, k))
<1>1. \A k \in 0 .. s.size - 1 : Pos(s, k) < 8 * L
  BY DEF InPlace, WholeIn
<1>2. IsSignal(s) /\ s.size < WordBits /\ WholeIn(s, L)
  BY DEF InPlace
<1>3. \A k \in 0 .. s.size - 1 :
         Bit(GetRawValue(d, s), k) =
            IF Pos(s, k) < 8 * L /\ (WholeIn(s, L) \/ ~s.is_little_endian) THEN BitOf(d, Pos(s, k)) ELSE 0
  BY <1>2, GetRawValueBits, Zenon
<1>4. GetRawValue(d, s) \in 0 .. Pow2[s.size] - 1
  BY <1>2, GetRawValueBits, Zenon
<1>. QED  BY <1>1, <1>2, <1>3, <1>4, Zenon

\* The signal itself holds the low bits of the value.
LEMMA ReadsSet ==
    ASSUME NEW L \in Nat, NEW d, IsBytes(d, L), NEW s, InPlace(s, L), NEW x \in Int
    PROVE  /\ IsBytes(SetValue(d, s, x), L)
           /\ GetRawValue(SetValue(d, s, x), s) = x % Pow2[s.size]
<1>. DEFINE e == SetValue(d, s, x)
<1>1. IsSignal(s) /\ WholeIn(s, L)
  BY DEF InPlace
<1>2. /\ IsBytes(e, L)
      /\ \A k \in 0 .. s.size - 1 : Pos(s, k) < 8 * L =>
            BitOf(e, Pos(s, k)) =
               IF s.is_little_endian \/ WholeIn(s, L) THEN Bit(x, k) ELSE BitOf(d, Pos(s, k))
  BY <1>1, SetValueBits, Zenon
<1>3. \A k \in 0 .. s.size - 1 : BitOf(e, Pos(s, k)) = Bit(x, k)
  BY <1>1, <1>2, Zenon DEF WholeIn
<1>. HIDE DEF e
<1>4. PICK n \in Nat : n = s.size
  BY <1>1, SizeNat
<1>5. Pow2[n] \in Nat \ {0} /\ x % Pow2[n] \in 0 .. Pow2[n] - 1
  <2>1. Pow2[n] \in Nat /\ Pow2[n] > 0
    BY PowNat
  <2>. QED  BY <2>1, DivType
<1>6. PICK r : /\ r = GetRawValue(e, s) /\ r \in 0 .. Pow2[n] - 1
               /\ \A k \in 0 .. n - 1 : Bit(r, k) = BitOf(e, Pos(s, k))
  BY <1>2, <1>4, ReadsWhole
<1>7. \A k \in 0 .. n - 1 : Bit(r, k) = Bit(x % Pow2[n], k)
  <2>1. \A k \in 0 .. n - 1 : Bit(x % Pow2[n], k) = Bit(x, k)
    BY BitLow
  <2>. QED  BY <1>3, <1>4, <1>6, <2>1, Zenon
<1>8. r = x % Pow2[n]
  BY <1>5, <1>6, <1>7, BitsEqual
<1>. QED  BY <1>2, <1>4, <1>6, <1>8, Zenon DEF e

\* A signal that shares no bit with it is left alone.
LEMMA ReadsBeside ==
    ASSUME NEW L \in Nat, NEW d, IsBytes(d, L), NEW s, InPlace(s, L), NEW x \in Int,
           NEW t, InPlace(t, L), ~Overlap(t, s)
    PROVE  GetRawValue(SetValue(d, s, x), t) = GetRawValue(d, t)
<1>. DEFINE e == SetValue(d, s, x)
<1>1. IsSignal(s) /\ IsSignal(t) /\ WholeIn(t, L)
  BY DEF InPlace
<1>2. /\ IsBytes(e, L)
      /\ \A p \in 0 .. 8 * L - 1 : (\A k \in 0 .. s.size - 1 : p # Pos(s, k)) => BitOf(e, p) = BitOf(d, p)
  BY <1>1, SetValueBits
<1>. HIDE DEF e
<1>3. ASSUME NEW j \in 0 .. t.size - 1
      PROVE  BitOf(e, Pos(t, j)) = BitOf(d, Pos(t, j))
  <2>1. Pos(t, j) \in 0 .. 8 * L - 1
    <3>1. Pos(t, j) \in Nat /\ Pos(t, j) < 8 * L
      BY <1>1, Zenon DEF IsSignal, WholeIn
    <3>. QED  BY <3>1
  <2>2. \A k \in 0 .. s.size - 1 : Pos(t, j) # Pos(s, k)
    BY Zenon DEF Overlap
  <2>. QED  BY <1>2, <2>1, <2>2, Zenon
<1>4. PICK n \in Nat : n = t.size
  BY <1>1, SizeNat
<1>5. PICK y, z : /\ y = GetRawValue(e, t) /\ y \in 0 .. Pow2[n] - 1
                  /\ \A k \in 0 .. n - 1 : Bit(y, k) = BitOf(e, Pos(t, k))
                  /\ z = GetRawValue(d, t) /\ z \in 0 .. Pow2[n] - 1
                  /\ \A k \in 0 .. n - 1 : Bit(z, k) = BitOf(d, Pos(t, k))
  BY <1>2, <1>4, ReadsWhole
<1>6. \A k \in 0 .. n - 1 : Bit(y, k) = Bit(z, k)
  BY <1>3, <1>4, <1>5, Zenon
<1>7. y = z
  BY <1>5, <1>6, BitsEqual
<1>. QED  BY <1>5, <1>7, Zenon DEF e

LEMMA BlankIs ==
    ASSUME NEW L \in Nat
    PROVE  LET z == << >> \o [i \in 1 .. L |-> 0] IN
           IsBytes(z, L) /\ \A i \in 1 .. L : z[i] = 0
<1>. DEFINE f == [i \in 1 .. L |-> 0]
<1>1. f \in Seq(0 .. 255) /\ Len(f) = L
  OBVIOUS
<1>2. \A i \in 1 .. L : f[i] = 0
  OBVIOUS
<1>. HIDE DEF f
<1>3. << >> \o f \in Seq(0 .. 255) /\ Len(<< >> \o f) = L
  BY <1>1
<1>4. \A i \in 1 .. L : (<< >> \o f)[i] = f[i]
  BY <1>1
<1>. QED  BY <1>2, <1>3, <1>4 DEF f, IsBytes

\* In a frame of zero bytes every signal is 0.
LEMMA ReadsBlank ==
    ASSUME NEW L \in Nat, NEW d, IsBytes(d, L), \A i \in 1 .. L : d[i] = 0, NEW s, InPlace(s, L)
    PROVE  GetRawValue(d, s) = 0
<1>1. IsSignal(s) /\ WholeIn(s, L)
  BY DEF InPlace
<1>2. PICK n \in Nat : n = s.size /\ Pow2[n] \in Nat \ {0}
  BY <1>1, SizeNat
<1>3. ASSUME NEW k \in 0 .. n - 1
      PROVE  BitOf(d, Pos(s, k)) = 0
  <2>1. PICK p \in Nat : p = Pos(s, k) /\ p < 8 * L
    BY <1>1, <1>2, Zenon DEF IsSignal, WholeIn
  <2>2. p \div 8 + 1 \in 1 .. L /\ p % 8 \in Nat
    BY <2>1
  <2>3. d[p \div 8 + 1] = 0
    BY <2>2
  <2>. QED  BY <2>1, <2>2, <2>3, BitOfIs, ZeroBits
<1>4. PICK r : /\ r = GetRawValue(d, s) /\ r \in 0 .. Pow2[n] - 1
               /\ \A k \in 0 .. n - 1 : Bit(r, k) = BitOf(d, Pos(s, k))
  BY <1>2, ReadsWhole
<1>5. \A k \in 0 .. n - 1 : Bit(r, k) = Bit(0, k)
  <2>1. \A k \in 0 .. n - 1 : Bit(0, k) = 0
    BY ZeroBits
  <2>. QED  BY <1>3, <1>4, <2>1, Zenon
<1>6. r = 0
  <2>1. 0 \in 0 .. Pow2[n] - 1
    BY <1>2
  <2>. QED  BY <1>4, <1>5, <2>1, BitsEqual
<1>. QED  BY <1>4, <1>6, Zenon

-----------------------------------------------------------------------------
(***************************************************************************)
(* 2. pack()'s loop: after each of its turns, a signal holds the last      *)
(*    value it was given.                                                  *)
(***************************************************************************)
FillNext(m, signals, n, d) ==
    IF HasSignal(m, signals[n].name) THEN SetSignal(m, d, signals[n]) ELSE d

FillRun(m, signals, N, U) ==
    U = [n \in 0 .. N |-> IF n = 0 THEN Blank(m) ELSE FillNext(m, signals, n, U[n - 1])]

LEMMA FillRunExists ==
    ASSUME NEW m, NEW signals, NEW N \in Nat
    PROVE  \E U : FillRun(m, signals, N, U)
<1>. DEFINE S == {k \in 0 .. N : \E U : FillRun(m, signals, k, U)}
<1>1. 0 \in S
  <2>. DEFINE U == [n \in 0 .. 0 |-> Blank(m)]
              W == [n \in 0 .. 0 |-> IF n = 0 THEN Blank(m) ELSE FillNext(m, signals, n, U[n - 1])]
  <2>1. \A n \in 0 .. 0 : U[n] = W[n]
    OBVIOUS
  <2>2. U = W
    <3>1. U = [n \in 0 .. 0 |-> U[n]]
      OBVIOUS
    <3>2. W = [n \in 0 .. 0 |-> W[n]]
      <4>. HIDE DEF U
      <4>. QED  OBVIOUS
    <3>. HIDE DEF U, W
    <3>. QED  BY <2>1, <3>1, <3>2
  <2>3. FillRun(m, signals, 0, U)
    BY <2>2, Zenon DEF FillRun
  <2>. QED  BY <2>3
<1>2. ASSUME NEW k \in 0 .. N - 1, k \in S
      PROVE  k + 1 \in S
  <2>1. PICK U : FillRun(m, signals, k, U)
    BY <1>2
  <2>. DEFINE V == [n \in 0 .. k + 1 |-> IF n = k + 1 THEN FillNext(m, signals, k + 1, U[k]) ELSE U[n]]
              W == [n \in 0 .. k + 1 |-> IF n = 0 THEN Blank(m) ELSE FillNext(m, signals, n, V[n - 1])]
  <2>2. \A n \in 0 .. k : U[n] = IF n = 0 THEN Blank(m) ELSE FillNext(m, signals, n, U[n - 1])
    BY <2>1, Zenon DEF FillRun
  <2>3. ASSUME NEW n \in 0 .. k + 1
        PROVE  V[n] = W[n]
    <3>1. V[n] = (IF n = k + 1 THEN FillNext(m, signals, k + 1, U[k]) ELSE U[n])
      BY Zenon
    <3>2. W[n] = IF n = 0 THEN Blank(m) ELSE FillNext(m, signals, n, V[n - 1])
      BY Zenon
    <3>3. n # 0 => n - 1 \in 0 .. k + 1 /\ n - 1 # k + 1
      OBVIOUS
    <3>4. n # 0 => V[n - 1] = U[n - 1]
      BY <3>3
    <3>5. (n # k + 1 => n \in 0 .. k) /\ (n = k + 1 => n # 0 /\ n - 1 = k)
      OBVIOUS
    <3>. HIDE DEF V, W
    <3>. QED  BY <2>2, <3>1, <3>2, <3>4, <3>5
  <2>4. V = W
    <3>1. V = [n \in 0 .. k + 1 |-> V[n]]
      OBVIOUS
    <3>2. W = [n \in 0 .. k + 1 |-> W[n]]
      <4>. HIDE DEF V
      <4>. QED  OBVIOUS
    <3>. HIDE DEF V, W
    <3>. QED  BY <2>3, <3>1, <3>2
  <2>5. FillRun(m, signals, k + 1, V)
    BY <2>4, Zenon DEF FillRun
  <2>6. k + 1 \in 0 .. N
    OBVIOUS
  <2>. QED  BY <2>5, <2>6
<1>3. N \in S
  <2>. HIDE DEF S
  <2>. QED  BY <1>1, <1>2, UpTo
<1>. QED  BY <1>3

\* The loop goes from turn to turn.
LEMMA FilledRuns ==
    ASSUME NEW m, NEW signals, Len(signals) \in Nat
    PROVE  \E U : /\ U[0] = Blank(m)
                  /\ \A n \in 1 .. Len(signals) : U[n] = FillNext(m, signals, n, U[n - 1])
                  /\ Filled(m, signals) = U[Len(signals)]
<1>. DEFINE U == CHOOSE V : V = [n \in 0 .. Len(signals) |->
                     IF n = 0 THEN Blank(m)
                     ELSE IF HasSignal(m, signals[n].name)
                          THEN SetSignal(m, V[n - 1], signals[n]) ELSE V[n - 1]]
<1>1. \E V : V = [n \in 0 .. Len(signals) |->
                     IF n = 0 THEN Blank(m)
                     ELSE IF HasSignal(m, signals[n].name)
                          THEN SetSignal(m, V[n - 1], signals[n]) ELSE V[n - 1]]
  <2>1. PICK V : FillRun(m, signals, Len(signals), V)
    BY FillRunExists
  <2>2. V = [n \in 0 .. Len(signals) |->
                IF n = 0 THEN Blank(m)
                ELSE IF HasSignal(m, signals[n].name)
                     THEN SetSignal(m, V[n - 1], signals[n]) ELSE V[n - 1]]
    BY <2>1, Zenon DEF FillRun, FillNext
  <2>. QED  BY <2>2, Zenon
<1>2. U = [n \in 0 .. Len(signals) |->
              IF n = 0 THEN Blank(m)
              ELSE IF HasSignal(m, signals[n].name)
                   THEN SetSignal(m, U[n - 1], signals[n]) ELSE U[n - 1]]
  BY <1>1, Zenon
<1>3. Filled(m, signals) = U[Len(signals)]
  BY Zenon DEF Filled
<1>. HIDE DEF U
<1>4. \A n \in 0 .. Len(signals) :
         U[n] = IF n = 0 THEN Blank(m)
                ELSE IF HasSignal(m, signals[n].name)
                     THEN SetSignal(m, U[n - 1], signals[n]) ELSE U[n - 1]
  BY <1>2, Zenon
<1>5. 0 \in 0 .. Len(signals) /\ \A n \in 1 .. Len(signals) : n \in 0 .. Len(signals) /\ n # 0
  OBVIOUS
<1>6. \A n \in 1 .. Len(signals) : U[n] = FillNext(m, signals, n, U[n - 1])
  BY <1>4, <1>5, Zenon DEF FillNext
<1>7. U[0] = Blank(m)
  BY <1>4, <1>5, Zenon
<1>. QED  BY <1>3, <1>6, <1>7, Zenon

LEMMA LayoutIs ==
    ASSUME NEW m \in Messages
    PROVE  /\ Size[m] \in Nat /\ Size[m] <= 64
           /\ \A s \in DOMAIN Layout[m] :
                 /\ InPlace(Layout[m][s], Size[m])
                 /\ \A t \in DOMAIN Layout[m] : t # s => ~Overlap(Layout[m][s], Layout[m][t])
<1>1. Size[m] \in 0 .. 64
  BY LayoutAssumption, Zenon
<1>2. \A s \in DOMAIN Layout[m] :
         /\ InPlace(Layout[m][s], Size[m])
         /\ \A t \in DOMAIN Layout[m] : t # s => ~Overlap(Layout[m][s], Layout[m][t])
  BY LayoutAssumption DEF InPlace
<1>. QED  BY <1>1, <1>2

LEMMA GivenIs ==
    ASSUME NEW m \in Messages, NEW signals \in Given[m]
    PROVE  /\ Len(signals) \in Nat /\ DOMAIN signals = 1 .. Len(signals)
           /\ \A i \in 1 .. Len(signals) : signals[i].value \in Int
<1>1. signals \in Seq([name : STRING, value : Int])
  BY GivenAssumption, Zenon
<1>2. \A i \in 1 .. Len(signals) : signals[i] \in [name : STRING, value : Int]
  BY <1>1, ElementIs, Zenon
<1>. QED  BY <1>1, <1>2

\* Of the first n of the signals, i is the last that is named s.
LastOf(signals, n, s, i) ==
    i \in 1 .. n /\ signals[i].name = s /\ \A j \in 1 .. n : signals[j].name = s => j <= i

Missing(signals, n, s) == \A i \in 1 .. n : signals[i].name # s

\* The raw value of signal s, of which v is the last value given.
Coded(m, s, v) == Encode(Layout[m][s], v, 0) % Pow2[Layout[m][s].size]

SoFar(m, signals, n, s, r) ==
    \/ Missing(signals, n, s) /\ r = 0
    \/ \E i \in 1 .. n : LastOf(signals, n, s, i) /\ r = Coded(m, s, signals[i].value)

FillInv(m, signals, n, d) ==
    /\ IsBytes(d, Size[m])
    /\ \A s \in DOMAIN Layout[m] : SoFar(m, signals, n, s, GetRawValue(d, Layout[m][s]))

LEMMA SoFarKept ==
    ASSUME NEW m, NEW signals, NEW n \in Nat, NEW s, NEW r,
           SoFar(m, signals, n, s, r), signals[n + 1].name # s
    PROVE  SoFar(m, signals, n + 1, s, r)
<1>1. \A j \in 1 .. n + 1 : j \in 1 .. n \/ j = n + 1
  OBVIOUS
<1>2. CASE Missing(signals, n, s) /\ r = 0
  BY <1>1, <1>2, Zenon DEF SoFar, Missing
<1>3. CASE \E i \in 1 .. n : LastOf(signals, n, s, i) /\ r = Coded(m, s, signals[i].value)
  <2>1. PICK i \in 1 .. n : LastOf(signals, n, s, i) /\ r = Coded(m, s, signals[i].value)
    BY <1>3
  <2>2. i \in 1 .. n + 1
    OBVIOUS
  <2>3. LastOf(signals, n + 1, s, i)
    BY <1>1, <2>1, <2>2, Zenon DEF LastOf
  <2>. QED  BY <2>1, <2>2, <2>3, Zenon DEF SoFar
<1>. QED  BY <1>2, <1>3, Zenon DEF SoFar

LEMMA SoFarSet ==
    ASSUME NEW m, NEW signals, NEW n \in Nat, NEW s, signals[n + 1].name = s
    PROVE  SoFar(m, signals, n + 1, s, Coded(m, s, signals[n + 1].value))
<1>1. n + 1 \in 1 .. n + 1 /\ \A j \in 1 .. n + 1 : j <= n + 1
  OBVIOUS
<1>2. LastOf(signals, n + 1, s, n + 1)
  BY <1>1, Zenon DEF LastOf
<1>. QED  BY <1>1, <1>2, Zenon DEF SoFar

LEMMA FillInvStep ==
    ASSUME NEW m \in Messages, NEW signals \in Given[m], NEW n \in Nat, n < Len(signals),
           NEW d, FillInv(m, signals, n, d)
    PROVE  FillInv(m, signals, n + 1, FillNext(m, signals, n + 1, d))
<1>. DEFINE q == signals[n + 1].name
            v == signals[n + 1].value
<1>1. n + 1 \in 1 .. Len(signals)
  BY GivenIs
<1>2. v \in Int
  BY <1>1, GivenIs
<1>3. CASE ~HasSignal(m, q)
  <2>1. FillNext(m, signals, n + 1, d) = d
    BY <1>3, Zenon DEF FillNext
  <2>2. \A s \in DOMAIN Layout[m] : q # s
    BY <1>3, Zenon DEF HasSignal
  <2>3. FillInv(m, signals, n + 1, d)
    BY <2>2, SoFarKept DEF FillInv
  <2>. QED  BY <2>1, <2>3, Zenon
<1>4. CASE HasSignal(m, q)
  <2>. DEFINE g == Layout[m][q]
              x == Encode(g, v, 0)
              e == SetValue(d, g, x)
  <2>1. FillNext(m, signals, n + 1, d) = e
    BY <1>4, Zenon DEF FillNext, SetSignal
  <2>2. q \in DOMAIN Layout[m] /\ InPlace(g, Size[m]) /\ Size[m] \in Nat
    BY <1>4, LayoutIs DEF HasSignal
  <2>3. x \in Int
    <3>. HIDE DEF g, v
    <3>1. IsSignal(g) /\ IsScaled(g)
      BY <2>2, Zenon DEF InPlace
    <3>2. 0 \in Int
      OBVIOUS
    <3>. QED  BY <1>2, <3>1, <3>2, EncodeInt, Zenon
  <2>4. IsBytes(d, Size[m])
    BY DEF FillInv
  <2>. HIDE DEF x
  <2>5. IsBytes(e, Size[m]) /\ GetRawValue(e, g) = x % Pow2[g.size]
    BY <2>2, <2>3, <2>4, ReadsSet
  <2>6. ASSUME NEW s \in DOMAIN Layout[m]
        PROVE  SoFar(m, signals, n + 1, s, GetRawValue(e, Layout[m][s]))
    <3>1. CASE s = q
      <4>1. GetRawValue(e, Layout[m][s]) = Coded(m, s, signals[n + 1].value)
        BY <2>5, <3>1, Zenon DEF Coded, x
      <4>2. SoFar(m, signals, n + 1, s, Coded(m, s, signals[n + 1].value))
        BY <3>1, SoFarSet
      <4>. QED  BY <4>1, <4>2, Zenon
    <3>2. CASE s # q
      <4>1. InPlace(Layout[m][s], Size[m]) /\ ~Overlap(Layout[m][s], g)
        BY <2>2, <3>2, LayoutIs
      <4>2. GetRawValue(e, Layout[m][s]) = GetRawValue(d, Layout[m][s])
        BY <2>2, <2>3, <2>4, <4>1, ReadsBeside
      <4>3. SoFar(m, signals, n, s, GetRawValue(d, Layout[m][s]))
        BY DEF FillInv
      <4>. QED  BY <3>2, <4>2, <4>3, SoFarKept
    <3>. QED  BY <3>1, <3>2
  <2>7. FillInv(m, signals, n + 1, e)
    BY <2>5, <2>6, Zenon DEF FillInv
  <2>. QED  BY <2>1, <2>7, Zenon
<1>. QED  BY <1>3, <1>4

LEMMA FilledInv ==
    ASSUME NEW m \in Messages, NEW signals \in Given[m]
    PROVE  FillInv(m, signals, Len(signals), Filled(m, signals))
<1>1. Len(signals) \in Nat
  BY GivenIs
<1>2. PICK U : /\ U[0] = Blank(m)
               /\ \A n \in 1 .. Len(signals) : U[n] = FillNext(m, signals, n, U[n - 1])
               /\ Filled(m, signals) = U[Len(signals)]
  BY <1>1, FilledRuns
<1>. DEFINE S == {n \in 0 .. Len(signals) : FillInv(m, signals, n, U[n])}
<1>3. 0 \in S
  <2>1. Size[m] \in Nat /\ \A s \in DOMAIN Layout[m] : InPlace(Layout[m][s], Size[m])
    BY LayoutIs
  <2>2. IsBytes(Blank(m), Size[m]) /\ \A i \in 1 .. Size[m] : Blank(m)[i] = 0
    BY <2>1, BlankIs DEF Blank
  <2>3. \A s \in DOMAIN Layout[m] : GetRawValue(Blank(m), Layout[m][s]) = 0
    BY <2>1, <2>2, ReadsBlank
  <2>4. \A s : Missing(signals, 0, s)
    BY DEF Missing
  <2>5. FillInv(m, signals, 0, Blank(m))
    BY <2>2, <2>3, <2>4, Zenon DEF FillInv, SoFar
  <2>. QED  BY <1>1, <1>2, <2>5
<1>4. ASSUME NEW n \in 0 .. Len(signals) - 1, n \in S
      PROVE  n + 1 \in S
  <2>1. n + 1 \in 1 .. Len(signals) /\ n + 1 - 1 = n /\ n \in Nat /\ n < Len(signals)
    BY <1>1
  <2>2. U[n + 1] = FillNext(m, signals, n + 1, U[n])
    BY <1>2, <2>1
  <2>3. FillInv(m, signals, n, U[n])
    BY <1>4
  <2>4. FillInv(m, signals, n + 1, FillNext(m, signals, n + 1, U[n]))
    BY <2>1, <2>3, FillInvStep
  <2>5. FillInv(m, signals, n + 1, U[n + 1])
    BY <2>2, <2>4, Zenon
  <2>. QED  BY <2>1, <2>5
<1>5. Len(signals) \in S
  <2>1. \A n \in 0 .. Len(signals) : n \in S
    <3>. HIDE DEF S
    <3>. QED  BY <1>1, <1>3, <1>4, UpTo
  <2>. QED  BY <1>1, <2>1
<1>. QED  BY <1>2, <1>5

\* LastGiven is that last value.
LEMMA LastGivenIs ==
    ASSUME NEW m \in Messages, NEW signals \in Given[m], NEW s, NEW i, LastOf(signals, Len(signals), s, i)
    PROVE  s \in Names(signals) /\ LastGiven(signals, s) = signals[i].value
<1>1. Len(signals) \in Nat /\ DOMAIN signals = 1 .. Len(signals)
  BY GivenIs
<1>. DEFINE P(k) == /\ signals[k].name = s
                    /\ \A j \in DOMAIN signals : signals[j].name = s => j <= k
            c    == CHOOSE k \in DOMAIN signals : P(k)
<1>2. i \in DOMAIN signals /\ P(i)
  BY <1>1, Zenon DEF LastOf
<1>3. c \in DOMAIN signals /\ P(c)
  BY <1>2, Zenon
<1>4. LastGiven(signals, s) = signals[c].value
  BY Zenon DEF LastGiven
<1>. HIDE DEF c
<1>5. c <= i /\ i <= c
  BY <1>2, <1>3, Zenon
<1>6. c = i
  <2>1. c \in Int /\ i \in Int
    BY <1>1, <1>2, <1>3
  <2>. QED  BY <1>5, <2>1
<1>. QED  BY <1>2, <1>4, <1>6, Zenon DEF Names

\* What the filled frame holds of each signal.
FilledRaw(m, signals, s) == IF s \in Names(signals) THEN Coded(m, s, LastGiven(signals, s)) ELSE 0

LEMMA FilledHolds ==
    ASSUME NEW m \in Messages, NEW signals \in Given[m]
    PROVE  /\ IsBytes(Filled(m, signals), Size[m])
           /\ \A s \in DOMAIN Layout[m] :
                 GetRawValue(Filled(m, signals), Layout[m][s]) = FilledRaw(m, signals, s)
<1>1. FillInv(m, signals, Len(signals), Filled(m, signals))
  BY FilledInv
<1>2. Len(signals) \in Nat /\ DOMAIN signals = 1 .. Len(signals)
  BY GivenIs
<1>3. ASSUME NEW s \in DOMAIN Layout[m]
      PROVE  GetRawValue(Filled(m, signals), Layout[m][s]) = FilledRaw(m, signals, s)
  <2>. DEFINE r == GetRawValue(Filled(m, signals), Layout[m][s])
  <2>1. SoFar(m, signals, Len(signals), s, r)
    BY <1>1, Zenon DEF FillInv
  <2>. HIDE DEF r
  <2>2. CASE Missing(signals, Len(signals), s) /\ r = 0
    <3>1. s \notin Names(signals)
      BY <1>2, <2>2, Zenon DEF Missing, Names
    <3>. QED  BY <2>2, <3>1, Zenon DEF FilledRaw, r
  <2>3. CASE \E i \in 1 .. Len(signals) : LastOf(signals, Len(signals), s, i) /\ r = Coded(m, s, signals[i].value)
    <3>1. PICK i : LastOf(signals, Len(signals), s, i) /\ r = Coded(m, s, signals[i].value)
      BY <2>3, Zenon
    <3>2. s \in Names(signals) /\ LastGiven(signals, s) = signals[i].value
      BY <3>1, LastGivenIs
    <3>. QED  BY <3>1, <3>2, Zenon DEF FilledRaw, r
  <2>. QED  BY <2>1, <2>2, <2>3, Zenon DEF SoFar
<1>. QED  BY <1>1, <1>3, Zenon DEF FillInv

-----------------------------------------------------------------------------
(***************************************************************************)
(* 3. Packed and parsed: scaling, wrapping and sign extension.             *)
(***************************************************************************)
LEMMA FactorGrows ==
    ASSUME NEW k \in Int, NEW f \in Int, k # 0
    PROVE  Magnitude(k * f) >= Magnitude(f)
<1>1. CASE k >= 1 /\ f >= 0
  <2>1. (k - 1) * f >= 0 /\ (k - 1) * f = k * f - f
    BY <1>1
  <2>. QED  BY <1>1, <2>1 DEF Magnitude
<1>2. CASE k >= 1 /\ f < 0
  <2>1. (k - 1) * f <= 0 /\ (k - 1) * f = k * f - f
    BY <1>2
  <2>. QED  BY <1>2, <2>1 DEF Magnitude
<1>3. CASE k <= -1 /\ f >= 0
  <2>1. (k + 1) * f <= 0 /\ (k + 1) * f = k * f + f
    BY <1>3
  <2>. QED  BY <1>3, <2>1 DEF Magnitude
<1>4. CASE k <= -1 /\ f < 0
  <2>1. (k + 1) * f >= 0 /\ (k + 1) * f = k * f + f
    BY <1>4
  <2>. QED  BY <1>4, <2>1 DEF Magnitude
<1>. QED  BY <1>1, <1>2, <1>3, <1>4

\* Round divides exactly what can be.
LEMMA RoundExact ==
    ASSUME NEW n \in Int, NEW f \in Int, f # 0
    PROVE  Round(n * f, f) = n
<1>1. n * f \in Int
  OBVIOUS
<1>2. PICK t \in Int : t = Round(n * f, f) /\ 2 * Magnitude(t * f - n * f) <= Magnitude(f)
  BY <1>1, RoundIs
<1>3. PICK k \in Int : k = t - n
  OBVIOUS
<1>4. k * f = t * f - n * f
  BY <1>3
<1>5. PICK z \in Int : z = k * f /\ z = t * f - n * f
  BY <1>4
<1>6. k # 0 => Magnitude(z) >= Magnitude(f)
  BY <1>5, FactorGrows
<1>7. 2 * Magnitude(z) <= Magnitude(f)
  BY <1>2, <1>5, Zenon
<1>8. k = 0
  BY <1>6, <1>7 DEF Magnitude
<1>. QED  BY <1>2, <1>3, <1>8

\* The numbers a signal holds.
InRange(s, n) ==
    IF s.is_signed THEN -Pow2[s.size - 1] <= n /\ n < Pow2[s.size - 1]
    ELSE 0 <= n /\ n < Pow2[s.size]

LEMMA HalfNat ==
    ASSUME NEW s, IsSignal(s)
    PROVE  Pow2[s.size - 1] \in Nat \ {0}
<1>1. s.size - 1 \in Nat
  BY SizeNat
<1>. QED  BY <1>1, PowNat

LEMMA ExpressedIs ==
    ASSUME NEW s, IsSignal(s), NEW v, Expresses(s, v)
    PROVE  \E n \in Int : v = n * s.factor + s.offset /\ InRange(s, n)
<1>1. PICK n \in IF s.is_signed THEN -Pow2[s.size - 1] .. Pow2[s.size - 1] - 1 ELSE 0 .. Pow2[s.size] - 1 :
         v = n * s.factor + s.offset
  BY Zenon DEF Expresses
<1>2. PICK P \in Int, Q \in Int : P = Pow2[s.size - 1] /\ Q = Pow2[s.size]
  BY SizeNat, HalfNat
<1>3. n \in IF s.is_signed THEN -P .. P - 1 ELSE 0 .. Q - 1
  BY <1>1, <1>2, Zenon
<1>4. n \in Int /\ IF s.is_signed THEN -P <= n /\ n < P ELSE 0 <= n /\ n < Q
  BY <1>3
<1>. QED  BY <1>1, <1>2, <1>4, Zenon DEF InRange

LEMMA SmallMod ==
    ASSUME NEW P \in Nat, NEW x \in 0 .. P - 1
    PROVE  x % P = x
<1>1. x = P * 0 + x /\ P \in Nat \ {0}
  OBVIOUS
<1>. QED  BY <1>1, DivIs

\* A value that the signal expresses is parsed back.
LEMMA CodedParses ==
    ASSUME NEW s, IsSignal(s), IsScaled(s), s.size < WordBits, NEW v, Expresses(s, v)
    PROVE  Decode(s, Encode(s, v, 0) % Pow2[s.size], 0) = v
<1>1. PICK f \in Int, o \in Int : f = s.factor /\ f # 0 /\ o = s.offset /\ s.is_signed \in BOOLEAN
  BY DEF IsScaled
<1>2. PICK n \in Int : v = n * f + o /\ InRange(s, n)
  BY <1>1, ExpressedIs
<1>3. Round(v - o, f) = n
  <2>1. v - o = n * f
    <3>1. PICK z \in Int : z = n * f
      OBVIOUS
    <3>. QED  BY <1>2, <3>1
  <2>. QED  BY <1>1, <2>1, RoundExact
<1>4. PICK P \in Nat : P = Pow2[s.size]
  BY SizeNat
<1>5. Encode(s, v, 0) = IF n < 0 THEN P + n ELSE n
  BY <1>1, <1>3, <1>4, Zenon DEF Encode, OneShifted
<1>6. /\ (IF n < 0 THEN P + n ELSE n) \in 0 .. P - 1
      /\ SignExtended(s, IF n < 0 THEN P + n ELSE n, 0) = n
  BY <1>1, <1>2, <1>4, ExtendedIs DEF InRange
<1>7. (IF n < 0 THEN P + n ELSE n) % P = IF n < 0 THEN P + n ELSE n
  BY <1>6, SmallMod
<1>8. SignExtended(s, Encode(s, v, 0) % Pow2[s.size], 0) = n
  BY <1>4, <1>5, <1>6, <1>7, Zenon
<1>. QED  BY <1>1, <1>2, <1>8, Zenon DEF Decode

\* A signal of which no bit is set is parsed as its offset.
LEMMA ZeroParses ==
    ASSUME NEW s, IsSignal(s), IsScaled(s), s.size < WordBits
    PROVE  Decode(s, 0, 0) = s.offset
<1>1. PICK f \in Int, o \in Int : f = s.factor /\ f # 0 /\ o = s.offset /\ s.is_signed \in BOOLEAN
  BY DEF IsScaled
<1>2. PICK n \in Int : n = 0 /\ InRange(s, n)
  BY <1>1, SizeNat, HalfNat DEF InRange
<1>3. SignExtended(s, IF n < 0 THEN Pow2[s.size] + n ELSE n, 0) = n
  BY <1>1, <1>2, ExtendedIs DEF InRange
<1>4. SignExtended(s, 0, 0) = 0
  BY <1>2, <1>3
<1>5. Decode(s, 0, 0) = 0 * f + o
  BY <1>1, <1>4, Zenon DEF Decode
<1>. QED  BY <1>1, <1>5

LEMMA ModTurn ==
    ASSUME NEW P \in Nat \ {0}, NEW x \in Int
    PROVE  (P + x) % P = x % P
<1>1. PICK q \in Int, r \in 0 .. P - 1 : r = x % P /\ x = P * q + r
  BY DivMod
<1>2. P + x = P * (q + 1) + r /\ q + 1 \in Int /\ P + x \in Int
  BY <1>1
<1>3. (P + x) % P = r
  BY <1>2, DivIs
<1>. QED  BY <1>1, <1>3

LEMMA ModSucc ==
    ASSUME NEW P \in Nat \ {0}, NEW x \in Int
    PROVE  ((x + 1) % P) % P = ((x % P) + 1) % P
<1>1. PICK q \in Int, r \in 0 .. P - 1 : r = x % P /\ x = P * q + r
  BY DivMod
<1>2. PICK u \in Int, w \in 0 .. P - 1 : w = (r + 1) % P /\ r + 1 = P * u + w
  <2>1. r + 1 \in Int
    OBVIOUS
  <2>. QED  BY <2>1, DivMod
<1>3. x + 1 = P * (q + u) + w /\ q + u \in Int /\ x + 1 \in Int
  BY <1>1, <1>2
<1>4. (x + 1) % P = w
  BY <1>3, DivIs
<1>5. w % P = w
  BY SmallMod
<1>. QED  BY <1>1, <1>2, <1>4, <1>5

\* Of a number, a COUNTER takes the low bits.
LEMMA CounterCoded ==
    ASSUME NEW s, IsSignal(s), s.size < WordBits, s.factor = 1, s.offset = 0, NEW c \in Int
    PROVE  Encode(s, c, 0) % Pow2[s.size] = c % Pow2[s.size]
<1>1. PICK P \in Nat \ {0} : P = Pow2[s.size]
  BY SizeNat
<1>2. Round(c - s.offset, s.factor) = c
  <2>1. Round(c * 1, 1) = c
    BY RoundExact
  <2>2. c * 1 = c - 0
    OBVIOUS
  <2>. QED  BY <2>1, <2>2, Zenon
<1>3. Encode(s, c, 0) = IF c < 0 THEN P + c ELSE c
  BY <1>1, <1>2, Zenon DEF Encode, OneShifted
<1>4. (P + c) % P = c % P
  BY <1>1, ModTurn
<1>. QED  BY <1>1, <1>3, <1>4, Zenon

-----------------------------------------------------------------------------
(***************************************************************************)
(* 4. The frame pack() returns.                                            *)
(***************************************************************************)
Raw(m, d, s) == GetRawValue(d, Layout[m][s])

\* Of the signals, only s may have changed; s holds x.
OnlySets(m, d, e, s, x) ==
    /\ IsBytes(e, Size[m])
    /\ \A t \in DOMAIN Layout[m] \ {s} : Raw(m, e, t) = Raw(m, d, t)
    /\ Raw(m, e, s) = x % Pow2[Layout[m][s].size]

LEMMA SetOnly ==
    ASSUME NEW m \in Messages, NEW s \in DOMAIN Layout[m], NEW d, IsBytes(d, Size[m]), NEW x \in Int
    PROVE  OnlySets(m, d, SetValue(d, Layout[m][s], x), s, x)
<1>. DEFINE g == Layout[m][s]
            e == SetValue(d, g, x)
<1>1. Size[m] \in Nat /\ InPlace(g, Size[m])
  BY LayoutIs
<1>2. IsBytes(e, Size[m]) /\ GetRawValue(e, g) = x % Pow2[g.size]
  BY <1>1, ReadsSet
<1>3. ASSUME NEW t \in DOMAIN Layout[m] \ {s}
      PROVE  GetRawValue(e, Layout[m][t]) = GetRawValue(d, Layout[m][t])
  <2>1. InPlace(Layout[m][t], Size[m]) /\ ~Overlap(Layout[m][t], g)
    BY LayoutIs
  <2>. QED  BY <1>1, <2>1, ReadsBeside
<1>. QED  BY <1>2, <1>3, Zenon DEF OnlySets, Raw

\* The value LastGiven finds is one of those that were given.
LEMMA GivenLast ==
    ASSUME NEW m \in Messages, NEW signals \in Given[m], NEW s \in DOMAIN Layout[m], s \in Names(signals)
    PROVE  \E i \in DOMAIN signals : signals[i].name = s /\ LastGiven(signals, s) = signals[i].value
<1>1. Len(signals) \in Nat /\ DOMAIN signals = 1 .. Len(signals)
  BY GivenIs
<1>2. SoFar(m, signals, Len(signals), s, GetRawValue(Filled(m, signals), Layout[m][s]))
  BY FilledInv, Zenon DEF FillInv
<1>3. ~Missing(signals, Len(signals), s)
  BY <1>1, Zenon DEF Missing, Names
<1>4. PICK i \in 1 .. Len(signals) : LastOf(signals, Len(signals), s, i)
  BY <1>2, <1>3, Zenon DEF SoFar
<1>5. LastGiven(signals, s) = signals[i].value
  BY <1>4, LastGivenIs
<1>. QED  BY <1>1, <1>4, <1>5, Zenon DEF LastOf

LEMMA CounterIs ==
    ASSUME NEW m \in Messages, HasSignal(m, "COUNTER")
    PROVE  /\ "COUNTER" \in DOMAIN Layout[m] /\ InPlace(Layout[m]["COUNTER"], Size[m])
           /\ ~Layout[m]["COUNTER"].is_signed
           /\ Layout[m]["COUNTER"].factor = 1 /\ Layout[m]["COUNTER"].offset = 0
           /\ CounterMod[m] = Pow2[Layout[m]["COUNTER"].size] /\ CounterMod[m] \in Nat \ {0}
<1>1. "COUNTER" \in DOMAIN Layout[m]
  BY DEF HasSignal
<1>2. InPlace(Layout[m]["COUNTER"], Size[m]) /\ IsSignal(Layout[m]["COUNTER"])
  BY <1>1, LayoutIs DEF InPlace
<1>3. /\ ~Layout[m]["COUNTER"].is_signed
      /\ Layout[m]["COUNTER"].factor = 1 /\ Layout[m]["COUNTER"].offset = 0
  BY <1>1, CheckedAssumption
<1>4. CounterMod[m] = Pow2[Layout[m]["COUNTER"].size]
  BY Zenon DEF CounterMod
<1>. QED  BY <1>1, <1>2, <1>3, <1>4, SizeNat

\* The number whose low bits are in the COUNTER.
Number(m, signals) ==
    IF CounterGiven(m, signals) THEN LastGiven(signals, "COUNTER") ELSE NextCounter(m)

LEMMA CountedHolds ==
    ASSUME NEW m \in Messages, NEW signals \in Given[m], NextCounter(m) \in Int
    PROVE  LET d == Counted(m, signals, Filled(m, signals)) IN
           /\ IsBytes(d, Size[m])
           /\ \A s \in DOMAIN Layout[m] \ {"COUNTER"} : Raw(m, d, s) = FilledRaw(m, signals, s)
           /\ HasSignal(m, "COUNTER") =>
                 /\ Number(m, signals) \in Int
                 /\ Raw(m, d, "COUNTER") = Number(m, signals) % CounterMod[m]
<1>. DEFINE c == Filled(m, signals)
            d == Counted(m, signals, c)
<1>1. IsBytes(c, Size[m]) /\ \A s \in DOMAIN Layout[m] : Raw(m, c, s) = FilledRaw(m, signals, s)
  BY FilledHolds DEF Raw
<1>. HIDE DEF c
<1>2. CASE ~HasSignal(m, "COUNTER")
  <2>1. d = c
    BY <1>2, Zenon DEF Counted
  <2>. HIDE DEF d
  <2>. QED  BY <1>1, <1>2, <2>1 DEF c, d
<1>3. CASE HasSignal(m, "COUNTER") /\ CounterGiven(m, signals)
  <2>1. d = c /\ Number(m, signals) = LastGiven(signals, "COUNTER")
    BY <1>3, Zenon DEF Counted, Number
  <2>. HIDE DEF d
  <2>2. "COUNTER" \in DOMAIN Layout[m] /\ "COUNTER" \in Names(signals)
    BY <1>3, Zenon DEF HasSignal, CounterGiven
  <2>3. PICK i \in DOMAIN signals : signals[i].name = "COUNTER" /\ LastGiven(signals, "COUNTER") = signals[i].value
    BY <2>2, GivenLast
  <2>4. LastGiven(signals, "COUNTER") \in Int
    BY <2>3, GivenIs, Zenon
  <2>5. Raw(m, c, "COUNTER") = Coded(m, "COUNTER", LastGiven(signals, "COUNTER"))
    BY <1>1, <2>2, Zenon DEF FilledRaw
  <2>6. Coded(m, "COUNTER", LastGiven(signals, "COUNTER")) = LastGiven(signals, "COUNTER") % CounterMod[m]
    <3>1. PICK g : g = Layout[m]["COUNTER"]
      OBVIOUS
    <3>2. /\ IsSignal(g) /\ g.size < WordBits /\ g.factor = 1 /\ g.offset = 0
          /\ CounterMod[m] = Pow2[g.size]
      BY <1>3, <3>1, CounterIs, Zenon DEF InPlace
    <3>3. Encode(g, LastGiven(signals, "COUNTER"), 0) % Pow2[g.size] = LastGiven(signals, "COUNTER") % Pow2[g.size]
      BY <2>4, <3>2, CounterCoded
    <3>. QED  BY <3>1, <3>2, <3>3, Zenon DEF Coded
  <2>. QED  BY <1>1, <2>1, <2>4, <2>5, <2>6 DEF c, d
<1>4. CASE HasSignal(m, "COUNTER") /\ ~CounterGiven(m, signals)
  <2>1. d = SetValue(c, Layout[m]["COUNTER"], NextCounter(m)) /\ Number(m, signals) = NextCounter(m)
    BY <1>4, Zenon DEF Counted, Number
  <2>2. "COUNTER" \in DOMAIN Layout[m] /\ CounterMod[m] = Pow2[Layout[m]["COUNTER"].size]
    BY <1>4, CounterIs
  <2>. HIDE DEF d
  <2>3. OnlySets(m, c, d, "COUNTER", NextCounter(m))
    BY <1>1, <2>1, <2>2, SetOnly
  <2>. QED  BY <1>1, <2>1, <2>2, <2>3 DEF OnlySets, c, d
<1>. QED  BY <1>2, <1>3, <1>4

\* A frame, and what is in it.
FrameIs(m, signals, d) ==
    /\ IsBytes(d, Size[m])
    /\ \A s \in DOMAIN Layout[m] \ {"COUNTER", "CHECKSUM"} : Raw(m, d, s) = FilledRaw(m, signals, s)
    /\ HasSignal(m, "COUNTER") =>
          /\ Number(m, signals) \in Int
          /\ Raw(m, d, "COUNTER") = Number(m, signals) % CounterMod[m]
    /\ HasSignal(m, "CHECKSUM") => Raw(m, d, "CHECKSUM") = Checksum(m, d)

LEMMA FrameHolds ==
    ASSUME ChecksumsExcludeThemselves,
           NEW m \in Messages, NEW signals \in Given[m], NextCounter(m) \in Int
    PROVE  FrameIs(m, signals, Frame(m, signals))
<1>1. PICK c :
         /\ c = Counted(m, signals, Filled(m, signals)) /\ IsBytes(c, Size[m])
         /\ \A s \in DOMAIN Layout[m] \ {"COUNTER"} : Raw(m, c, s) = FilledRaw(m, signals, s)
         /\ HasSignal(m, "COUNTER") =>
               /\ Number(m, signals) \in Int
               /\ Raw(m, c, "COUNTER") = Number(m, signals) % CounterMod[m]
  BY CountedHolds
<1>2. Frame(m, signals) = Closed(m, c)
  BY <1>1, Zenon DEF Frame
<1>3. CASE ~HasSignal(m, "CHECKSUM")
  <2>1. Frame(m, signals) = c
    BY <1>2, <1>3, Zenon DEF Closed
  <2>2. FrameIs(m, signals, c)
    BY <1>1, <1>3 DEF FrameIs
  <2>. QED  BY <2>1, <2>2, Zenon
<1>4. CASE HasSignal(m, "CHECKSUM")
  <2>1. PICK g, x, e : g = Layout[m]["CHECKSUM"] /\ x = Checksum(m, c) /\ e = SetValue(c, g, x)
    OBVIOUS
  <2>2. Frame(m, signals) = e
    BY <1>2, <1>4, <2>1, Zenon DEF Closed
  <2>3. "CHECKSUM" \in DOMAIN Layout[m] /\ IsSignal(g)
    BY <1>4, <2>1, LayoutIs DEF HasSignal, InPlace
  <2>4. ExcludesItself(m, c)
    BY <1>1, <1>4, Zenon DEF ChecksumsExcludeThemselves, IsBytes
  <2>5. PICK P \in Nat : P = Pow2[g.size]
    BY <2>3, SizeNat
  <2>6. x \in 0 .. P - 1 /\ Checksum(m, e) = x
    BY <2>1, <2>4, <2>5, Zenon DEF ExcludesItself
  <2>7. x \in Int /\ x % P = x
    BY <2>6, SmallMod
  <2>8. OnlySets(m, c, e, "CHECKSUM", x)
    BY <1>1, <2>1, <2>3, <2>7, SetOnly
  <2>9. IsBytes(e, Size[m]) /\ Raw(m, e, "CHECKSUM") = Checksum(m, e)
    BY <2>1, <2>5, <2>6, <2>7, <2>8, Zenon DEF OnlySets
  <2>10. \A s \in DOMAIN Layout[m] \ {"CHECKSUM"} : Raw(m, e, s) = Raw(m, c, s)
    BY <2>8, Zenon DEF OnlySets
  <2>11. \A s \in DOMAIN Layout[m] \ {"COUNTER", "CHECKSUM"} : Raw(m, e, s) = FilledRaw(m, signals, s)
    BY <1>1, <2>10
  <2>12. HasSignal(m, "COUNTER") => Raw(m, e, "COUNTER") = Raw(m, c, "COUNTER")
    BY <2>10 DEF HasSignal
  <2>13. FrameIs(m, signals, e)
    BY <1>1, <2>9, <2>11, <2>12, Zenon DEF FrameIs
  <2>. QED  BY <2>2, <2>13, Zenon
<1>. QED  BY <1>3, <1>4

-----------------------------------------------------------------------------
(***************************************************************************)
(* 5. The states: counters and the COUNTERs of the last frames agree.      *)
(***************************************************************************)
Entry == [counter : Int, explicit : BOOLEAN]

\* The next automatic COUNTER is the low bits of the number in counters, which
\* is not cut to them when a caller gives it.
Follows(m) ==
    IF last[m] = NoEntry THEN counters[m] = NoEntry
    ELSE /\ counters[m] # NoEntry
         /\ counters[m] % CounterMod[m] =
                IF last[m].explicit THEN last[m].counter ELSE (last[m].counter + 1) % CounterMod[m]

PackInv ==
    /\ sends \in Senders
    /\ counters \in [Messages -> Int \cup {NoEntry}]
    /\ last \in [Messages -> Entry \cup {NoEntry}]
    /\ packs \in [Messages -> 0 .. 1]
    /\ \A m \in Messages : HasSignal(m, "COUNTER") => Follows(m)

LEMMA PackStart == PackInit => PackInv
BY DEF PackInit, PackInv, Follows

LEMMA NextInt ==
    ASSUME PackInv, NEW m \in Messages
    PROVE  NextCounter(m) \in Int
<1>1. counters[m] \in Int \cup {NoEntry}
  BY DEF PackInv
<1>. QED  BY <1>1 DEF NextCounter

\* What the parser finds in a frame that was packed.
LEMMA ReceivedIs ==
    ASSUME ChecksumsExcludeThemselves, PackInv,
           NEW m \in Messages, NEW bus, NEW signals \in Given[m]
    PROVE  Received(m, bus, Frame(m, signals)) =
              [src |-> bus, address |-> m, fits |-> TRUE, checksum_ok |-> TRUE,
               counter |-> IF HasSignal(m, "COUNTER") THEN Number(m, signals) % CounterMod[m] ELSE 0,
               value |-> 0]
<1>1. PICK d : d = Frame(m, signals) /\ FrameIs(m, signals, d)
  BY NextInt, FrameHolds
<1>2. (Len(d) <= 64) = TRUE
  <2>1. Len(d) = Size[m]
    BY <1>1 DEF FrameIs, IsBytes
  <2>. QED  BY <2>1, LayoutIs
<1>3. HasSignal(m, "COUNTER") => Tmp(m, d, "COUNTER") = Number(m, signals) % CounterMod[m]
  <2>1. HasSignal(m, "COUNTER") => Tmp(m, d, "COUNTER") = Raw(m, d, "COUNTER")
    BY CounterIs, Zenon DEF Tmp, SignExtended, Raw
  <2>. QED  BY <1>1, <2>1, Zenon DEF FrameIs
<1>4. HasSignal(m, "CHECKSUM") => Checksum(m, d) = Tmp(m, d, "CHECKSUM")
  <2>1. HasSignal(m, "CHECKSUM") => ~Layout[m]["CHECKSUM"].is_signed
    BY CheckedAssumption DEF HasSignal
  <2>2. HasSignal(m, "CHECKSUM") => Tmp(m, d, "CHECKSUM") = Raw(m, d, "CHECKSUM")
    BY <2>1, Zenon DEF Tmp, SignExtended, Raw
  <2>. QED  BY <1>1, <2>2, Zenon DEF FrameIs
<1>5. ChecksumMatches(m, d) = TRUE
  BY <1>4, Zenon DEF ChecksumMatches
<1>6. Received(m, bus, d) =
         [src |-> bus, address |-> m, fits |-> TRUE, checksum_ok |-> TRUE,
          counter |-> IF HasSignal(m, "COUNTER") THEN Number(m, signals) % CounterMod[m] ELSE 0,
          value |-> 0]
  BY <1>2, <1>3, <1>5 DEF Received
<1>. QED  BY <1>1, <1>6, Zenon

\* The COUNTER that was sent, and the one that is counted.
LEMMA PackCounts ==
    ASSUME ChecksumsExcludeThemselves, PackInv,
           NEW m \in Messages, NEW bus, NEW signals \in Given[m], Pack(m, bus, signals)
    PROVE  /\ counters' = [counters EXCEPT ![m] = CounterAfter(m, signals)]
           /\ last' = [last EXCEPT ![m] =
                  [counter |-> IF HasSignal(m, "COUNTER") THEN Number(m, signals) % CounterMod[m] ELSE 0,
                   explicit |-> CounterGiven(m, signals)]]
           /\ HasSignal(m, "COUNTER") => Number(m, signals) \in Int
<1>1. received'.counter = IF HasSignal(m, "COUNTER") THEN Number(m, signals) % CounterMod[m] ELSE 0
  BY ReceivedIs DEF Pack
<1>2. FrameIs(m, signals, Frame(m, signals))
  BY NextInt, FrameHolds
<1>. QED  BY <1>1, <1>2, Zenon DEF Pack, FrameIs

LEMMA PackKeeps ==
    ASSUME ChecksumsExcludeThemselves, PackInv,
           NEW m \in sends, NEW bus \in Buses, NEW signals \in Given[m], Pack(m, bus, signals)
    PROVE  PackInv'
<1>1. m \in Messages
  BY UserAssumption DEF PackInv
<1>. DEFINE e == [counter |-> IF HasSignal(m, "COUNTER") THEN Number(m, signals) % CounterMod[m] ELSE 0,
                  explicit |-> CounterGiven(m, signals)]
<1>2. /\ last' = [last EXCEPT ![m] = e]
      /\ counters' = [counters EXCEPT ![m] = CounterAfter(m, signals)]
      /\ HasSignal(m, "COUNTER") => Number(m, signals) \in Int
  BY <1>1, PackCounts, Zenon
<1>3. /\ last \in [Messages -> Entry \cup {NoEntry}]
      /\ counters \in [Messages -> Int \cup {NoEntry}] /\ sends \in Senders
  BY DEF PackInv
<1>4. packs' \in [Messages -> 0 .. 1]
  <2>1. packs' = [packs EXCEPT ![m] = 1 - packs[m]]
    BY Zenon DEF Pack
  <2>2. packs \in [Messages -> 0 .. 1] /\ 1 - packs[m] \in 0 .. 1
    BY <1>1 DEF PackInv
  <2>. QED  BY <1>1, <2>1, <2>2
<1>5. CASE ~HasSignal(m, "COUNTER")
  <2>1. e \in Entry
    BY <1>2, <1>5 DEF Entry, CounterGiven
  <2>2. CounterAfter(m, signals) = counters[m]
    BY <1>5, Zenon DEF CounterAfter
  <2>3. counters' = counters
    BY <1>2, <1>3, <2>2
  <2>4. last' \in [Messages -> Entry \cup {NoEntry}] /\ \A n \in Messages : n # m => last'[n] = last[n]
    BY <1>2, <1>3, <2>1
  <2>5. ASSUME NEW n \in Messages, HasSignal(n, "COUNTER")
        PROVE  Follows(n)'
    <3>1. n # m
      BY <1>5, <2>5, Zenon
    <3>2. Follows(n)
      BY <2>5, Zenon DEF PackInv
    <3>3. last'[n] = last[n]
      BY <2>4, <3>1, Zenon
    <3>. QED  BY <2>3, <3>2, <3>3, Zenon DEF Follows
  <2>6. sends' = sends
    BY DEF Pack
  <2>. QED  BY <1>3, <1>4, <2>3, <2>4, <2>5, <2>6, Zenon DEF PackInv
<1>6. CASE HasSignal(m, "COUNTER")
  <2>1. PICK x \in Int, P \in Nat \ {0} : x = Number(m, signals) /\ P = CounterMod[m]
    BY <1>1, <1>2, <1>6, CounterIs
  <2>2. x % P \in Int
    BY <2>1, DivType
  <2>3. e.counter = x % P /\ e.explicit = CounterGiven(m, signals) /\ e \in Entry
    BY <1>2, <1>6, <2>1, <2>2 DEF Entry, CounterGiven
  <2>4. PICK y \in Int : /\ y = CounterAfter(m, signals)
                         /\ y % P = IF e.explicit THEN e.counter ELSE (e.counter + 1) % P
    <3>1. CASE CounterGiven(m, signals)
      <4>1. CounterAfter(m, signals) = x
        BY <1>6, <2>1, <3>1, Zenon DEF CounterAfter, Number
      <4>. QED  BY <2>1, <2>3, <3>1, <4>1
    <3>2. CASE ~CounterGiven(m, signals)
      <4>1. CounterAfter(m, signals) = (x + 1) % P
        BY <1>6, <2>1, <3>2, Zenon DEF CounterAfter, Number
      <4>2. (x + 1) % P \in Int
        BY <2>1, DivType
      <4>3. ((x + 1) % P) % P = ((x % P) + 1) % P
        BY ModSucc
      <4>. QED  BY <2>1, <2>3, <3>2, <4>1, <4>2, <4>3
    <3>. QED  BY <3>1, <3>2
  <2>5. /\ last' \in [Messages -> Entry \cup {NoEntry}] /\ last'[m] = e
        /\ \A n \in Messages : n # m => last'[n] = last[n]
    BY <1>1, <1>2, <1>3, <2>3
  <2>6. /\ counters' \in [Messages -> Int \cup {NoEntry}] /\ counters'[m] = y
        /\ \A n \in Messages : n # m => counters'[n] = counters[n]
    BY <1>1, <1>2, <1>3, <2>4
  <2>7. e # NoEntry /\ y # NoEntry
    BY <2>3, UserAssumption DEF Entry
  <2>8. Follows(m)'
    BY <2>1, <2>4, <2>5, <2>6, <2>7, Zenon DEF Follows
  <2>9. ASSUME NEW n \in Messages, HasSignal(n, "COUNTER")
        PROVE  Follows(n)'
    <3>1. CASE n = m
      BY <2>8, <3>1, Zenon
    <3>2. CASE n # m
      <4>1. Follows(n) /\ last'[n] = last[n] /\ counters'[n] = counters[n]
        BY <2>5, <2>6, <2>9, <3>2, Zenon DEF PackInv
      <4>. QED  BY <4>1, Zenon DEF Follows
    <3>. QED  BY <3>1, <3>2
  <2>10. sends' = sends
    BY DEF Pack
  <2>. QED  BY <1>3, <1>4, <2>5, <2>6, <2>9, <2>10, Zenon DEF PackInv
<1>. QED  BY <1>5, <1>6

LEMMA PackInvNext ==
    ASSUME ChecksumsExcludeThemselves, PackInv, [PackNext]_packVars
    PROVE  PackInv'
<1>1. CASE UNCHANGED packVars
  BY <1>1 DEF packVars, PackInv, Follows
<1>2. CASE PackUndefined
  BY <1>2 DEF PackUndefined, PackInv, Follows
<1>3. ASSUME NEW m \in sends, NEW bus \in Buses, NEW signals \in Given[m], Pack(m, bus, signals)
      PROVE  PackInv'
  BY <1>3, PackKeeps
<1>. QED  BY <1>1, <1>2, <1>3 DEF PackNext

(***************************************************************************)
(* Whatever is packed, in whatever order, what counters holds for a        *)
(* message (packer.cc:69-84) determines the COUNTER its parser expects     *)
(* after the last frame.                                                   *)
(***************************************************************************)
THEOREM PackInvariant ==
    ASSUME ChecksumsExcludeThemselves
    PROVE  PackSpec => []PackInv
<1>1. PackInv /\ [PackNext]_packVars => PackInv'
  BY PackInvNext
<1>. QED  BY <1>1, PackStart, PTL DEF PackSpec

LEMMA PackParses ==
    ASSUME ChecksumsExcludeThemselves, PackInv,
           NEW m \in Messages, NEW bus, NEW signals \in Given[m], Pack(m, bus, signals)
    PROVE  ParsesBack'
<1>1. PICK d : d = Frame(m, signals) /\ FrameIs(m, signals, d)
  BY NextInt, FrameHolds
<1>2. bytes' = d /\ given' = [n \in Names(signals) |-> LastGiven(signals, n)] /\ received'.address = m
  BY <1>1 DEF Pack, Received
<1>3. ASSUME NEW s \in DOMAIN Layout[m] \ {"COUNTER", "CHECKSUM"}
      PROVE  Parsed(m, d, s) = IF s \in Names(signals) THEN LastGiven(signals, s) ELSE Layout[m][s].offset
  <2>1. PICK g : g = Layout[m][s] /\ IsSignal(g) /\ IsScaled(g) /\ g.size < WordBits
    BY LayoutIs DEF InPlace
  <2>2. Raw(m, d, s) = FilledRaw(m, signals, s)
    BY <1>1, Zenon DEF FrameIs
  <2>3. Parsed(m, d, s) = Decode(g, FilledRaw(m, signals, s), 0)
    BY <2>1, <2>2, Zenon DEF Parsed, Raw
  <2>4. CASE s \in Names(signals)
    <3>1. PICK i \in DOMAIN signals : signals[i].name = s /\ LastGiven(signals, s) = signals[i].value
      BY <2>4, GivenLast
    <3>2. HasSignal(m, s) /\ s # "COUNTER" /\ s # "CHECKSUM"
      BY DEF HasSignal
    <3>3. Expresses(g, LastGiven(signals, s))
      BY <2>1, <3>1, <3>2, GivenAssumption, Zenon
    <3>4. FilledRaw(m, signals, s) = Encode(g, LastGiven(signals, s), 0) % Pow2[g.size]
      BY <2>1, <2>4, Zenon DEF FilledRaw, Coded
    <3>5. Decode(g, Encode(g, LastGiven(signals, s), 0) % Pow2[g.size], 0) = LastGiven(signals, s)
      BY <2>1, <3>3, CodedParses
    <3>. QED  BY <2>3, <2>4, <3>4, <3>5, Zenon
  <2>5. CASE s \notin Names(signals)
    <3>1. FilledRaw(m, signals, s) = 0
      BY <2>5, Zenon DEF FilledRaw
    <3>2. Decode(g, 0, 0) = g.offset
      BY <2>1, ZeroParses
    <3>. QED  BY <2>1, <2>3, <2>5, <3>1, <3>2, Zenon
  <2>. QED  BY <2>4, <2>5
<1>4. ASSUME NEW s \in DOMAIN Layout[m] \ {"COUNTER", "CHECKSUM"}
      PROVE  Parsed(m, bytes', s) = IF s \in DOMAIN given' THEN given'[s] ELSE Layout[m][s].offset
  <2>1. DOMAIN given' = Names(signals) /\ \A n \in Names(signals) : given'[n] = LastGiven(signals, n)
    BY <1>2
  <2>. QED  BY <1>2, <1>3, <2>1, Zenon
<1>. QED  BY <1>2, <1>4, Zenon DEF ParsesBack, Parsed

(***************************************************************************)
(* Every value that is packed is parsed back, whatever the layouts, the    *)
(* calls and their order: the last one given of each name, the offset for  *)
(* the names not given, and neither COUNTER nor CHECKSUM disturbs them.    *)
(***************************************************************************)
THEOREM ParsesBackHolds ==
    ASSUME ChecksumsExcludeThemselves
    PROVE  PackSpec => []ParsesBack
<1>1. PackInit => ParsesBack
  BY DEF PackInit, ParsesBack
<1>2. PackInv /\ ParsesBack /\ [PackNext]_packVars => ParsesBack'
  <2>. SUFFICES ASSUME PackInv, ParsesBack, [PackNext]_packVars PROVE ParsesBack'
    OBVIOUS
  <2>1. CASE UNCHANGED packVars
    BY <2>1, Zenon DEF packVars, ParsesBack, Parsed
  <2>2. CASE PackUndefined
    BY <2>2, Zenon DEF PackUndefined, ParsesBack
  <2>3. ASSUME NEW m \in sends, NEW bus \in Buses, NEW signals \in Given[m], Pack(m, bus, signals)
        PROVE  ParsesBack'
    <3>1. m \in Messages
      BY UserAssumption DEF PackInv
    <3>. QED  BY <2>3, <3>1, PackParses
  <2>. QED  BY <2>1, <2>2, <2>3 DEF PackNext
<1>. QED  BY <1>1, <1>2, PackInvariant, PTL DEF PackSpec

LEMMA PackResumes ==
    ASSUME ChecksumsExcludeThemselves, PackInv,
           NEW m \in Messages, NEW bus, NEW signals \in Given[m], Pack(m, bus, signals),
           NEW n \in Messages, HasSignal(n, "COUNTER"), packs'[n] # packs[n], ~last'[n].explicit
    PROVE  Resumes(n)
<1>1. last \in [Messages -> Entry \cup {NoEntry}]
  BY DEF PackInv
<1>. DEFINE e == [counter |-> IF HasSignal(m, "COUNTER") THEN Number(m, signals) % CounterMod[m] ELSE 0,
                  explicit |-> CounterGiven(m, signals)]
<1>2. last' = [last EXCEPT ![m] = e]
  BY PackCounts, ZenonT(40)
<1>3. n = m
  BY DEF Pack, PackInv
<1>4. last'[m] = e
  BY <1>1, <1>2
<1>5. PICK P \in Nat \ {0} : P = CounterMod[m]
  BY <1>3, CounterIs
<1>6. ~CounterGiven(m, signals) /\ last'[m].counter = NextCounter(m) % P
  BY <1>3, <1>4, <1>5 DEF Number
<1>7. Follows(m)
  BY <1>3, Zenon DEF PackInv
<1>8. CASE last[m] = NoEntry
  <2>1. NextCounter(m) = 0
    BY <1>7, <1>8, Zenon DEF Follows, NextCounter
  <2>2. 0 % P = 0
    <3>1. 0 \in 0 .. P - 1
      OBVIOUS
    <3>. QED  BY <3>1, SmallMod
  <2>. QED  BY <1>3, <1>6, <1>8, <2>1, <2>2, Zenon DEF Resumes
<1>9. CASE last[m] # NoEntry
  <2>1. NextCounter(m) = counters[m]
    BY <1>7, <1>9, Zenon DEF Follows, NextCounter
  <2>2. NextCounter(m) % P = IF last[m].explicit THEN last[m].counter ELSE (last[m].counter + 1) % P
    BY <1>5, <1>7, <1>9, <2>1, Zenon DEF Follows
  <2>. QED  BY <1>3, <1>5, <1>6, <1>9, <2>2, Zenon DEF Resumes
<1>. QED  BY <1>8, <1>9

(***************************************************************************)
(* Each call that packs a message without a COUNTER counts on from the     *)
(* message's own last one, and after an explicit one from that, for any    *)
(* number of messages packed in turns; packs changes at every such call,   *)
(* so none of them is exempt.                                              *)
(***************************************************************************)
THEOREM CountsPerMessageHolds ==
    ASSUME ChecksumsExcludeThemselves
    PROVE  PackSpec => CountsPerMessage
<1>1. PackInv /\ [PackNext]_packVars =>
         [\A m \in Messages : HasSignal(m, "COUNTER") /\ packs'[m] # packs[m] /\ ~last'[m].explicit
                                 => Resumes(m)]_packVars
  <2>. SUFFICES ASSUME PackInv, PackNext, NEW n \in Messages,
                       HasSignal(n, "COUNTER"), packs'[n] # packs[n], ~last'[n].explicit
                PROVE  Resumes(n)
    OBVIOUS
  <2>1. ~PackUndefined
    BY Zenon DEF PackUndefined
  <2>2. ASSUME NEW m \in sends, NEW bus \in Buses, NEW signals \in Given[m], Pack(m, bus, signals)
        PROVE  Resumes(n)
    <3>1. m \in Messages
      BY UserAssumption DEF PackInv
    <3>. QED  BY <2>2, <3>1, PackResumes
  <2>. QED  BY <2>1, <2>2 DEF PackNext
<1>. QED  BY <1>1, PackInvariant, PTL DEF PackSpec, CountsPerMessage

\* What a caller asks of the abstract packer.
Asked(m, signals) == IF CounterGiven(m, signals) THEN LastGiven(signals, "COUNTER") ELSE NoOverride

LEMMA PackImplements ==
    ASSUME ChecksumsExcludeThemselves, PackInv,
           NEW m \in sends, NEW bus \in Buses, NEW signals \in Given[m], Pack(m, bus, signals)
    PROVE  Packer!PackerNext
<1>1. m \in Messages
  BY UserAssumption DEF PackInv
<1>. DEFINE ask == Asked(m, signals)
<1>2. ask \in Overrides \cup {NoOverride} /\ (CounterGiven(m, signals) => ask # NoOverride)
  <2>1. CASE CounterGiven(m, signals)
    <3>1. "COUNTER" \in DOMAIN Layout[m] /\ "COUNTER" \in Names(signals)
      BY <2>1, Zenon DEF CounterGiven, HasSignal
    <3>2. PICK i \in DOMAIN signals : signals[i].name = "COUNTER" /\ LastGiven(signals, "COUNTER") = signals[i].value
      BY <1>1, <3>1, GivenLast
    <3>3. signals[i].value \in Overrides
      BY <1>1, <3>1, <3>2, GivenAssumption, Zenon DEF HasSignal
    <3>. QED  BY <2>1, <3>2, <3>3, UserAssumption, Zenon DEF Asked
  <2>2. CASE ~CounterGiven(m, signals)
    BY <2>2, Zenon DEF Asked
  <2>. QED  BY <2>1, <2>2
<1>3. CounterMod[m] = 0 <=> ~HasSignal(m, "COUNTER")
  <2>1. HasSignal(m, "COUNTER") => CounterMod[m] # 0
    BY <1>1, CounterIs
  <2>2. ~HasSignal(m, "COUNTER") => CounterMod[m] = 0
    BY <1>1, Zenon DEF CounterMod
  <2>. QED  BY <2>1, <2>2
<1>4. Packer!CounterSet(m, ask) <=> CounterGiven(m, signals)
  BY <1>2, <1>3, Zenon DEF Packer!CounterSet, CounterGiven, Asked
<1>5. Packer!NextCounter(m) = NextCounter(m)
  BY Zenon DEF Packer!NextCounter, NextCounter
<1>6. Packer!CounterBits(m, ask) =
         IF HasSignal(m, "COUNTER") THEN Number(m, signals) % CounterMod[m] ELSE 0
  <2>1. (IF Packer!CounterSet(m, ask) THEN ask ELSE Packer!NextCounter(m)) = Number(m, signals)
    BY <1>4, <1>5, Zenon DEF Number, Asked
  <2>. QED  BY <1>3, <2>1, Zenon DEF Packer!CounterBits
<1>7. Packer!CounterAfter(m, ask) = CounterAfter(m, signals)
  BY <1>3, <1>4, <1>5, Zenon DEF Packer!CounterAfter, CounterAfter, Asked
<1>8. received' = [src |-> bus, address |-> m, fits |-> TRUE, checksum_ok |-> TRUE,
                   counter |-> Packer!CounterBits(m, ask), value |-> 0]
  BY <1>1, <1>6, ReceivedIs, Zenon DEF Pack
<1>9. counters' = [counters EXCEPT ![m] = Packer!CounterAfter(m, ask)]
  BY <1>7, Zenon DEF Pack
<1>10. Packer!MakeCanMsg(m, bus, 0, ask)
  BY <1>1, <1>8, <1>9, Zenon DEF Packer!MakeCanMsg, Packer!Pack
<1>11. 0 \in {0} /\ m \in Messages \cup {OtherAddress}
  BY <1>1
<1>. QED  BY <1>2, <1>10, <1>11, Zenon DEF Packer!PackerNext

LEMMA UndefinedImplements ==
    ASSUME PackUndefined
    PROVE  Packer!PackerNext
<1>1. PICK bus \in Buses : TRUE
  BY UserAssumption
<1>2. Packer!MakeCanMsg(OtherAddress, bus, 0, NoOverride)
  BY UserAssumption, Zenon DEF Packer!MakeCanMsg, Packer!PackUndefined, PackUndefined
<1>3. 0 \in {0} /\ OtherAddress \in Messages \cup {OtherAddress} /\ NoOverride \in Overrides \cup {NoOverride}
  OBVIOUS
<1>. QED  BY <1>1, <1>2, <1>3, Zenon DEF Packer!PackerNext

(***************************************************************************)
(* The bytes implement the abstract packer that the channel and the feed   *)
(* are built on: a call with a COUNTER among its signals is an override of *)
(* it, and what a parser finds in the bytes is the record it returns.      *)
(***************************************************************************)
THEOREM ImplementsPackerHolds ==
    ASSUME ChecksumsExcludeThemselves
    PROVE  PackSpec => ImplementsPacker
<1>1. PackInit => Packer!PackerInit
  BY DEF PackInit, Packer!PackerInit
<1>2. PackInv /\ [PackNext]_packVars => [Packer!PackerNext]_(Packer!packerVars)
  <2>. SUFFICES ASSUME PackInv, [PackNext]_packVars PROVE [Packer!PackerNext]_(Packer!packerVars)
    OBVIOUS
  <2>1. CASE UNCHANGED packVars
    BY <2>1, Zenon DEF packVars, Packer!packerVars
  <2>2. CASE PackUndefined
    BY <2>2, UndefinedImplements, Zenon
  <2>3. ASSUME NEW m \in sends, NEW bus \in Buses, NEW signals \in Given[m], Pack(m, bus, signals)
        PROVE  Packer!PackerNext
    BY <2>3, PackImplements
  <2>. QED  BY <2>1, <2>2, <2>3 DEF PackNext
<1>. QED  BY <1>1, <1>2, PackInvariant, PTL DEF PackSpec, ImplementsPacker, Packer!PackerSpec

-----------------------------------------------------------------------------
(***************************************************************************)
(* 6. Loops over items.                                                    *)
(***************************************************************************)
LoopRun(step, start, items, N, U) ==
    U = [n \in 0 .. N |-> IF n = 0 THEN start ELSE step[U[n - 1]][items[n]]]

LEMMA LoopRunExists ==
    ASSUME NEW step, NEW start, NEW items, NEW N \in Nat
    PROVE  \E U : LoopRun(step, start, items, N, U)
<1>. DEFINE S == {k \in 0 .. N : \E U : LoopRun(step, start, items, k, U)}
<1>1. 0 \in S
  <2>. DEFINE U == [n \in 0 .. 0 |-> start]
              W == [n \in 0 .. 0 |-> IF n = 0 THEN start ELSE step[U[n - 1]][items[n]]]
  <2>1. \A n \in 0 .. 0 : U[n] = W[n]
    OBVIOUS
  <2>2. U = W
    <3>1. U = [n \in 0 .. 0 |-> U[n]]
      OBVIOUS
    <3>2. W = [n \in 0 .. 0 |-> W[n]]
      <4>. HIDE DEF U
      <4>. QED  OBVIOUS
    <3>. HIDE DEF U, W
    <3>. QED  BY <2>1, <3>1, <3>2
  <2>3. LoopRun(step, start, items, 0, U)
    BY <2>2, Zenon DEF LoopRun
  <2>. QED  BY <2>3
<1>2. ASSUME NEW k \in 0 .. N - 1, k \in S
      PROVE  k + 1 \in S
  <2>1. PICK U : LoopRun(step, start, items, k, U)
    BY <1>2
  <2>. DEFINE V == [n \in 0 .. k + 1 |-> IF n = k + 1 THEN step[U[k]][items[k + 1]] ELSE U[n]]
              W == [n \in 0 .. k + 1 |-> IF n = 0 THEN start ELSE step[V[n - 1]][items[n]]]
  <2>2. \A n \in 0 .. k : U[n] = IF n = 0 THEN start ELSE step[U[n - 1]][items[n]]
    BY <2>1, Zenon DEF LoopRun
  <2>3. ASSUME NEW n \in 0 .. k + 1
        PROVE  V[n] = W[n]
    <3>1. V[n] = (IF n = k + 1 THEN step[U[k]][items[k + 1]] ELSE U[n])
      BY Zenon
    <3>2. W[n] = IF n = 0 THEN start ELSE step[V[n - 1]][items[n]]
      BY Zenon
    <3>3. n # 0 => n - 1 \in 0 .. k + 1 /\ n - 1 # k + 1
      OBVIOUS
    <3>4. n # 0 => V[n - 1] = U[n - 1]
      BY <3>3
    <3>5. (n # k + 1 => n \in 0 .. k) /\ (n = k + 1 => n # 0 /\ n - 1 = k)
      OBVIOUS
    <3>. HIDE DEF V, W
    <3>. QED  BY <2>2, <3>1, <3>2, <3>4, <3>5
  <2>4. V = W
    <3>1. V = [n \in 0 .. k + 1 |-> V[n]]
      OBVIOUS
    <3>2. W = [n \in 0 .. k + 1 |-> W[n]]
      <4>. HIDE DEF V
      <4>. QED  OBVIOUS
    <3>. HIDE DEF V, W
    <3>. QED  BY <2>3, <3>1, <3>2
  <2>5. LoopRun(step, start, items, k + 1, V)
    BY <2>4, Zenon DEF LoopRun
  <2>6. k + 1 \in 0 .. N
    OBVIOUS
  <2>. QED  BY <2>5, <2>6
<1>3. N \in S
  <2>. HIDE DEF S
  <2>. QED  BY <1>1, <1>2, UpTo
<1>. QED  BY <1>3

\* The loop goes from turn to turn.
LEMMA LoopRuns ==
    ASSUME NEW step, NEW start, NEW items, Len(items) \in Nat
    PROVE  \E U : /\ U[0] = start
                  /\ \A n \in 1 .. Len(items) : U[n] = step[U[n - 1]][items[n]]
                  /\ Loop(step, start, items) = U[Len(items)]
<1>. DEFINE U == CHOOSE V : V = [n \in 0 .. Len(items) |->
                     IF n = 0 THEN start ELSE step[V[n - 1]][items[n]]]
<1>1. \E V : V = [n \in 0 .. Len(items) |-> IF n = 0 THEN start ELSE step[V[n - 1]][items[n]]]
  <2>1. PICK V : LoopRun(step, start, items, Len(items), V)
    BY LoopRunExists
  <2>. QED  BY <2>1, Zenon DEF LoopRun
<1>2. U = [n \in 0 .. Len(items) |-> IF n = 0 THEN start ELSE step[U[n - 1]][items[n]]]
  BY <1>1, Zenon
<1>3. Loop(step, start, items) = U[Len(items)]
  BY Zenon DEF Loop
<1>. HIDE DEF U
<1>4. \A n \in 0 .. Len(items) : U[n] = IF n = 0 THEN start ELSE step[U[n - 1]][items[n]]
  BY <1>2, Zenon
<1>5. 0 \in 0 .. Len(items) /\ \A n \in 1 .. Len(items) : n \in 0 .. Len(items) /\ n # 0
  OBVIOUS
<1>6. \A n \in 1 .. Len(items) : U[n] = step[U[n - 1]][items[n]]
  BY <1>4, <1>5, Zenon
<1>7. U[0] = start
  BY <1>4, <1>5, Zenon
<1>. QED  BY <1>3, <1>6, <1>7, Zenon

\* What holds of the registers of two loops after each turn.
Kept(Rel, N, step, e, other, f) ==
    \A n \in 1 .. N : \A x, y :
        <<n - 1, x, y>> \in Rel => <<n, step[x][e[n]], other[y][f[n]]>> \in Rel

LEMMA LoopsRelate ==
    ASSUME NEW N \in Nat, NEW e, NEW f, Len(e) = N, Len(f) = N,
           NEW step, NEW other, NEW start, NEW begin, NEW Rel,
           <<0, start, begin>> \in Rel, Kept(Rel, N, step, e, other, f)
    PROVE  <<N, Loop(step, start, e), Loop(other, begin, f)>> \in Rel
<1>1. Len(e) \in Nat /\ Len(f) \in Nat
  OBVIOUS
<1>2. PICK U : /\ U[0] = start
               /\ \A n \in 1 .. Len(e) : U[n] = step[U[n - 1]][e[n]]
               /\ Loop(step, start, e) = U[Len(e)]
  BY <1>1, LoopRuns
<1>3. PICK V : /\ V[0] = begin
               /\ \A n \in 1 .. Len(f) : V[n] = other[V[n - 1]][f[n]]
               /\ Loop(other, begin, f) = V[Len(f)]
  BY <1>1, LoopRuns, SMTT(20)
<1>. DEFINE S == {n \in 0 .. N : <<n, U[n], V[n]>> \in Rel}
<1>4. 0 \in S
  BY <1>2, <1>3
<1>5. ASSUME NEW m \in 0 .. N - 1, m \in S
      PROVE  m + 1 \in S
  <2>1. PICK n : n = m + 1 /\ n \in 1 .. N /\ n \in 0 .. N /\ n - 1 = m
    OBVIOUS
  <2>2. <<n - 1, U[n - 1], V[n - 1]>> \in Rel
    BY <1>5, <2>1
  <2>3. <<n, step[U[n - 1]][e[n]], other[V[n - 1]][f[n]]>> \in Rel
    BY <2>1, <2>2, Zenon DEF Kept
  <2>4. <<n, U[n], V[n]>> \in Rel
    BY <1>2, <1>3, <2>1, <2>3, Zenon
  <2>. QED  BY <2>1, <2>4
<1>6. \A m \in 0 .. N : m \in S
  <2>. HIDE DEF S
  <2>1. \A m \in 0 .. N - 1 : m \in S => m + 1 \in S
    BY <1>5
  <2>. QED  BY <1>4, <2>1, UpTo, Zenon
<1>7. N \in S
  <2>. HIDE DEF S
  <2>. QED  BY <1>6
<1>. QED  BY <1>2, <1>3, <1>7

\* What holds of the register of one loop.
LEMMA LoopKeeps ==
    ASSUME NEW N \in Nat, NEW e, Len(e) = N, NEW step, NEW start, NEW Inv, <<0, start>> \in Inv,
           \A n \in 1 .. N : \A x : <<n - 1, x>> \in Inv => <<n, step[x][e[n]]>> \in Inv
    PROVE  <<N, Loop(step, start, e)>> \in Inv
<1>1. PICK U : /\ U[0] = start
               /\ \A n \in 1 .. Len(e) : U[n] = step[U[n - 1]][e[n]]
               /\ Loop(step, start, e) = U[Len(e)]
  <2>1. Len(e) \in Nat
    OBVIOUS
  <2>. QED  BY <2>1, LoopRuns
<1>. DEFINE S == {n \in 0 .. N : <<n, U[n]>> \in Inv}
<1>2. 0 \in S
  BY <1>1
<1>3. ASSUME NEW m \in 0 .. N - 1, m \in S
      PROVE  m + 1 \in S
  <2>1. PICK n : n = m + 1 /\ n \in 1 .. N /\ n \in 0 .. N /\ n - 1 = m
    OBVIOUS
  <2>2. <<n - 1, U[n - 1]>> \in Inv
    BY <1>3, <2>1
  <2>3. <<n, step[U[n - 1]][e[n]]>> \in Inv
    BY <2>1, <2>2, Zenon
  <2>4. <<n, U[n]>> \in Inv
    BY <1>1, <2>1, <2>3, Zenon
  <2>. QED  BY <2>1, <2>4
<1>4. \A m \in 0 .. N : m \in S
  <2>. HIDE DEF S
  <2>1. \A m \in 0 .. N - 1 : m \in S => m + 1 \in S
    BY <1>3
  <2>. QED  BY <1>2, <2>1, UpTo, Zenon
<1>5. N \in S
  <2>. HIDE DEF S
  <2>. QED  BY <1>4
<1>. QED  BY <1>1, <1>5

\* The register stays in its range.
LEMMA LoopType ==
    ASSUME NEW N \in Nat, NEW e, Len(e) = N, NEW step, NEW start, NEW R, start \in R,
           \A n \in 1 .. N : \A x \in R : step[x][e[n]] \in R
    PROVE  Loop(step, start, e) \in R
<1>. DEFINE Inv == {t \in (0 .. N) \X R : TRUE}
<1>1. <<0, start>> \in Inv
  OBVIOUS
<1>2. ASSUME NEW n \in 1 .. N, NEW x, <<n - 1, x>> \in Inv
      PROVE  <<n, step[x][e[n]]>> \in Inv
  <2>1. x \in R /\ n \in 0 .. N
    BY <1>2
  <2>. QED  BY <2>1
<1>3. <<N, Loop(step, start, e)>> \in Inv
  <2>. HIDE DEF Inv
  <2>. QED  BY <1>1, <1>2, LoopKeeps, Zenon
<1>. QED  BY <1>3

\* Steps that agree on the items of two loops make the same of them.
Agree(N, step, e, other, f, R) ==
    \A n \in 1 .. N : \A x \in R : step[x][e[n]] \in R /\ other[x][f[n]] = step[x][e[n]]

LEMMA LoopsAgree ==
    ASSUME NEW N \in Nat, NEW e, NEW f, Len(e) = N, Len(f) = N, NEW step, NEW other,
           NEW R, NEW start \in R, Agree(N, step, e, other, f, R)
    PROVE  Loop(other, start, f) = Loop(step, start, e) /\ Loop(step, start, e) \in R
<1>. DEFINE Rel == {t \in (0 .. N) \X R \X R : t[2] = t[3]}
<1>1. <<0, start, start>> \in Rel
  OBVIOUS
<1>2. ASSUME NEW n \in 1 .. N, NEW x, NEW y, <<n - 1, x, y>> \in Rel
      PROVE  <<n, step[x][e[n]], other[y][f[n]]>> \in Rel
  <2>1. x \in R /\ y = x /\ n \in 0 .. N
    BY <1>2
  <2>2. step[x][e[n]] \in R /\ other[y][f[n]] = step[x][e[n]]
    BY <2>1, Zenon DEF Agree
  <2>. QED  BY <2>1, <2>2
<1>3. Kept(Rel, N, step, e, other, f)
  <2>. HIDE DEF Rel
  <2>. QED  BY <1>2, Zenon DEF Kept
<1>4. <<N, Loop(step, start, e), Loop(other, start, f)>> \in Rel
  <2>. HIDE DEF Rel
  <2>. QED  BY <1>1, <1>3, LoopsRelate, Zenon
<1>. QED  BY <1>4

\* A step that loses nothing of its register: two loops with different starts
\* end differently.  If it loses nothing of its item either, so do two with
\* different items at one turn.
KeepsRegister(step, R, B) ==
    /\ \A x \in R, b \in B : step[x][b] \in R
    /\ \A x \in R, y \in R, b \in B : step[x][b] = step[y][b] => x = y

KeepsItem(step, R, B) == \A x \in R, b \in B, c \in B : step[x][b] = step[x][c] => b = c

Lossless(step, R, B) == KeepsRegister(step, R, B) /\ KeepsItem(step, R, B)

LEMMA StartsDiffer ==
    ASSUME NEW N \in Nat, NEW e, Len(e) = N, NEW step, NEW R, NEW B, KeepsRegister(step, R, B),
           \A n \in 1 .. N : e[n] \in B, NEW x \in R, NEW y \in R, x # y
    PROVE  Loop(step, x, e) # Loop(step, y, e)
<1>. DEFINE Rel == {t \in (0 .. N) \X R \X R : t[2] # t[3]}
<1>1. <<0, x, y>> \in Rel
  OBVIOUS
<1>2. ASSUME NEW n \in 1 .. N, NEW u, NEW v, <<n - 1, u, v>> \in Rel
      PROVE  <<n, step[u][e[n]], step[v][e[n]]>> \in Rel
  <2>1. u \in R /\ v \in R /\ u # v /\ n \in 0 .. N /\ e[n] \in B
    BY <1>2
  <2>2. step[u][e[n]] \in R /\ step[v][e[n]] \in R /\ step[u][e[n]] # step[v][e[n]]
    BY <2>1, Zenon DEF KeepsRegister
  <2>. QED  BY <2>1, <2>2
<1>3. Kept(Rel, N, step, e, step, e)
  <2>. HIDE DEF Rel
  <2>. QED  BY <1>2, Zenon DEF Kept
<1>4. <<N, Loop(step, x, e), Loop(step, y, e)>> \in Rel
  <2>. HIDE DEF Rel
  <2>. QED  BY <1>1, <1>3, LoopsRelate, Zenon
<1>. QED  BY <1>4

LEMMA ItemsDiffer ==
    ASSUME NEW N \in Nat, NEW e, NEW f, Len(e) = N, Len(f) = N, NEW step, NEW R, NEW B,
           Lossless(step, R, B), \A n \in 1 .. N : e[n] \in B /\ f[n] \in B, NEW start \in R,
           NEW i \in 1 .. N, e[i] # f[i], \A n \in 1 .. N : n # i => e[n] = f[n]
    PROVE  Loop(step, start, e) # Loop(step, start, f)
<1>. DEFINE Rel == {t \in (0 .. N) \X R \X R : t[2] = t[3] <=> t[1] < i}
<1>1. <<0, start, start>> \in Rel
  OBVIOUS
<1>2. ASSUME NEW n \in 1 .. N, NEW u, NEW v, <<n - 1, u, v>> \in Rel
      PROVE  <<n, step[u][e[n]], step[v][f[n]]>> \in Rel
  <2>1. /\ u \in R /\ v \in R /\ (u = v <=> n - 1 < i) /\ n \in 0 .. N
        /\ e[n] \in B /\ f[n] \in B
    BY <1>2
  <2>2. step[u][e[n]] \in R /\ step[v][f[n]] \in R
    BY <2>1, Zenon DEF Lossless, KeepsRegister, KeepsItem
  <2>3. CASE n < i
    <3>1. n # i /\ n - 1 < i
      BY <2>3
    <3>2. e[n] = f[n] /\ u = v
      BY <2>1, <3>1
    <3>. QED  BY <2>1, <2>2, <2>3, <3>2
  <2>4. CASE n = i
    <3>1. n - 1 < i /\ ~(n < i)
      BY <2>4
    <3>2. u = v /\ e[n] # f[n]
      BY <2>1, <2>4, <3>1
    <3>3. step[u][e[n]] # step[u][f[n]]
      <4>1. \A b \in B, c \in B : step[u][b] = step[u][c] => b = c
        BY <2>1, Zenon DEF Lossless, KeepsRegister, KeepsItem
      <4>. QED  BY <2>1, <3>2, <4>1, Zenon
    <3>. QED  BY <2>1, <2>2, <3>1, <3>2, <3>3
  <2>5. CASE n > i
    <3>1. n # i /\ ~(n - 1 < i) /\ ~(n < i)
      BY <2>5
    <3>2. u # v /\ e[n] = f[n]
      BY <2>1, <3>1
    <3>3. step[u][e[n]] # step[v][e[n]]
      <4>1. \A b \in B : step[u][b] = step[v][b] => u = v
        BY <2>1, Zenon DEF Lossless, KeepsRegister, KeepsItem
      <4>. QED  BY <2>1, <3>2, <4>1, Zenon
    <3>. QED  BY <2>1, <2>2, <3>1, <3>2, <3>3
  <2>. QED  BY <2>3, <2>4, <2>5
<1>3. Kept(Rel, N, step, e, step, f)
  <2>. HIDE DEF Rel
  <2>. QED  BY <1>2, Zenon DEF Kept
<1>4. <<N, Loop(step, start, e), Loop(step, start, f)>> \in Rel
  <2>. HIDE DEF Rel
  <2>. QED  BY <1>1, <1>3, LoopsRelate, Zenon
<1>. QED  BY <1>4

-----------------------------------------------------------------------------
(***************************************************************************)
(* 7. Exclusive or, by its bits.                                           *)
(***************************************************************************)
IsWidth(w) == w = 8 \/ w = 16

\* Numbers of w bits.
Word(w) == 0 .. Pow2[w] - 1

LEMMA EightIs ==
    /\ EightTurns \in Seq(Nat) /\ Len(EightTurns) = 8
    /\ \A n \in 1 .. 8 : EightTurns[n] = n - 1
<1>1. \A n \in 1 .. 8 : n - 1 \in Nat
  OBVIOUS
<1>. QED  BY <1>1 DEF EightTurns

LEMMA PowWord == Pow2[8] = 256 /\ Pow2[16] = 65536
<1>1. Pow2[8 + 8] = Pow2[8] * Pow2[8]
  BY PowAdd
<1>. QED  BY <1>1, PowByte

LEMMA WordIs ==
    /\ \A x : x \in Word(8) <=> x \in Int /\ 0 <= x /\ x <= 255
    /\ \A x : x \in Word(16) <=> x \in Int /\ 0 <= x /\ x <= 65535
    /\ \A x : x \in Word(8) => x \in Word(16)
<1>1. \A x : x \in Word(8) <=> x \in Int /\ 0 <= x /\ x <= 255
  BY PowWord DEF Word
<1>2. \A x : x \in Word(16) <=> x \in Int /\ 0 <= x /\ x <= 65535
  <2>1. PICK n : n = Pow2[16] - 1
    OBVIOUS
  <2>2. n = 65535
    BY <2>1, PowWord
  <2>3. n \in Int
    BY <2>2
  <2>4. Word(16) = 0 .. n
    BY <2>1, Zenon DEF Word
  <2>5. \A x : x \in Word(16) <=> x \in Int /\ 0 <= x /\ x <= n
    BY <2>3, <2>4
  <2>. QED  BY <2>2, <2>5
<1>. QED  BY <1>1, <1>2

LEMMA ByteIsWord == Word(8) = 0 .. 255
<1>1. Pow2[8] - 1 = 255
  BY PowWord
<1>. QED  BY <1>1, Zenon DEF Word

LEMMA WordInt == ASSUME NEW w, IsWidth(w), NEW x \in Word(w) PROVE x \in Int /\ x \in Nat /\ x \in Word(16)
BY WordIs DEF IsWidth

\* A word of two bytes.
LEMMA Halves ==
    ASSUME NEW x \in Word(16)
    PROVE  /\ x \div 256 \in Word(8) /\ x % 256 \in Word(8) /\ x = 256 * (x \div 256) + (x % 256)
           /\ x \in Word(8) => x \div 256 = 0
<1>1. x \in Int /\ 0 <= x /\ x <= 65535
  BY WordIs
<1>2. x \div 256 \in Int /\ 0 <= x \div 256 /\ x \div 256 <= 255
  BY <1>1
<1>3. x % 256 \in Int /\ 0 <= x % 256 /\ x % 256 <= 255
  BY <1>1
<1>4. x = 256 * (x \div 256) + (x % 256)
  BY <1>1
<1>5. x <= 255 => x \div 256 = 0
  BY <1>1
<1>. QED  BY <1>1, <1>2, <1>3, <1>4, <1>5, WordIs

XorStep(x, y) ==
    [sum \in Nat |-> [k \in Nat |-> sum + Pow2[k] * ((Bit(x, k) + Bit(y, k)) % 2)]]

LEMMA XorByteBits ==
    ASSUME NEW x \in Word(8), NEW y \in Word(8)
    PROVE  /\ XorByte[x][y] \in Word(8)
           /\ \A k \in 0 .. 7 : Bit(XorByte[x][y], k) = (Bit(x, k) + Bit(y, k)) % 2
<1>. DEFINE Inv == {t \in (0 .. 8) \X Nat :
                       /\ t[2] \in Word(t[1])
                       /\ \A k \in 0 .. t[1] - 1 : Bit(t[2], k) = (Bit(x, k) + Bit(y, k)) % 2}
            z   == Loop(XorStep(x, y), 0, EightTurns)
<1>0. x \in Int /\ y \in Int
  BY WordIs
<1>1. <<0, 0>> \in Inv
  BY PowNext DEF Word
<1>2. ASSUME NEW n \in 1 .. 8, NEW s, <<n - 1, s>> \in Inv
      PROVE  <<n, XorStep(x, y)[s][EightTurns[n]]>> \in Inv
  <2>1. PICK j \in 0 .. 7 : j = n - 1 /\ n = j + 1
    OBVIOUS
  <2>2. /\ s \in Nat /\ s \in 0 .. Pow2[j] - 1
        /\ \A k \in 0 .. j - 1 : Bit(s, k) = (Bit(x, k) + Bit(y, k)) % 2
    BY <1>2, <2>1 DEF Word
  <2>3. PICK b \in 0 .. 1 : b = (Bit(x, j) + Bit(y, j)) % 2
    <3>1. Bit(x, j) \in 0 .. 1 /\ Bit(y, j) \in 0 .. 1
      BY <1>0, BitType
    <3>. QED  BY <3>1
  <2>4. XorStep(x, y)[s][EightTurns[n]] = s + Pow2[j] * b
    <3>1. EightTurns[n] = j
      BY <2>1, EightIs
    <3>2. XorStep(x, y)[s][j] = s + Pow2[j] * ((Bit(x, j) + Bit(y, j)) % 2)
      BY <2>2 DEF XorStep
    <3>. QED  BY <2>3, <3>1, <3>2
  <2>5. PICK P \in Nat \ {0} : P = Pow2[j] /\ Pow2[n] = 2 * P
    BY <2>1, PowNat, PowNext
  <2>6. s + P * b \in 0 .. 2 * P - 1 /\ P * b + s = s + P * b /\ s + P * b \in Nat
    <3>1. b = 0 \/ b = 1
      OBVIOUS
    <3>. QED  BY <2>2, <2>5, <3>1
  <2>7. ASSUME NEW k \in 0 .. n - 1
        PROVE  Bit(s + P * b, k) = (Bit(x, k) + Bit(y, k)) % 2
    <3>1. Bit(P * b + s, k) = IF k < j THEN Bit(s, k) ELSE Bit(b, k - j)
      <4>1. b \in Int /\ j \in Nat /\ k \in Nat
        BY <2>1
      <4>2. Bit(Pow2[j] * b + s, k) = IF k < j THEN Bit(s, k) ELSE Bit(b, k - j)
        BY <2>2, <4>1, BitJoin
      <4>. QED  BY <2>5, <4>2, Zenon
    <3>2. CASE k < j
      BY <2>2, <2>6, <3>1, <3>2
    <3>3. CASE ~(k < j)
      <4>1. k = j /\ k - j = 0
        BY <2>1, <3>3
      <4>2. Bit(b, 0) = b
        BY PowNext DEF Bit
      <4>. QED  BY <2>3, <2>6, <3>1, <3>3, <4>1, <4>2
    <3>. QED  BY <3>2, <3>3
  <2>8. PICK v : v = s + P * b
    OBVIOUS
  <2>9. v \in Nat /\ v \in Word(n) /\ \A k \in 0 .. n - 1 : Bit(v, k) = (Bit(x, k) + Bit(y, k)) % 2
    BY <2>5, <2>6, <2>7, <2>8 DEF Word
  <2>10. <<n, v>> \in Inv
    BY <2>9
  <2>. QED  BY <2>4, <2>5, <2>8, <2>10
<1>3. <<8, z>> \in Inv
  <2>1. 8 \in Nat /\ Len(EightTurns) = 8
    BY EightIs
  <2>. HIDE DEF Inv
  <2>. QED  BY <1>1, <1>2, <2>1, LoopKeeps, Zenon
<1>4. XorByte[x][y] = z
  <2>1. x \in 0 .. 255 /\ y \in 0 .. 255
    BY ByteIsWord, Zenon
  <2>. QED  BY <2>1, Zenon DEF XorByte, XorStep
<1>5. z \in Word(8) /\ \A k \in 0 .. 7 : Bit(z, k) = (Bit(x, k) + Bit(y, k)) % 2
  <2>. HIDE DEF z
  <2>. QED  BY <1>3
<1>. QED  BY <1>4, <1>5

LEMMA XorZero == XorByte[0][0] = 0
<1>1. 0 \in Word(8)
  BY WordIs
<1>2. PICK z \in Word(8) : z = XorByte[0][0] /\ \A k \in 0 .. 7 : Bit(z, k) = (Bit(0, k) + Bit(0, k)) % 2
  BY <1>1, XorByteBits
<1>3. PICK n \in Nat : n = 8
  OBVIOUS
<1>4. \A k \in 0 .. n - 1 : Bit(z, k) = Bit(0, k)
  <2>1. \A k \in 0 .. 7 : Bit(0, k) = 0
    BY ZeroBits
  <2>. QED  BY <1>2, <1>3, <2>1
<1>5. z \in 0 .. Pow2[n] - 1 /\ 0 \in 0 .. Pow2[n] - 1
  BY <1>1, <1>2, <1>3, Zenon DEF Word
<1>6. z = 0
  BY <1>4, <1>5, BitsEqual
<1>. QED  BY <1>2, <1>6

\* The bits of a word of two bytes.
LEMMA HalfBits ==
    ASSUME NEW h \in Word(8), NEW l \in Word(8), NEW k \in 0 .. 15
    PROVE  Bit(256 * h + l, k) = IF k < 8 THEN Bit(l, k) ELSE Bit(h, k - 8)
<1>1. PICK n \in Nat : n = 8 /\ Pow2[n] = 256
  BY PowWord
<1>2. h \in Int /\ l \in 0 .. Pow2[n] - 1 /\ k \in Nat
  <2>1. l \in Word(n)
    BY <1>1
  <2>. QED  BY <2>1, WordIs DEF Word
<1>3. Bit(Pow2[n] * h + l, k) = IF k < n THEN Bit(l, k) ELSE Bit(h, k - n)
  BY <1>2, BitJoin
<1>. QED  BY <1>1, <1>3, Zenon

LEMMA XorBits ==
    ASSUME NEW w, IsWidth(w), NEW x \in Word(w), NEW y \in Word(w)
    PROVE  /\ Xor(x, y) \in Word(w)
           /\ \A k \in 0 .. w - 1 : Bit(Xor(x, y), k) = (Bit(x, k) + Bit(y, k)) % 2
<1>1. x \in Word(16) /\ y \in Word(16)
  BY WordInt
<1>2. PICK h \in Word(8), l \in Word(8) :
         h = x \div 256 /\ l = x % 256 /\ x = 256 * h + l /\ (x \in Word(8) => h = 0)
  BY <1>1, Halves
<1>3. PICK g \in Word(8), m \in Word(8) :
         g = y \div 256 /\ m = y % 256 /\ y = 256 * g + m /\ (y \in Word(8) => g = 0)
  BY <1>1, Halves
<1>4. PICK p \in Word(8) : p = XorByte[h][g] /\ \A k \in 0 .. 7 : Bit(p, k) = (Bit(h, k) + Bit(g, k)) % 2
  BY XorByteBits
<1>5. PICK q \in Word(8) : q = XorByte[l][m] /\ \A k \in 0 .. 7 : Bit(q, k) = (Bit(l, k) + Bit(m, k)) % 2
  BY XorByteBits
<1>6. Xor(x, y) = 256 * p + q
  BY <1>2, <1>3, <1>4, <1>5, ZenonT(40) DEF Xor
<1>7. ASSUME NEW k \in 0 .. 15
      PROVE  Bit(256 * p + q, k) = (Bit(256 * h + l, k) + Bit(256 * g + m, k)) % 2
  <2>1. /\ Bit(256 * p + q, k) = IF k < 8 THEN Bit(q, k) ELSE Bit(p, k - 8)
        /\ Bit(256 * h + l, k) = IF k < 8 THEN Bit(l, k) ELSE Bit(h, k - 8)
        /\ Bit(256 * g + m, k) = IF k < 8 THEN Bit(m, k) ELSE Bit(g, k - 8)
    BY HalfBits
  <2>2. CASE k < 8
    <3>1. k \in 0 .. 7
      BY <2>2
    <3>. QED  BY <1>5, <2>1, <2>2, <3>1, ZenonT(40)
  <2>3. CASE ~(k < 8)
    <3>1. k - 8 \in 0 .. 7
      BY <2>3
    <3>. QED  BY <1>4, <2>1, <2>3, <3>1, ZenonT(40)
  <2>. QED  BY <2>2, <2>3
<1>8. \A k \in 0 .. w - 1 : k \in 0 .. 15
  BY DEF IsWidth
<1>9. ASSUME NEW k \in 0 .. w - 1
      PROVE  Bit(Xor(x, y), k) = (Bit(x, k) + Bit(y, k)) % 2
  <2>1. Bit(256 * p + q, k) = (Bit(256 * h + l, k) + Bit(256 * g + m, k)) % 2
    BY <1>7, <1>8, ZenonT(40)
  <2>2. Bit(256 * h + l, k) = Bit(x, k) /\ Bit(256 * g + m, k) = Bit(y, k)
    BY <1>2, <1>3, ZenonT(40)
  <2>. QED  BY <1>6, <2>1, <2>2, Zenon
<1>10. Xor(x, y) \in Word(w)
  <2>1. p \in Int /\ 0 <= p /\ p <= 255 /\ q \in Int /\ 0 <= q /\ q <= 255
    BY WordIs
  <2>2. CASE w = 16
    <3>1. 256 * p + q \in Int /\ 0 <= 256 * p + q /\ 256 * p + q <= 65535
      BY <2>1
    <3>. QED  BY <1>6, <2>2, <3>1, WordIs
  <2>3. CASE w = 8
    <3>1. h = 0 /\ g = 0
      BY <1>2, <1>3, <2>3
    <3>2. p = 0
      BY <1>4, <3>1, XorZero
    <3>3. 256 * p + q = q
      BY <2>1, <3>2
    <3>. QED  BY <1>6, <2>3, <3>3
  <2>. QED  BY <2>2, <2>3 DEF IsWidth
<1>. QED  BY <1>9, <1>10

LEMMA WordBit ==
    ASSUME NEW w, IsWidth(w), NEW x \in Word(w), NEW k \in 0 .. w - 1
    PROVE  Bit(x, k) \in 0 .. 1
<1>1. x \in Int /\ k \in Nat
  BY WordInt DEF IsWidth
<1>. QED  BY <1>1, BitType

LEMMA WordsEqual ==
    ASSUME NEW w, IsWidth(w), NEW x \in Word(w), NEW y \in Word(w),
           \A k \in 0 .. w - 1 : Bit(x, k) = Bit(y, k)
    PROVE  x = y
<1>1. w \in Nat
  BY DEF IsWidth
<1>2. x \in 0 .. Pow2[w] - 1 /\ y \in 0 .. Pow2[w] - 1
  BY Zenon DEF Word
<1>. QED  BY <1>1, <1>2, BitsEqual

LEMMA ZeroWord ==
    ASSUME NEW w, IsWidth(w)
    PROVE  0 \in Word(w) /\ \A k \in 0 .. w - 1 : Bit(0, k) = 0
<1>1. \A k \in 0 .. w - 1 : k \in Nat
  BY DEF IsWidth
<1>2. 0 \in Word(w)
  BY WordIs DEF IsWidth
<1>. QED  BY <1>1, <1>2, ZeroBits

LEMMA XorNone == ASSUME NEW w, IsWidth(w), NEW x \in Word(w) PROVE Xor(x, 0) = x /\ Xor(0, x) = x
<1>1. \A k \in 0 .. w - 1 : Bit(x, k) \in 0 .. 1 /\ Bit(0, k) = 0
  BY WordBit, ZeroWord
<1>2. /\ Xor(x, 0) \in Word(w) /\ \A k \in 0 .. w - 1 : Bit(Xor(x, 0), k) = (Bit(x, k) + Bit(0, k)) % 2
      /\ Xor(0, x) \in Word(w) /\ \A k \in 0 .. w - 1 : Bit(Xor(0, x), k) = (Bit(0, k) + Bit(x, k)) % 2
  BY XorBits, ZeroWord
<1>3. \A k \in 0 .. w - 1 : Bit(Xor(x, 0), k) = Bit(x, k) /\ Bit(Xor(0, x), k) = Bit(x, k)
  BY <1>1, <1>2
<1>. QED  BY <1>2, <1>3, WordsEqual

LEMMA XorSelf == ASSUME NEW w, IsWidth(w), NEW x \in Word(w) PROVE Xor(x, x) = 0
<1>1. \A k \in 0 .. w - 1 : Bit(x, k) \in 0 .. 1 /\ Bit(0, k) = 0
  BY WordBit, ZeroWord
<1>2. Xor(x, x) \in Word(w) /\ \A k \in 0 .. w - 1 : Bit(Xor(x, x), k) = (Bit(x, k) + Bit(x, k)) % 2
  BY XorBits
<1>3. \A k \in 0 .. w - 1 : Bit(Xor(x, x), k) = Bit(0, k)
  BY <1>1, <1>2
<1>. QED  BY <1>2, <1>3, WordsEqual, ZeroWord

LEMMA XorSwap ==
    ASSUME NEW w, IsWidth(w), NEW x \in Word(w), NEW y \in Word(w) PROVE Xor(x, y) = Xor(y, x)
<1>1. \A k \in 0 .. w - 1 : Bit(x, k) \in 0 .. 1 /\ Bit(y, k) \in 0 .. 1
  BY WordBit
<1>2. /\ Xor(x, y) \in Word(w) /\ \A k \in 0 .. w - 1 : Bit(Xor(x, y), k) = (Bit(x, k) + Bit(y, k)) % 2
      /\ Xor(y, x) \in Word(w) /\ \A k \in 0 .. w - 1 : Bit(Xor(y, x), k) = (Bit(y, k) + Bit(x, k)) % 2
  BY XorBits
<1>3. \A k \in 0 .. w - 1 : Bit(Xor(x, y), k) = Bit(Xor(y, x), k)
  BY <1>1, <1>2
<1>. QED  BY <1>2, <1>3, WordsEqual

LEMMA XorJoin ==
    ASSUME NEW w, IsWidth(w), NEW x \in Word(w), NEW y \in Word(w), NEW z \in Word(w)
    PROVE  Xor(Xor(x, y), z) = Xor(x, Xor(y, z))
<1>1. PICK a \in Word(w) : a = Xor(x, y) /\ \A k \in 0 .. w - 1 : Bit(a, k) = (Bit(x, k) + Bit(y, k)) % 2
  BY XorBits
<1>2. PICK b \in Word(w) : b = Xor(y, z) /\ \A k \in 0 .. w - 1 : Bit(b, k) = (Bit(y, k) + Bit(z, k)) % 2
  BY XorBits
<1>3. PICK c \in Word(w) : c = Xor(a, z) /\ \A k \in 0 .. w - 1 : Bit(c, k) = (Bit(a, k) + Bit(z, k)) % 2
  BY XorBits
<1>4. PICK d \in Word(w) : d = Xor(x, b) /\ \A k \in 0 .. w - 1 : Bit(d, k) = (Bit(x, k) + Bit(b, k)) % 2
  BY XorBits
<1>5. ASSUME NEW k \in 0 .. w - 1
      PROVE  Bit(c, k) = Bit(d, k)
  <2>1. Bit(x, k) \in 0 .. 1 /\ Bit(y, k) \in 0 .. 1 /\ Bit(z, k) \in 0 .. 1
    BY WordBit
  <2>2. /\ Bit(a, k) = (Bit(x, k) + Bit(y, k)) % 2 /\ Bit(b, k) = (Bit(y, k) + Bit(z, k)) % 2
        /\ Bit(c, k) = (Bit(a, k) + Bit(z, k)) % 2 /\ Bit(d, k) = (Bit(x, k) + Bit(b, k)) % 2
    BY <1>1, <1>2, <1>3, <1>4
  <2>. QED  BY <2>1, <2>2
<1>6. c = d
  BY <1>5, WordsEqual
<1>. QED  BY <1>1, <1>2, <1>3, <1>4, <1>6, Zenon

LEMMA XorType == ASSUME NEW w, IsWidth(w), NEW x \in Word(w), NEW y \in Word(w) PROVE Xor(x, y) \in Word(w)
BY XorBits

\* Exclusive or loses nothing.
LEMMA XorKeeps ==
    ASSUME NEW w, IsWidth(w), NEW x \in Word(w), NEW y \in Word(w), NEW z \in Word(w)
    PROVE  /\ Xor(x, y) = Xor(x, z) => y = z
           /\ Xor(x, z) = Xor(y, z) => x = y
<1>1. Xor(Xor(x, x), y) = Xor(x, Xor(x, y)) /\ Xor(Xor(x, x), z) = Xor(x, Xor(x, z))
  BY XorJoin
<1>2. Xor(x, x) = 0 /\ Xor(0, y) = y /\ Xor(0, z) = z
  BY XorSelf, XorNone
<1>3. Xor(Xor(x, z), z) = Xor(x, Xor(z, z)) /\ Xor(Xor(y, z), z) = Xor(y, Xor(z, z))
  BY XorJoin
<1>4. Xor(z, z) = 0 /\ Xor(x, 0) = x /\ Xor(y, 0) = y
  BY XorSelf, XorNone
<1>5. Xor(x, y) = Xor(x, z) => y = z
  BY <1>1, <1>2, Zenon
<1>6. Xor(x, z) = Xor(y, z) => x = y
  BY <1>3, <1>4, Zenon
<1>. QED  BY <1>5, <1>6

LEMMA XorFour ==
    ASSUME NEW w, IsWidth(w), NEW a \in Word(w), NEW b \in Word(w), NEW c \in Word(w), NEW d \in Word(w)
    PROVE  Xor(Xor(a, b), Xor(c, d)) = Xor(Xor(a, c), Xor(b, d))
<1>1. Xor(c, d) \in Word(w) /\ Xor(b, d) \in Word(w) /\ Xor(b, c) \in Word(w)
  BY XorType
<1>2. Xor(Xor(a, b), Xor(c, d)) = Xor(a, Xor(b, Xor(c, d)))
  BY <1>1, XorJoin
<1>3. Xor(Xor(a, c), Xor(b, d)) = Xor(a, Xor(c, Xor(b, d)))
  BY <1>1, XorJoin
<1>4. Xor(b, Xor(c, d)) = Xor(Xor(b, c), d) /\ Xor(c, Xor(b, d)) = Xor(Xor(c, b), d) /\ Xor(b, c) = Xor(c, b)
  BY XorJoin, XorSwap
<1>. QED  BY <1>2, <1>3, <1>4, Zenon

-----------------------------------------------------------------------------
(***************************************************************************)
(* 8. The shift register of a CRC, by its bits.                            *)
(***************************************************************************)
TopBit(w) == Pow2[w - 1]

\* Bit k of x << 1.
Shl(x, k) == IF k = 0 THEN 0 ELSE Bit(x, k - 1)

LEMMA TopIs == ASSUME NEW w, IsWidth(w) PROVE TopBit(w) \in Nat \ {0} /\ 2 * TopBit(w) = Pow2[w]
<1>1. w - 1 \in Nat /\ w - 1 + 1 = w
  BY DEF IsWidth
<1>. QED  BY <1>1, PowNat, PowNext DEF TopBit

LEMMA DoubledBits ==
    ASSUME NEW w, IsWidth(w), NEW x \in Word(w)
    PROVE  /\ (2 * x) % (2 * TopBit(w)) \in Word(w)
           /\ \A k \in 0 .. w - 1 : Bit((2 * x) % (2 * TopBit(w)), k) = Shl(x, k)
<1>1. x \in Int /\ w \in Nat /\ 2 * x \in Int /\ Pow2[w] \in Nat /\ Pow2[w] > 0
  BY WordInt, PowNat DEF IsWidth
<1>2. (2 * x) % Pow2[w] \in Word(w)
  BY <1>1, DivType, Zenon DEF Word
<1>3. ASSUME NEW k \in 0 .. w - 1
      PROVE  Bit((2 * x) % Pow2[w], k) = Shl(x, k)
  <2>1. Bit((2 * x) % Pow2[w], k) = Bit(2 * x, k)
    BY <1>1, BitLow
  <2>2. PICK n \in Nat : n = 1 /\ Pow2[n] = 2
    <3>1. Pow2[0 + 1] = 2 * Pow2[0] /\ Pow2[0] = 1
      BY PowNext
    <3>. QED  BY <3>1
  <2>3. Bit(Pow2[n] * x + 0, k) = IF k < n THEN Bit(0, k) ELSE Bit(x, k - n)
    <3>1. 0 \in 0 .. Pow2[n] - 1 /\ k \in Nat
      BY <2>2
    <3>. QED  BY <1>1, <3>1, BitJoin
  <2>4. Pow2[n] * x + 0 = 2 * x
    BY <1>1, <2>2
  <2>5. Bit(0, k) = 0
    BY ZeroBits
  <2>. QED  BY <2>1, <2>2, <2>3, <2>4, <2>5 DEF Shl
<1>. QED  BY <1>2, <1>3, TopIs, Zenon

\* The bit that leaves the register, and meets bit c.
Out(w, x, c) == (Bit(x, w - 1) + c) % 2

\* One turn of the register x, which is fed bit c, gives z.
Turned(w, poly, x, c, z) ==
    /\ z \in Word(w)
    /\ \A k \in 0 .. w - 1 : Bit(z, k) = (Shl(x, k) + Out(w, x, c) * Bit(poly, k)) % 2

LEMMA FedBits ==
    ASSUME NEW w, IsWidth(w), NEW poly \in Word(w), NEW x \in Word(w), NEW c \in 0 .. 1
    PROVE  Turned(w, poly, x, c, Fed(x, c, poly, TopBit(w)))
<1>1. PICK y \in Word(w) : y = (2 * x) % (2 * TopBit(w)) /\ \A k \in 0 .. w - 1 : Bit(y, k) = Shl(x, k)
  BY DoubledBits
<1>2. w - 1 \in 0 .. w - 1
  BY DEF IsWidth
<1>3. Bit(x, w - 1) \in 0 .. 1
  BY <1>2, WordBit
<1>4. Bit(x, w - 1) = x \div TopBit(w)
  <2>1. x \in Int /\ w - 1 \in Nat
    BY WordInt DEF IsWidth
  <2>2. PICK t \in Nat \ {0} : t = TopBit(w) /\ 2 * t = Pow2[w]
    BY TopIs
  <2>3. 0 <= x /\ x < 2 * t
    BY <2>1, <2>2 DEF Word
  <2>4. CASE x < t
    <3>1. x \div t = 0
      <4>1. x = t * 0 + x /\ x \in 0 .. t - 1
        BY <2>1, <2>2, <2>3, <2>4
      <4>. QED  BY <2>1, <2>2, <4>1, DivIs
    <3>. QED  BY <2>2, <3>1 DEF Bit, TopBit
  <2>5. CASE x >= t
    <3>1. x \div t = 1
      <4>1. x = t * 1 + (x - t) /\ x - t \in 0 .. t - 1
        BY <2>1, <2>2, <2>3, <2>5
      <4>. QED  BY <2>1, <2>2, <4>1, DivIs
    <3>. QED  BY <2>2, <3>1 DEF Bit, TopBit
  <2>. QED  BY <2>1, <2>2, <2>4, <2>5
<1>5. PICK out \in 0 .. 1 : out = Out(w, x, c) /\ out = (x \div TopBit(w) + c) % 2
  BY <1>3, <1>4 DEF Out
<1>6. Fed(x, c, poly, TopBit(w)) = IF out = 1 THEN Xor(y, poly) ELSE y
  BY <1>1, <1>5, Zenon DEF Fed
<1>7. CASE out = 1
  <2>1. PICK z \in Word(w) : z = Xor(y, poly) /\ \A k \in 0 .. w - 1 : Bit(z, k) = (Bit(y, k) + Bit(poly, k)) % 2
    BY XorBits
  <2>2. ASSUME NEW k \in 0 .. w - 1
        PROVE  Bit(z, k) = (Shl(x, k) + Out(w, x, c) * Bit(poly, k)) % 2
    <3>1. Bit(poly, k) \in 0 .. 1
      BY WordBit
    <3>2. Out(w, x, c) * Bit(poly, k) = Bit(poly, k)
      BY <1>5, <1>7, <3>1
    <3>. QED  BY <1>1, <2>1, <3>2
  <2>3. Fed(x, c, poly, TopBit(w)) = z
    BY <1>6, <1>7, <2>1, Zenon
  <2>. QED  BY <2>2, <2>3, Zenon DEF Turned
<1>8. CASE out = 0
  <2>1. ASSUME NEW k \in 0 .. w - 1
        PROVE  Bit(y, k) = (Shl(x, k) + Out(w, x, c) * Bit(poly, k)) % 2
    <3>1. Bit(poly, k) \in 0 .. 1 /\ Bit(y, k) \in 0 .. 1
      BY WordBit
    <3>2. Out(w, x, c) * Bit(poly, k) = 0
      BY <1>5, <1>8, <3>1
    <3>. QED  BY <1>1, <3>1, <3>2
  <2>2. Fed(x, c, poly, TopBit(w)) = y
    <3>1. out # 1
      BY <1>8
    <3>. QED  BY <1>6, <3>1, Zenon
  <2>. QED  BY <2>1, <2>2, Zenon DEF Turned
<1>. QED  BY <1>7, <1>8

LEMMA ShiftedIs ==
    ASSUME NEW w, IsWidth(w), NEW poly \in Word(w), NEW x \in Word(w)
    PROVE  Shifted(x, poly, TopBit(w)) = Fed(x, 0, poly, TopBit(w))
<1>1. PICK t \in Nat \ {0} : t = TopBit(w) /\ 2 * t = Pow2[w]
  BY TopIs
<1>2. x \in Int /\ 0 <= x /\ x < 2 * t
  BY <1>1, WordInt DEF Word
<1>3. x >= t <=> (x \div t + 0) % 2 = 1
  <2>1. CASE x < t
    <3>1. x = t * 0 + x /\ x \in 0 .. t - 1
      BY <1>1, <1>2, <2>1
    <3>2. x \div t = 0
      BY <1>1, <1>2, <3>1, DivIs
    <3>. QED  BY <1>1, <1>2, <2>1, <3>2
  <2>2. CASE x >= t
    <3>1. x = t * 1 + (x - t) /\ x - t \in 0 .. t - 1
      BY <1>1, <1>2, <2>2
    <3>2. x \div t = 1
      BY <1>1, <1>2, <3>1, DivIs
    <3>. QED  BY <1>1, <1>2, <2>2, <3>2
  <2>. QED  BY <1>1, <1>2, <2>1, <2>2
<1>. QED  BY <1>1, <1>3, Zenon DEF Shifted, Fed

LEMMA FedType ==
    ASSUME NEW w, IsWidth(w), NEW poly \in Word(w), NEW x \in Word(w), NEW c \in 0 .. 1
    PROVE  Fed(x, c, poly, TopBit(w)) \in Word(w)
BY FedBits DEF Turned

\* The turns of two registers add up to the turn of their sum.
LEMMA FedAdds ==
    ASSUME NEW w, IsWidth(w), NEW poly \in Word(w), NEW x \in Word(w), NEW y \in Word(w)
    PROVE  Fed(Xor(x, y), 0, poly, TopBit(w)) =
              Xor(Fed(x, 0, poly, TopBit(w)), Fed(y, 0, poly, TopBit(w)))
<1>1. PICK s \in Word(w) : s = Xor(x, y) /\ \A k \in 0 .. w - 1 : Bit(s, k) = (Bit(x, k) + Bit(y, k)) % 2
  BY XorBits
<1>2. PICK z : z = Fed(s, 0, poly, TopBit(w)) /\ Turned(w, poly, s, 0, z)
  BY FedBits
<1>3. PICK u : u = Fed(x, 0, poly, TopBit(w)) /\ Turned(w, poly, x, 0, u)
  BY FedBits
<1>4. PICK v : v = Fed(y, 0, poly, TopBit(w)) /\ Turned(w, poly, y, 0, v)
  BY FedBits
<1>5. u \in Word(w) /\ v \in Word(w) /\ z \in Word(w)
  BY <1>2, <1>3, <1>4 DEF Turned
<1>6. PICK t \in Word(w) : t = Xor(u, v) /\ \A k \in 0 .. w - 1 : Bit(t, k) = (Bit(u, k) + Bit(v, k)) % 2
  BY <1>5, XorBits
<1>7. w - 1 \in 0 .. w - 1
  BY DEF IsWidth
<1>8. PICK p \in 0 .. 1, q \in 0 .. 1, r \in 0 .. 1 :
         p = Out(w, x, 0) /\ q = Out(w, y, 0) /\ r = Out(w, s, 0) /\ r = (p + q) % 2
  <2>1. Bit(x, w - 1) \in 0 .. 1 /\ Bit(y, w - 1) \in 0 .. 1
    BY <1>7, WordBit
  <2>2. Bit(s, w - 1) = (Bit(x, w - 1) + Bit(y, w - 1)) % 2
    BY <1>1, <1>7
  <2>. QED  BY <2>1, <2>2 DEF Out
<1>9. ASSUME NEW k \in 0 .. w - 1
      PROVE  Bit(z, k) = Bit(t, k)
  <2>1. PICK g \in 0 .. 1 : g = Bit(poly, k)
    BY WordBit
  <2>2. /\ Bit(z, k) = (Shl(s, k) + r * g) % 2 /\ Bit(u, k) = (Shl(x, k) + p * g) % 2
        /\ Bit(v, k) = (Shl(y, k) + q * g) % 2 /\ Bit(t, k) = (Bit(u, k) + Bit(v, k)) % 2
    BY <1>2, <1>3, <1>4, <1>6, <1>8, <2>1, Zenon DEF Turned
  <2>3. Shl(x, k) \in 0 .. 1 /\ Shl(y, k) \in 0 .. 1 /\ Shl(s, k) = (Shl(x, k) + Shl(y, k)) % 2
    <3>1. CASE k = 0
      BY <3>1 DEF Shl
    <3>2. CASE k # 0
      <4>1. k - 1 \in 0 .. w - 1
        BY <3>2 DEF IsWidth
      <4>2. Bit(x, k - 1) \in 0 .. 1 /\ Bit(y, k - 1) \in 0 .. 1
        BY <4>1, WordBit
      <4>3. Bit(s, k - 1) = (Bit(x, k - 1) + Bit(y, k - 1)) % 2
        BY <1>1, <4>1
      <4>. QED  BY <3>2, <4>2, <4>3 DEF Shl
    <3>. QED  BY <3>1, <3>2
  <2>4. CASE g = 0
    <3>1. r * g = 0 /\ p * g = 0 /\ q * g = 0
      BY <2>4
    <3>2. /\ Bit(z, k) = (Shl(s, k) + 0) % 2 /\ Bit(u, k) = (Shl(x, k) + 0) % 2
          /\ Bit(v, k) = (Shl(y, k) + 0) % 2
      BY <2>2, <3>1, Zenon
    <3>3. Bit(z, k) = Shl(s, k) /\ Bit(u, k) = Shl(x, k) /\ Bit(v, k) = Shl(y, k)
      BY <2>3, <3>2
    <3>. QED  BY <2>2, <2>3, <3>3, Zenon
  <2>5. CASE g = 1
    <3>1. r * g = r /\ p * g = p /\ q * g = q
      BY <2>5
    <3>. QED  BY <1>8, <2>2, <2>3, <3>1
  <2>. QED  BY <2>4, <2>5
<1>10. z = t
  BY <1>5, <1>9, WordsEqual
<1>. QED  BY <1>1, <1>2, <1>3, <1>4, <1>6, <1>10, Zenon

\* A polynomial with a lowest bit loses nothing of the register.
LEMMA FedKeeps ==
    ASSUME NEW w, IsWidth(w), NEW poly \in Word(w), Bit(poly, 0) = 1,
           NEW x \in Word(w), NEW y \in Word(w),
           Fed(x, 0, poly, TopBit(w)) = Fed(y, 0, poly, TopBit(w))
    PROVE  x = y
<1>1. PICK u : u = Fed(x, 0, poly, TopBit(w)) /\ Turned(w, poly, x, 0, u) /\ Turned(w, poly, y, 0, u)
  <2>1. Turned(w, poly, x, 0, Fed(x, 0, poly, TopBit(w))) /\ Turned(w, poly, y, 0, Fed(y, 0, poly, TopBit(w)))
    BY FedBits
  <2>. QED  BY <2>1, Zenon
<1>2. w - 1 \in 0 .. w - 1 /\ 0 \in 0 .. w - 1
  BY DEF IsWidth
<1>3. Bit(x, w - 1) \in 0 .. 1 /\ Bit(y, w - 1) \in 0 .. 1
  BY <1>2, WordBit
<1>4. Out(w, x, 0) = Bit(x, w - 1) /\ Out(w, y, 0) = Bit(y, w - 1)
  BY <1>3 DEF Out
<1>5. Bit(x, w - 1) = Bit(y, w - 1)
  <2>1. /\ Bit(u, 0) = (Shl(x, 0) + Out(w, x, 0) * Bit(poly, 0)) % 2
        /\ Bit(u, 0) = (Shl(y, 0) + Out(w, y, 0) * Bit(poly, 0)) % 2
    BY <1>1, <1>2, Zenon DEF Turned
  <2>2. Shl(x, 0) = 0 /\ Shl(y, 0) = 0
    BY DEF Shl
  <2>. QED  BY <1>3, <1>4, <2>1, <2>2
<1>6. ASSUME NEW k \in 0 .. w - 1
      PROVE  Bit(x, k) = Bit(y, k)
  <2>1. CASE k = w - 1
    BY <1>5, <2>1
  <2>2. CASE k # w - 1
    <3>1. PICK j : j = k + 1 /\ j \in 0 .. w - 1 /\ j # 0 /\ j - 1 = k
      BY <2>2 DEF IsWidth
    <3>2. PICK g \in 0 .. 1 : g = Bit(poly, j)
      BY <3>1, WordBit
    <3>3. PICK p \in 0 .. 1 : p = Out(w, x, 0) /\ p = Out(w, y, 0)
      BY <1>3, <1>4, <1>5
    <3>4. Bit(u, j) = (Shl(x, j) + p * g) % 2 /\ Bit(u, j) = (Shl(y, j) + p * g) % 2
      BY <1>1, <3>1, <3>2, <3>3, Zenon DEF Turned
    <3>5. Shl(x, j) = Bit(x, k) /\ Shl(y, j) = Bit(y, k)
      BY <3>1 DEF Shl
    <3>6. Bit(x, k) \in 0 .. 1 /\ Bit(y, k) \in 0 .. 1
      BY WordBit
    <3>7. p * g \in 0 .. 1
      BY SMT
    <3>. QED  BY <3>4, <3>5, <3>6, <3>7
  <2>. QED  BY <2>1, <2>2
<1>. QED  BY <1>6, WordsEqual

-----------------------------------------------------------------------------
\* Three loops whose registers add up.
AddsUp(step, w, N, e, f, g) ==
    \A n \in 1 .. N : \A x \in Word(w), y \in Word(w) :
        /\ step[x][e[n]] \in Word(w) /\ step[y][f[n]] \in Word(w)
        /\ step[Xor(x, y)][g[n]] = Xor(step[x][e[n]], step[y][f[n]])

LEMMA LoopsAdd ==
    ASSUME NEW w, IsWidth(w), NEW N \in Nat, NEW e, NEW f, NEW g, Len(e) = N, Len(f) = N, Len(g) = N,
           NEW step, NEW a \in Word(w), NEW b \in Word(w), AddsUp(step, w, N, e, f, g)
    PROVE  Loop(step, Xor(a, b), g) = Xor(Loop(step, a, e), Loop(step, b, f))
<1>1. Len(f) \in Nat
  OBVIOUS
<1>2. PICK V : /\ V[0] = b
               /\ \A n \in 1 .. Len(f) : V[n] = step[V[n - 1]][f[n]]
               /\ Loop(step, b, f) = V[Len(f)]
  BY <1>1, LoopRuns
<1>. DEFINE Rel == {t \in (0 .. N) \X Word(w) \X Word(w) : V[t[1]] \in Word(w) /\ t[3] = Xor(t[2], V[t[1]])}
<1>3. <<0, a, Xor(a, b)>> \in Rel
  <2>1. Xor(a, b) \in Word(w)
    BY XorType
  <2>. QED  BY <1>2, <2>1
<1>4. ASSUME NEW n \in 1 .. N, NEW x, NEW y, <<n - 1, x, y>> \in Rel
      PROVE  <<n, step[x][e[n]], step[y][g[n]]>> \in Rel
  <2>1. x \in Word(w) /\ V[n - 1] \in Word(w) /\ y = Xor(x, V[n - 1])
    BY <1>4
  <2>2. n \in 0 .. N /\ V[n] = step[V[n - 1]][f[n]]
    BY <1>2
  <2>3. /\ step[x][e[n]] \in Word(w) /\ step[V[n - 1]][f[n]] \in Word(w)
        /\ step[Xor(x, V[n - 1])][g[n]] = Xor(step[x][e[n]], step[V[n - 1]][f[n]])
    BY <2>1, Zenon DEF AddsUp
  <2>4. step[y][g[n]] = Xor(step[x][e[n]], V[n]) /\ V[n] \in Word(w)
    BY <2>1, <2>2, <2>3, Zenon
  <2>5. step[y][g[n]] \in Word(w)
    <3>1. PICK p \in Word(w), q \in Word(w) : p = step[x][e[n]] /\ q = V[n]
      BY <2>3, <2>4
    <3>2. Xor(p, q) \in Word(w)
      BY XorType
    <3>. QED  BY <2>4, <3>1, <3>2, Zenon
  <2>. QED  BY <2>2, <2>3, <2>4, <2>5
<1>5. Kept(Rel, N, step, e, step, g)
  <2>. HIDE DEF Rel
  <2>. QED  BY <1>4, Zenon DEF Kept
<1>6. <<N, Loop(step, a, e), Loop(step, Xor(a, b), g)>> \in Rel
  <2>. HIDE DEF Rel
  <2>. QED  BY <1>3, <1>5, LoopsRelate, Zenon
<1>. QED  BY <1>2, <1>6

LEMMA LoopAdds ==
    ASSUME NEW w, IsWidth(w), NEW N \in Nat, NEW e, Len(e) = N,
           NEW step, NEW a \in Word(w), NEW b \in Word(w), AddsUp(step, w, N, e, e, e)
    PROVE  Loop(step, Xor(a, b), e) = Xor(Loop(step, a, e), Loop(step, b, e))
BY LoopsAdd

-----------------------------------------------------------------------------
\* The table that the eight turns of a byte make: TurnsOf(w, poly).
TurnsOf(w, poly) == EightTimes(poly, TopBit(w))

LEMMA TurnIs ==
    ASSUME NEW w, IsWidth(w), NEW poly \in Word(w), NEW x \in Word(w), NEW n \in 1 .. 8
    PROVE  Shifting(poly, TopBit(w))[x][EightTurns[n]] = Fed(x, 0, poly, TopBit(w))
<1>1. x \in Nat /\ EightTurns[n] \in Nat
  BY WordInt, EightIs
<1>2. Shifting(poly, TopBit(w))[x][EightTurns[n]] = Shifted(x, poly, TopBit(w))
  BY <1>1, Zenon DEF Shifting
<1>. QED  BY <1>2, ShiftedIs

LEMMA TableIs ==
    ASSUME NEW w, IsWidth(w), NEW poly \in Word(w), NEW x \in Word(w)
    PROVE  /\ TurnsOf(w, poly)[x] = Loop(Shifting(poly, TopBit(w)), x, EightTurns)
           /\ TurnsOf(w, poly)[x] \in Word(w)
<1>1. x \in 0 .. 2 * TopBit(w) - 1
  BY TopIs, Zenon DEF Word
<1>2. TurnsOf(w, poly)[x] = Loop(Shifting(poly, TopBit(w)), x, EightTurns)
  BY <1>1, Zenon DEF TurnsOf, EightTimes
<1>3. \A n \in 1 .. 8 : \A y \in Word(w) : Shifting(poly, TopBit(w))[y][EightTurns[n]] \in Word(w)
  BY TurnIs, FedType
<1>4. 8 \in Nat /\ Len(EightTurns) = 8
  BY EightIs
<1>5. Loop(Shifting(poly, TopBit(w)), x, EightTurns) \in Word(w)
  BY <1>3, <1>4, LoopType, Zenon
<1>. QED  BY <1>2, <1>5, Zenon

LEMMA TableKeeps ==
    ASSUME NEW w, IsWidth(w), NEW poly \in Word(w), Bit(poly, 0) = 1,
           NEW x \in Word(w), NEW y \in Word(w), TurnsOf(w, poly)[x] = TurnsOf(w, poly)[y]
    PROVE  x = y
<1>. DEFINE step == Shifting(poly, TopBit(w))
            B    == {EightTurns[n] : n \in 1 .. 8}
<1>1. KeepsRegister(step, Word(w), B)
  <2>1. ASSUME NEW u \in Word(w), NEW b \in B
        PROVE  step[u][b] = Fed(u, 0, poly, TopBit(w)) /\ step[u][b] \in Word(w)
    <3>1. PICK n \in 1 .. 8 : b = EightTurns[n]
      OBVIOUS
    <3>. HIDE DEF step
    <3>2. step[u][b] = Fed(u, 0, poly, TopBit(w))
      BY <3>1, TurnIs DEF step
    <3>. QED  BY <3>2, FedType
  <2>. HIDE DEF step, B
  <2>2. ASSUME NEW u \in Word(w), NEW v \in Word(w), NEW b \in B, step[u][b] = step[v][b]
        PROVE  u = v
    BY <2>1, <2>2, FedKeeps
  <2>. QED  BY <2>1, <2>2 DEF KeepsRegister
<1>2. 8 \in Nat /\ Len(EightTurns) = 8 /\ \A n \in 1 .. 8 : EightTurns[n] \in B
  BY EightIs
<1>3. TurnsOf(w, poly)[x] = Loop(step, x, EightTurns) /\ TurnsOf(w, poly)[y] = Loop(step, y, EightTurns)
  BY TableIs
<1>. HIDE DEF step, B
<1>. QED  BY <1>1, <1>2, <1>3, StartsDiffer, Zenon

LEMMA TableAdds ==
    ASSUME NEW w, IsWidth(w), NEW poly \in Word(w), NEW x \in Word(w), NEW y \in Word(w)
    PROVE  TurnsOf(w, poly)[Xor(x, y)] = Xor(TurnsOf(w, poly)[x], TurnsOf(w, poly)[y])
<1>. DEFINE step == Shifting(poly, TopBit(w))
<1>1. ASSUME NEW n \in 1 .. 8, NEW u \in Word(w), NEW v \in Word(w)
      PROVE  /\ step[u][EightTurns[n]] \in Word(w) /\ step[v][EightTurns[n]] \in Word(w)
             /\ step[Xor(u, v)][EightTurns[n]] = Xor(step[u][EightTurns[n]], step[v][EightTurns[n]])
  <2>1. Xor(u, v) \in Word(w)
    BY XorType
  <2>2. /\ step[u][EightTurns[n]] = Fed(u, 0, poly, TopBit(w))
        /\ step[v][EightTurns[n]] = Fed(v, 0, poly, TopBit(w))
        /\ step[Xor(u, v)][EightTurns[n]] = Fed(Xor(u, v), 0, poly, TopBit(w))
    BY <2>1, TurnIs
  <2>. HIDE DEF step
  <2>. QED  BY <2>2, FedAdds, FedType
<1>2. 8 \in Nat /\ Len(EightTurns) = 8
  BY EightIs
<1>3. Loop(step, Xor(x, y), EightTurns) = Xor(Loop(step, x, EightTurns), Loop(step, y, EightTurns))
  <2>. HIDE DEF step
  <2>1. AddsUp(step, w, 8, EightTurns, EightTurns, EightTurns)
    BY <1>1 DEF AddsUp
  <2>2. PICK N, e : N \in Nat /\ N = 8 /\ e = EightTurns
    OBVIOUS
  <2>3. Len(e) = N /\ AddsUp(step, w, N, e, e, e)
    BY <1>2, <2>1, <2>2, Zenon
  <2>4. Loop(step, Xor(x, y), e) = Xor(Loop(step, x, e), Loop(step, y, e))
    BY <2>3, LoopAdds
  <2>. QED  BY <2>2, <2>4, Zenon
<1>4. Xor(x, y) \in Word(w)
  BY XorType
<1>. QED  BY <1>3, <1>4, TableIs

-----------------------------------------------------------------------------
(***************************************************************************)
(* 9. A byte at once: what eight turns make of it, and the tables.         *)
(***************************************************************************)
\* The byte b at the highest end of a register of w bits.
AtTop(w, b) == IF w = 8 THEN b ELSE 256 * b

\* What of b is still to be fed after n bits, at bit k of the register.
Rest(w, b, n, k) == IF k >= (w - 8) + n THEN Bit(b, k - ((w - 8) + n)) ELSE 0

LEMMA AtTopBits ==
    ASSUME NEW w, IsWidth(w), NEW b \in Word(8)
    PROVE  /\ AtTop(w, b) \in Word(w)
           /\ \A k \in 0 .. w - 1 : Bit(AtTop(w, b), k) = Rest(w, b, 0, k)
<1>1. CASE w = 8
  <2>1. \A k \in 0 .. 7 : Rest(8, b, 0, k) = Bit(b, k)
    BY DEF Rest
  <2>. QED  BY <1>1, <2>1 DEF AtTop
<1>2. CASE w = 16
  <2>1. PICK p : p = AtTop(w, b) /\ p = 256 * b
    BY <1>2 DEF AtTop
  <2>2. b \in Int /\ 0 <= b /\ b <= 255
    BY WordIs
  <2>3. p \in Word(16)
    <3>1. p \in Int /\ 0 <= p /\ p <= 65535
      BY <2>1, <2>2
    <3>. QED  BY <3>1, WordIs
  <2>4. 0 \in Word(8)
    BY WordIs
  <2>5. ASSUME NEW k \in 0 .. 15
        PROVE  Bit(p, k) = Rest(16, b, 0, k)
    <3>1. Bit(256 * b + 0, k) = IF k < 8 THEN Bit(0, k) ELSE Bit(b, k - 8)
      BY <2>4, HalfBits
    <3>2. 256 * b + 0 = p
      BY <2>1, <2>2
    <3>3. k < 8 => Bit(0, k) = 0
      BY ZeroBits
    <3>4. CASE k < 8
      <4>1. Rest(16, b, 0, k) = 0
        BY <3>4 DEF Rest
      <4>. QED  BY <3>1, <3>2, <3>3, <3>4, <4>1, Zenon
    <3>5. CASE ~(k < 8)
      <4>1. Rest(16, b, 0, k) = Bit(b, k - 8)
        BY <3>5 DEF Rest
      <4>. QED  BY <3>1, <3>2, <3>5, <4>1, Zenon
    <3>. QED  BY <3>4, <3>5
  <2>6. \A k \in 0 .. w - 1 : Bit(p, k) = Rest(w, b, 0, k)
    BY <1>2, <2>5
  <2>. QED  BY <1>2, <2>1, <2>3, <2>6, Zenon
<1>. QED  BY <1>1, <1>2 DEF IsWidth

\* The bits of a byte as the items of a loop.
LEMMA BitsOfIs ==
    ASSUME NEW b
    PROVE  8 \in Nat /\ Len(BitsOf(b)) = 8 /\ \A n \in 1 .. 8 : BitsOf(b)[n] = Bit(b, 8 - n)
<1>1. BitsOf(b) = [k \in 1 .. 8 |-> Bit(b, 8 - k)]
  BY Zenon DEF BitsOf
<1>. HIDE DEF BitsOf
<1>. QED  BY <1>1

\* Registers that differ by what of b is still to be fed.
Apart(w, b, n, x, y) ==
    /\ x \in Word(w) /\ y \in Word(w)
    /\ \A k \in 0 .. w - 1 : Bit(y, k) = (Bit(x, k) + Rest(w, b, n, k)) % 2

LEMMA ApartTurns ==
    ASSUME NEW w, IsWidth(w), NEW poly \in Word(w), NEW b \in Word(8), NEW n \in 1 .. 8,
           NEW x, NEW y, Apart(w, b, n - 1, x, y), NEW c, c = Bit(b, 8 - n)
    PROVE  Apart(w, b, n, Fed(x, c, poly, TopBit(w)), Fed(y, 0, poly, TopBit(w)))
<1>1. x \in Word(w) /\ y \in Word(w)
  BY DEF Apart
<1>2. c \in 0 .. 1
  <2>1. 8 - n \in 0 .. 7 /\ IsWidth(8)
    BY DEF IsWidth
  <2>. QED  BY <2>1, WordBit
<1>3. PICK u : u = Fed(x, c, poly, TopBit(w)) /\ Turned(w, poly, x, c, u)
  BY <1>1, <1>2, FedBits
<1>4. PICK v : v = Fed(y, 0, poly, TopBit(w)) /\ Turned(w, poly, y, 0, v)
  BY <1>1, FedBits
<1>5. PICK p \in 0 .. 1 : p = Out(w, x, c) /\ p = Out(w, y, 0)
  <2>1. w - 1 \in 0 .. w - 1
    BY DEF IsWidth
  <2>2. Rest(w, b, n - 1, w - 1) = Bit(b, 8 - n)
    <3>1. w - 1 >= (w - 8) + (n - 1) /\ (w - 1) - ((w - 8) + (n - 1)) = 8 - n
      BY DEF IsWidth
    <3>. QED  BY <3>1, Zenon DEF Rest
  <2>3. Bit(y, w - 1) = (Bit(x, w - 1) + c) % 2
    BY <2>1, <2>2, Zenon DEF Apart
  <2>4. Bit(x, w - 1) \in 0 .. 1
    BY <1>1, <2>1, WordBit
  <2>. QED  BY <1>2, <2>3, <2>4 DEF Out
<1>6. ASSUME NEW k \in 0 .. w - 1
      PROVE  Bit(v, k) = (Bit(u, k) + Rest(w, b, n, k)) % 2
  <2>1. PICK r \in 0 .. 1 : r = Rest(w, b, n, k)
    <3>1. CASE k >= (w - 8) + n
      <4>1. k - ((w - 8) + n) \in 0 .. 7 /\ IsWidth(8)
        BY <3>1 DEF IsWidth
      <4>2. Bit(b, k - ((w - 8) + n)) \in 0 .. 1
        BY <4>1, WordBit
      <4>. QED  BY <3>1, <4>2 DEF Rest
    <3>2. CASE ~(k >= (w - 8) + n)
      BY <3>2 DEF Rest
    <3>. QED  BY <3>1, <3>2
  <2>2. Shl(x, k) \in 0 .. 1 /\ Shl(y, k) = (Shl(x, k) + r) % 2
    <3>1. CASE k = 0
      <4>1. r = 0
        BY <2>1, <3>1 DEF Rest, IsWidth
      <4>. QED  BY <3>1, <4>1 DEF Shl
    <3>2. CASE k # 0
      <4>1. k - 1 \in 0 .. w - 1
        BY <3>2 DEF IsWidth
      <4>2. Rest(w, b, n - 1, k - 1) = r
        <5>1. /\ (k - 1) - ((w - 8) + (n - 1)) = k - ((w - 8) + n)
              /\ (k - 1 >= (w - 8) + (n - 1)) <=> (k >= (w - 8) + n)
          BY DEF IsWidth
        <5>. QED  BY <2>1, <5>1, Zenon DEF Rest
      <4>3. Bit(x, k - 1) \in 0 .. 1
        BY <1>1, <4>1, WordBit
      <4>4. Bit(y, k - 1) = (Bit(x, k - 1) + r) % 2
        BY <4>1, <4>2, Zenon DEF Apart
      <4>. QED  BY <3>2, <4>3, <4>4 DEF Shl
    <3>. QED  BY <3>1, <3>2
  <2>3. PICK g \in 0 .. 1 : g = Bit(poly, k)
    BY WordBit
  <2>4. PICK s \in 0 .. 1 : s = p * g
    <3>1. p * g \in 0 .. 1
      BY SMT
    <3>. QED  BY <3>1
  <2>5. Bit(u, k) = (Shl(x, k) + s) % 2 /\ Bit(v, k) = (Shl(y, k) + s) % 2
    BY <1>3, <1>4, <1>5, <2>3, <2>4, Zenon DEF Turned
  <2>. QED  BY <2>1, <2>2, <2>5
<1>7. u \in Word(w) /\ v \in Word(w)
  BY <1>3, <1>4 DEF Turned
<1>. QED  BY <1>3, <1>4, <1>6, <1>7, Zenon DEF Apart

\* A byte that is fed bit by bit is a byte that the register is added to.
LEMMA FedByteIs ==
    ASSUME NEW w, IsWidth(w), NEW poly \in Word(w), NEW x \in Word(w), NEW b \in Word(8)
    PROVE  FedByte(poly, TopBit(w))[x][b] = TurnsOf(w, poly)[Xor(x, AtTop(w, b))]
<1>. DEFINE Rel   == {t \in (0 .. 8) \X Word(w) \X Word(w) : Apart(w, b, t[1], t[2], t[3])}
            step  == FedBit(poly, TopBit(w))
            other == Shifting(poly, TopBit(w))
<1>1. PICK y \in Word(w) : y = Xor(x, AtTop(w, b)) /\ Apart(w, b, 0, x, y)
  <2>1. PICK q \in Word(w) : q = AtTop(w, b) /\ \A k \in 0 .. w - 1 : Bit(q, k) = Rest(w, b, 0, k)
    BY AtTopBits
  <2>2. PICK y : y = Xor(x, q) /\ y \in Word(w) /\ \A k \in 0 .. w - 1 : Bit(y, k) = (Bit(x, k) + Bit(q, k)) % 2
    BY XorBits
  <2>3. \A k \in 0 .. w - 1 : Bit(y, k) = (Bit(x, k) + Rest(w, b, 0, k)) % 2
    BY <2>1, <2>2, Zenon
  <2>. QED  BY <2>1, <2>2, <2>3, Zenon DEF Apart
<1>2. <<0, x, y>> \in Rel
  BY <1>1
<1>3. ASSUME NEW n \in 1 .. 8, NEW u, NEW v, <<n - 1, u, v>> \in Rel
      PROVE  <<n, step[u][BitsOf(b)[n]], other[v][EightTurns[n]]>> \in Rel
  <2>1. Apart(w, b, n - 1, u, v) /\ u \in Word(w) /\ v \in Word(w)
    BY <1>3
  <2>2. PICK c \in 0 .. 1 : c = Bit(b, 8 - n) /\ c = BitsOf(b)[n]
    <3>1. 8 - n \in 0 .. 7 /\ IsWidth(8)
      BY DEF IsWidth
    <3>2. Bit(b, 8 - n) \in 0 .. 1
      BY <3>1, WordBit
    <3>. QED  BY <3>2, BitsOfIs
  <2>3. Apart(w, b, n, Fed(u, c, poly, TopBit(w)), Fed(v, 0, poly, TopBit(w)))
    BY <2>1, <2>2, ApartTurns
  <2>4. step[u][c] = Fed(u, c, poly, TopBit(w))
    <3>1. u \in Nat /\ c \in Nat
      BY <2>1, WordInt
    <3>. QED  BY <3>1, Zenon DEF FedBit
  <2>5. other[v][EightTurns[n]] = Fed(v, 0, poly, TopBit(w))
    BY <2>1, TurnIs
  <2>. HIDE DEF step, other
  <2>6. Apart(w, b, n, step[u][BitsOf(b)[n]], other[v][EightTurns[n]])
    BY <2>2, <2>3, <2>4, <2>5, Zenon
  <2>7. n \in 0 .. 8 /\ step[u][BitsOf(b)[n]] \in Word(w) /\ other[v][EightTurns[n]] \in Word(w)
    BY <2>6 DEF Apart
  <2>. QED  BY <2>6, <2>7
<1>4. Kept(Rel, 8, step, BitsOf(b), other, EightTurns)
  <2>. HIDE DEF Rel, step, other
  <2>. QED  BY <1>3, Zenon DEF Kept
<1>5. 8 \in Nat /\ Len(BitsOf(b)) = 8 /\ Len(EightTurns) = 8
  BY BitsOfIs, EightIs
<1>6. <<8, Loop(step, x, BitsOf(b)), Loop(other, y, EightTurns)>> \in Rel
  <2>. HIDE DEF Rel, step, other
  <2>. QED  BY <1>2, <1>4, <1>5, LoopsRelate, Zenon
<1>7. Loop(other, y, EightTurns) = TurnsOf(w, poly)[y]
  BY TableIs
<1>8. Loop(step, x, BitsOf(b)) = FedByte(poly, TopBit(w))[x][b]
  <2>1. x \in Nat /\ b \in Nat /\ IsWidth(8)
    BY WordInt DEF IsWidth
  <2>. QED  BY <2>1, Zenon DEF FedByte
<1>9. Apart(w, b, 8, FedByte(poly, TopBit(w))[x][b], TurnsOf(w, poly)[y])
  <2>. HIDE DEF step, other
  <2>. QED  BY <1>6, <1>7, <1>8
<1>10. PICK p, q : p = FedByte(poly, TopBit(w))[x][b] /\ q = TurnsOf(w, poly)[y] /\ Apart(w, b, 8, p, q)
  BY <1>9
<1>11. ASSUME NEW k \in 0 .. w - 1
       PROVE  Bit(q, k) = Bit(p, k)
  <2>1. Rest(w, b, 8, k) = 0
    BY DEF Rest, IsWidth
  <2>2. Bit(q, k) = (Bit(p, k) + 0) % 2 /\ p \in Word(w)
    BY <1>10, <2>1, Zenon DEF Apart
  <2>3. Bit(p, k) \in 0 .. 1
    BY <2>2, WordBit
  <2>. QED  BY <2>2, <2>3
<1>12. p \in Word(w) /\ q \in Word(w)
  BY <1>10 DEF Apart
<1>13. q = p
  BY <1>11, <1>12, WordsEqual
<1>. QED  BY <1>1, <1>10, <1>13, Zenon

-----------------------------------------------------------------------------
(***************************************************************************)
(* 10. The four CRCs, as common.cc writes them.                            *)
(***************************************************************************)
LEMMA Widths == IsWidth(8) /\ IsWidth(16) /\ 8 - 1 = 7
BY DEF IsWidth

LEMMA Tops == TopBit(8) = 128 /\ TopBit(16) = 32768
<1>1. /\ TopBit(8) \in Nat \ {0} /\ 2 * TopBit(8) = Pow2[8]
      /\ TopBit(16) \in Nat \ {0} /\ 2 * TopBit(16) = Pow2[16]
  BY Widths, TopIs
<1>. QED  BY <1>1, PowWord

LEMMA Top8 == TopBit(8) = 128
BY Tops

\* The polynomials of the checksums.
LEMMA Polynomials ==
    /\ 29 \in Word(8) /\ Bit(29, 0) = 1
    /\ 47 \in Word(8) /\ Bit(47, 0) = 1
    /\ 213 \in Word(8) /\ Bit(213, 0) = 1
<1>1. 29 \in Word(8) /\ 47 \in Word(8) /\ 213 \in Word(8)
  BY WordIs
<1>2. Bit(29, 0) = 1 /\ Bit(47, 0) = 1 /\ Bit(213, 0) = 1
  BY PowNext DEF Bit
<1>. QED  BY <1>1, <1>2

LEMMA XmodemPolynomial == 4129 \in Word(16) /\ Bit(4129, 0) = 1
<1>1. 4129 \in Word(16)
  BY WordIs
<1>2. Bit(4129, 0) = 1
  BY PowNext DEF Bit
<1>. QED  BY <1>1, <1>2

LEMMA AtTopKeeps ==
    ASSUME NEW w, NEW b \in Word(8), NEW c \in Word(8), AtTop(w, b) = AtTop(w, c)
    PROVE  b = c
<1>1. b \in Int /\ c \in Int
  BY WordIs
<1>. QED  BY <1>1 DEF AtTop

\* Division by a polynomial with a lowest bit loses nothing of the register nor
\* of the byte it is fed.
LEMMA FedLossless ==
    ASSUME NEW w, IsWidth(w), NEW poly \in Word(w), Bit(poly, 0) = 1
    PROVE  Lossless(FedByte(poly, TopBit(w)), Word(w), Word(8))
<1>. DEFINE step == FedByte(poly, TopBit(w))
<1>1. ASSUME NEW x \in Word(w), NEW b \in Word(8)
      PROVE  /\ step[x][b] = TurnsOf(w, poly)[Xor(x, AtTop(w, b))] /\ step[x][b] \in Word(w)
             /\ AtTop(w, b) \in Word(w) /\ Xor(x, AtTop(w, b)) \in Word(w)
  <2>1. AtTop(w, b) \in Word(w)
    BY AtTopBits
  <2>2. Xor(x, AtTop(w, b)) \in Word(w)
    BY <2>1, XorType
  <2>3. step[x][b] = TurnsOf(w, poly)[Xor(x, AtTop(w, b))]
    BY FedByteIs
  <2>4. TurnsOf(w, poly)[Xor(x, AtTop(w, b))] \in Word(w)
    BY <2>2, TableIs
  <2>. HIDE DEF step
  <2>. QED  BY <2>1, <2>2, <2>3, <2>4
<1>. HIDE DEF step
<1>2. ASSUME NEW x \in Word(w), NEW y \in Word(w), NEW b \in Word(8), NEW c \in Word(8),
             step[x][b] = step[y][c]
      PROVE  Xor(x, AtTop(w, b)) = Xor(y, AtTop(w, c))
  <2>1. PICK u \in Word(w), v \in Word(w) : u = Xor(x, AtTop(w, b)) /\ v = Xor(y, AtTop(w, c))
    BY <1>1
  <2>2. TurnsOf(w, poly)[u] = TurnsOf(w, poly)[v]
    BY <1>1, <1>2, <2>1, Zenon
  <2>. QED  BY <2>1, <2>2, TableKeeps
<1>3. ASSUME NEW x \in Word(w), NEW y \in Word(w), NEW b \in Word(8), step[x][b] = step[y][b]
      PROVE  x = y
  <2>1. PICK p \in Word(w) : p = AtTop(w, b)
    BY <1>1
  <2>2. Xor(x, p) = Xor(y, p)
    BY <1>2, <1>3, <2>1, ZenonT(40)
  <2>. QED  BY <2>2, XorKeeps
<1>4. ASSUME NEW x \in Word(w), NEW b \in Word(8), NEW c \in Word(8), step[x][b] = step[x][c]
      PROVE  b = c
  <2>1. PICK p \in Word(w), q \in Word(w) : p = AtTop(w, b) /\ q = AtTop(w, c)
    BY <1>1
  <2>2. Xor(x, p) = Xor(x, q)
    <3>1. Xor(x, AtTop(w, b)) = Xor(x, AtTop(w, c))
      BY <1>2, <1>4
    <3>. QED  BY <2>1, <3>1
  <2>3. p = q
    BY <2>2, XorKeeps
  <2>. QED  BY <2>1, <2>3, AtTopKeeps
<1>5. \A x \in Word(w), b \in Word(8) : step[x][b] \in Word(w)
  BY <1>1
<1>6. KeepsRegister(step, Word(w), Word(8))
  BY <1>3, <1>5, Zenon DEF KeepsRegister
<1>7. KeepsItem(step, Word(w), Word(8))
  BY <1>4, Zenon DEF KeepsItem
<1>. QED  BY <1>6, <1>7, Zenon DEF Lossless, step

LEMMA XorLossless == Lossless(Xoring, Word(8), Word(8))
<1>1. ASSUME NEW x \in Word(8), NEW b \in Word(8)
      PROVE  Xoring[x][b] = Xor(x, b) /\ Xor(x, b) \in Word(8)
  <2>1. x \in Nat /\ b \in Nat /\ IsWidth(8)
    BY Widths, WordInt
  <2>2. Xoring[x][b] = Xor(x, b)
    BY <2>1, Zenon DEF Xoring
  <2>. QED  BY <2>1, <2>2, XorType
<1>2. ASSUME NEW x \in Word(8), NEW y \in Word(8), NEW z \in Word(8)
      PROVE  (Xor(x, y) = Xor(x, z) => y = z) /\ (Xor(x, z) = Xor(y, z) => x = y)
  BY Widths, XorKeeps
<1>3. ASSUME NEW x \in Word(8), NEW y \in Word(8), NEW b \in Word(8), Xoring[x][b] = Xoring[y][b]
      PROVE  x = y
  <2>1. Xoring[x][b] = Xor(x, b) /\ Xoring[y][b] = Xor(y, b)
    BY <1>1
  <2>2. Xor(x, b) = Xor(y, b)
    BY <1>3, <2>1, Zenon
  <2>. QED  BY <1>2, <2>2
<1>4. ASSUME NEW x \in Word(8), NEW b \in Word(8), NEW c \in Word(8), Xoring[x][b] = Xoring[x][c]
      PROVE  b = c
  <2>1. Xoring[x][b] = Xor(x, b) /\ Xoring[x][c] = Xor(x, c)
    BY <1>1
  <2>2. Xor(x, b) = Xor(x, c)
    BY <1>4, <2>1, Zenon
  <2>. QED  BY <1>2, <2>2
<1>5. \A x \in Word(8), b \in Word(8) : Xoring[x][b] \in Word(8)
  BY <1>1
<1>6. KeepsRegister(Xoring, Word(8), Word(8))
  BY <1>3, <1>5, Zenon DEF KeepsRegister
<1>7. KeepsItem(Xoring, Word(8), Word(8))
  BY <1>4, Zenon DEF KeepsItem
<1>. QED  BY <1>6, <1>7, Zenon DEF Lossless

-----------------------------------------------------------------------------
\* The table loops divide.
LEMMA ByteTables ==
    ASSUME NEW x \in Word(8), NEW b \in Word(8)
    PROVE  /\ PedalByte[x][b] = FedByte(213, 128)[x][b]
           /\ VolkswagenByte[x][b] = FedByte(47, 128)[x][b]
<1>1. x \in Nat /\ b \in Nat
  BY Widths, WordInt
<1>2. AtTop(8, b) = b
  BY DEF AtTop
<1>3. /\ FedByte(213, TopBit(8))[x][b] = TurnsOf(8, 213)[Xor(x, AtTop(8, b))]
      /\ FedByte(47, TopBit(8))[x][b] = TurnsOf(8, 47)[Xor(x, AtTop(8, b))]
  BY Widths, Polynomials, FedByteIs
<1>4. PedalTurns = TurnsOf(8, 213) /\ crc8_lut_8h2f = TurnsOf(8, 47)
  BY Top8, Zenon DEF TurnsOf, PedalTurns, crc8_lut_8h2f
<1>5. PedalByte[x][b] = PedalTurns[Xor(x, b)] /\ VolkswagenByte[x][b] = crc8_lut_8h2f[Xor(x, b)]
  BY <1>1, Zenon DEF PedalByte, VolkswagenByte
<1>. QED  BY <1>2, <1>3, <1>4, <1>5, Top8

\* The lowest bit of an even byte.
LEMMA EvenNext ==
    ASSUME NEW h \in Int, 0 <= h, 2 * h + 1 <= 255
    PROVE  2 * h \in Word(8) /\ 2 * h + 1 \in Word(8) /\ 2 * h + 1 = Xor(1, 2 * h)
<1>1. 2 * h \in Word(8) /\ 2 * h + 1 \in Word(8) /\ 1 \in Word(8) /\ 0 \in Word(8)
  BY WordIs
<1>2. Pow2[1] = 2
  BY PowNext
<1>3. ASSUME NEW l \in 0 .. 1, NEW k \in Nat
      PROVE  Bit(2 * h + l, k) = IF k < 1 THEN Bit(l, k) ELSE Bit(h, k - 1)
  <2>1. l \in 0 .. Pow2[1] - 1 /\ 1 \in Nat
    BY <1>2
  <2>2. Bit(Pow2[1] * h + l, k) = IF k < 1 THEN Bit(l, k) ELSE Bit(h, k - 1)
    BY <2>1, BitJoin
  <2>. QED  BY <1>2, <2>2, Zenon
<1>4. Xor(1, 2 * h) \in Word(8) /\ \A k \in 0 .. 7 : Bit(Xor(1, 2 * h), k) = (Bit(1, k) + Bit(2 * h, k)) % 2
  <2>1. IsWidth(8) /\ 8 - 1 = 7
    BY Widths
  <2>2. PICK e \in Word(8), o \in Word(8) : e = 2 * h /\ o = 1
    BY <1>1
  <2>3. Xor(o, e) \in Word(8) /\ \A k \in 0 .. 8 - 1 : Bit(Xor(o, e), k) = (Bit(o, k) + Bit(e, k)) % 2
    BY <2>1, XorBits
  <2>. QED  BY <2>1, <2>2, <2>3, Zenon
<1>5. ASSUME NEW k \in 0 .. 7
      PROVE  Bit(2 * h + 1, k) = Bit(Xor(1, 2 * h), k)
  <2>1. /\ Bit(2 * h + 1, k) = IF k < 1 THEN Bit(1, k) ELSE Bit(h, k - 1)
        /\ Bit(2 * h + 0, k) = IF k < 1 THEN Bit(0, k) ELSE Bit(h, k - 1)
    BY <1>3
  <2>2. 2 * h + 0 = 2 * h /\ Bit(0, k) = 0
    BY ZeroBits
  <2>3. Bit(1, k) = IF k < 1 THEN 1 ELSE 0
    <3>1. CASE k = 0
      BY <3>1, PowNext DEF Bit
    <3>2. CASE k # 0
      <4>1. 1 \in 0 .. Pow2[1] - 1 /\ 1 \in Nat /\ k \in Nat /\ k >= 1
        BY <1>2, <3>2
      <4>2. Bit(1, k) = 0
        BY <4>1, BitHigh
      <4>. QED  BY <3>2, <4>2
    <3>. QED  BY <3>1, <3>2
  <2>4. Bit(Xor(1, 2 * h), k) = (Bit(1, k) + Bit(2 * h, k)) % 2
    BY <1>4
  <2>5. k < 1 \/ (~(k < 1) /\ k - 1 \in Nat)
    OBVIOUS
  <2>6. CASE k < 1
    <3>1. Bit(2 * h + 1, k) = 1 /\ Bit(2 * h, k) = 0 /\ Bit(1, k) = 1
      BY <2>1, <2>2, <2>3, <2>6, Zenon
    <3>. QED  BY <2>4, <3>1
  <2>7. CASE ~(k < 1)
    <3>1. Bit(2 * h + 1, k) = Bit(h, k - 1) /\ Bit(2 * h, k) = Bit(h, k - 1) /\ Bit(1, k) = 0
      BY <2>1, <2>2, <2>3, <2>7, Zenon
    <3>2. Bit(h, k - 1) \in 0 .. 1
      BY <2>7, BitType
    <3>. QED  BY <2>4, <3>1, <3>2
  <2>. QED  BY <2>6, <2>7
<1>6. PICK e \in Word(8), o \in Word(8) : e = Xor(1, 2 * h) /\ o = 2 * h + 1
  BY <1>1, <1>4
<1>7. IsWidth(8) /\ \A k \in 0 .. 8 - 1 : Bit(o, k) = Bit(e, k)
  BY <1>5, <1>6, Widths
<1>8. o = e
  BY <1>7, WordsEqual
<1>. QED  BY <1>1, <1>6, <1>8, Zenon

\* The branches of chrysler_checksum divide by 0x1D.
LEMMA ChryslerTurnIs ==
    ASSUME NEW x \in Word(8), NEW c \in 0 .. 1
    PROVE  ChryslerTurn(x, c) = Fed(x, c, 29, 128)
<1>1. x \in Int /\ 0 <= x /\ x <= 255
  BY WordIs
<1>2. PICK t \in 0 .. 1, h \in Int :
         0 <= h /\ 2 * h + 1 <= 255 /\ x \div 128 = t /\ (2 * x) % 256 = 2 * h
  <2>1. CASE x < 128
    <3>1. x \div 128 = 0 /\ (2 * x) % 256 = 2 * x
      BY <1>1, <2>1
    <3>. QED  BY <1>1, <2>1, <3>1
  <2>2. CASE x >= 128
    <3>1. x \div 128 = 1 /\ (2 * x) % 256 = 2 * (x - 128)
      BY <1>1, <2>2
    <3>. QED  BY <1>1, <2>2, <3>1
  <2>. QED  BY <1>1, <2>1, <2>2
<1>3. PICK d \in Word(8) : d = 2 * h /\ d + 1 = Xor(1, d)
  BY <1>2, EvenNext
<1>4. Fed(x, c, 29, 128) = IF (t + c) % 2 = 1 THEN Xor(d, 29) ELSE d
  <2>1. 2 * 128 = 256
    OBVIOUS
  <2>. QED  BY <1>2, <1>3, <2>1, Zenon DEF Fed
<1>5. ChryslerTurn(x, c) = IF c = 1 THEN Xor(IF t = 1 THEN 1 ELSE 28, Xor(1, d))
                                    ELSE Xor(IF t = 1 THEN 29 ELSE 0, d)
  BY <1>2, <1>3, ZenonT(40) DEF ChryslerTurn
<1>6. 1 \in Word(8) /\ 28 \in Word(8) /\ 29 \in Word(8) /\ 0 \in Word(8) /\ IsWidth(8)
  BY WordIs, Widths
<1>7. Xor(0, d) = d /\ Xor(29, d) = Xor(d, 29)
  BY <1>6, XorNone, XorSwap
<1>8. Xor(1, Xor(1, d)) = d
  <2>1. Xor(1, Xor(1, d)) = Xor(Xor(1, 1), d) /\ Xor(1, 1) = 0
    BY <1>6, XorJoin, XorSelf
  <2>. QED  BY <1>7, <2>1, Zenon
<1>9. Xor(28, Xor(1, d)) = Xor(d, 29)
  <2>1. Xor(28, Xor(1, d)) = Xor(Xor(28, 1), d) /\ Xor(28, 1) = Xor(1, 28)
    BY <1>6, XorJoin, XorSwap
  <2>2. Xor(1, 28) = 29
    <3>1. 2 * 14 + 1 = Xor(1, 2 * 14)
      BY EvenNext
    <3>2. 2 * 14 = 28 /\ 2 * 14 + 1 = 29
      OBVIOUS
    <3>. QED  BY <3>1, <3>2, Zenon
  <2>. QED  BY <1>7, <2>1, <2>2, Zenon
<1>10. CASE c = 1
  <2>1. CASE t = 1
    <3>1. (t + c) % 2 # 1
      BY <1>10, <2>1
    <3>. QED  BY <1>4, <1>5, <1>8, <1>10, <2>1, <3>1, Zenon
  <2>2. CASE t = 0
    <3>1. (t + c) % 2 = 1 /\ t # 1
      BY <1>10, <2>2
    <3>. QED  BY <1>4, <1>5, <1>9, <1>10, <2>2, <3>1, Zenon
  <2>. QED  BY <2>1, <2>2
<1>11. CASE c = 0
  <2>0. c # 1
    BY <1>11
  <2>1. CASE t = 1
    <3>1. (t + c) % 2 = 1
      BY <1>11, <2>1
    <3>. QED  BY <1>4, <1>5, <1>7, <2>0, <2>1, <3>1, Zenon
  <2>2. CASE t = 0
    <3>1. (t + c) % 2 # 1 /\ t # 1
      BY <1>11, <2>2
    <3>. QED  BY <1>4, <1>5, <1>7, <2>0, <3>1, Zenon
  <2>. QED  BY <2>1, <2>2
<1>. QED  BY <1>10, <1>11

LEMMA ChryslerByteIs ==
    ASSUME NEW x \in Word(8), NEW b \in Word(8)
    PROVE  ChryslerByte[x][b] = FedByte(29, 128)[x][b]
<1>1. x \in Nat /\ b \in Nat
  BY Widths, WordInt
<1>2. ASSUME NEW n \in 1 .. 8, NEW y \in Word(8)
      PROVE  /\ FedBit(29, 128)[y][BitsOf(b)[n]] \in Word(8)
             /\ ChryslerBit[y][BitsOf(b)[n]] = FedBit(29, 128)[y][BitsOf(b)[n]]
  <2>1. PICK c \in 0 .. 1 : c = BitsOf(b)[n]
    <3>1. 8 - n \in 0 .. 8 - 1
      OBVIOUS
    <3>2. Bit(b, 8 - n) \in 0 .. 1
      BY <3>1, Widths, WordBit
    <3>. QED  BY <3>2, BitsOfIs
  <2>2. y \in Nat /\ c \in Nat
    BY Widths, WordInt
  <2>3. FedBit(29, 128)[y][c] = Fed(y, c, 29, 128) /\ ChryslerBit[y][c] = ChryslerTurn(y, c)
    BY <2>2, Zenon DEF FedBit, ChryslerBit
  <2>4. Fed(y, c, 29, TopBit(8)) \in Word(8)
    BY Widths, Polynomials, FedType
  <2>5. ChryslerTurn(y, c) = Fed(y, c, 29, 128)
    BY ChryslerTurnIs
  <2>. QED  BY <2>1, <2>3, <2>4, <2>5, Top8
<1>3. 8 \in Nat /\ Len(BitsOf(b)) = 8
  BY BitsOfIs
<1>4. Loop(ChryslerBit, x, BitsOf(b)) = Loop(FedBit(29, 128), x, BitsOf(b))
  <2>1. PICK N, e : N \in Nat /\ N = 8 /\ e = BitsOf(b) /\ Len(e) = N
    BY <1>3
  <2>2. PICK step, other, R : step = FedBit(29, 128) /\ other = ChryslerBit /\ R = Word(8) /\ x \in R
    OBVIOUS
  <2>3. Agree(N, step, e, other, e, R)
    BY <1>2, <2>1, <2>2, Zenon DEF Agree
  <2>4. Loop(other, x, e) = Loop(step, x, e)
    <3>1. N \in Nat /\ x \in R /\ Len(e) = N
      BY <2>1, <2>2
    <3>. QED  BY <2>3, <3>1, LoopsAgree, SMT
  <2>. QED  BY <2>1, <2>2, <2>4, Zenon
<1>5. ChryslerByte[x][b] = Loop(ChryslerBit, x, BitsOf(b)) /\ FedByte(29, 128)[x][b] = Loop(FedBit(29, 128), x, BitsOf(b))
  BY <1>1, Zenon DEF ChryslerByte, FedByte
<1>. QED  BY <1>4, <1>5, Zenon

\* Exclusive or of words, by their bytes.
LEMMA XorBytes ==
    ASSUME NEW x \in Word(8), NEW y \in Word(8)
    PROVE  XorByte[x][y] = Xor(x, y) /\ Xor(x, y) \in Word(8)
<1>1. x \in Word(16) /\ y \in Word(16)
  BY Widths, WordInt
<1>2. x \div 256 = 0 /\ y \div 256 = 0 /\ x = 256 * (x \div 256) + (x % 256) /\ y = 256 * (y \div 256) + (y % 256)
  BY <1>1, Halves
<1>3. x \in Int /\ y \in Int
  BY WordIs
<1>4. x % 256 = x /\ y % 256 = y
  <2>1. PICK p \in Int, q \in Int : p = x % 256 /\ q = y % 256
    BY <1>3
  <2>. QED  BY <1>2, <1>3, <2>1
<1>5. Xor(x, y) = 256 * 0 + XorByte[x][y]
  BY <1>2, <1>4, XorZero, ZenonT(40) DEF Xor
<1>6. XorByte[x][y] \in Word(8)
  BY XorByteBits
<1>7. PICK z \in Word(8) : z = XorByte[x][y] /\ z \in Int
  BY <1>6, WordIs
<1>. QED  BY <1>5, <1>7

LEMMA XorHalves ==
    ASSUME NEW h \in Word(8), NEW l \in Word(8), NEW g \in Word(8), NEW m \in Word(8)
    PROVE  Xor(256 * h + l, 256 * g + m) = 256 * Xor(h, g) + Xor(l, m)
<1>1. ASSUME NEW a \in Word(8), NEW b \in Word(8)
      PROVE  (256 * a + b) \div 256 = a /\ (256 * a + b) % 256 = b
  <2>1. a \in Int /\ b \in Int /\ 0 <= b /\ b <= 255
    BY WordIs
  <2>2. b \in 0 .. 256 - 1 /\ 256 \in Nat \ {0} /\ 256 * a + b \in Int
    BY <2>1
  <2>. QED  BY <2>1, <2>2, DivIs
<1>2. XorByte[h][g] = Xor(h, g) /\ XorByte[l][m] = Xor(l, m)
  BY XorBytes
<1>3. PICK x, y : x = 256 * h + l /\ y = 256 * g + m
  OBVIOUS
<1>4. x \div 256 = h /\ x % 256 = l /\ y \div 256 = g /\ y % 256 = m
  BY <1>1, <1>3
<1>5. PICK p, q : p = Xor(h, g) /\ q = Xor(l, m)
  OBVIOUS
<1>6. XorByte[h][g] = p /\ XorByte[l][m] = q
  BY <1>2, <1>5, Zenon
<1>7. Xor(x, y) = 256 * p + q
  BY <1>4, <1>6, ZenonT(40) DEF Xor
<1>. QED  BY <1>3, <1>5, <1>7, Zenon

LEMMA LowPowers == \A n \in 0 .. 7 : Pow2[n] <= 128
<1>1. /\ Pow2[0] = 1 /\ Pow2[0 + 1] = 2 * Pow2[0] /\ Pow2[1 + 1] = 2 * Pow2[1] /\ Pow2[2 + 1] = 2 * Pow2[2]
      /\ Pow2[3 + 1] = 2 * Pow2[3] /\ Pow2[4 + 1] = 2 * Pow2[4] /\ Pow2[5 + 1] = 2 * Pow2[5]
      /\ Pow2[6 + 1] = 2 * Pow2[6]
  BY PowNext
<1>. QED  BY <1>1

LEMMA ProductBound ==
    ASSUME NEW p \in Nat, p <= 128, NEW l \in Int, 0 <= l, l <= 255
    PROVE  0 <= p * l /\ p * l <= 32640 /\ 2 * (p * l) = (2 * p) * l
<1>1. p * l <= 128 * l /\ 0 <= p * l
  OBVIOUS
<1>. QED  BY <1>1

\* Eight turns of a byte at the low end of 16 bits only shift it.
LEMMA LowByteShifts ==
    ASSUME NEW l \in Word(8), NEW poly \in Word(16)
    PROVE  TurnsOf(16, poly)[l] = 256 * l
<1>. DEFINE step == Shifting(poly, TopBit(16))
            Inv  == {t \in (0 .. 8) \X Int : t[2] = Pow2[t[1]] * l}
<1>1. l \in Int /\ 0 <= l /\ l <= 255 /\ l \in Word(16)
  BY WordIs
<1>2. ASSUME NEW x \in Int, 0 <= x, x <= 32640, NEW n \in 1 .. 8
      PROVE  step[x][EightTurns[n]] = 2 * x
  <2>1. x \in Nat /\ EightTurns[n] \in Nat
    BY <1>2, EightIs
  <2>2. step[x][EightTurns[n]] = Shifted(x, poly, TopBit(16))
    BY <2>1, Zenon DEF Shifting
  <2>3. PICK t : t = TopBit(16) /\ t = 32768
    BY Tops
  <2>4. ~(x >= t) /\ (2 * x) % (2 * t) = 2 * x
    BY <1>2, <2>3
  <2>5. Shifted(x, poly, t) = 2 * x
    BY <2>4, Zenon DEF Shifted
  <2>. HIDE DEF step
  <2>. QED  BY <2>2, <2>3, <2>5
<1>3. <<0, l>> \in Inv
  BY <1>1, PowNext
<1>. HIDE DEF step
<1>4. ASSUME NEW n \in 1 .. 8, NEW x, <<n - 1, x>> \in Inv
      PROVE  <<n, step[x][EightTurns[n]]>> \in Inv
  <2>1. PICK p \in Nat : p = Pow2[n - 1] /\ p <= 128 /\ Pow2[n] = 2 * p
    <3>1. n - 1 \in 0 .. 7 /\ n - 1 + 1 = n
      OBVIOUS
    <3>2. Pow2[n - 1] <= 128
      BY <3>1, LowPowers
    <3>. QED  BY <3>1, <3>2, PowNat, PowNext
  <2>2. x \in Int /\ x = p * l
    BY <1>4, <2>1
  <2>3. 0 <= x /\ x <= 32640 /\ 2 * x = (2 * p) * l
    BY <1>1, <2>1, <2>2, ProductBound
  <2>4. PICK y : y = step[x][EightTurns[n]] /\ y = 2 * x
    BY <1>2, <2>2, <2>3
  <2>5. n \in 0 .. 8 /\ y \in Int /\ y = Pow2[n] * l
    BY <2>1, <2>2, <2>3, <2>4
  <2>6. <<n, y>> \in Inv
    BY <2>5
  <2>. QED  BY <2>4, <2>6, Zenon
<1>. HIDE DEF Inv
<1>5. PICK N, e : N \in Nat /\ N = 8 /\ e = EightTurns /\ Len(e) = N
  BY EightIs
<1>6. \A n \in 1 .. N : \A x : <<n - 1, x>> \in Inv => <<n, step[x][e[n]]>> \in Inv
  BY <1>4, <1>5, Zenon
<1>7. <<N, Loop(step, l, e)>> \in Inv
  BY <1>3, <1>5, <1>6, LoopKeeps, Zenon
<1>8. <<8, Loop(step, l, EightTurns)>> \in Inv
  BY <1>5, <1>7, Zenon
<1>9. Loop(step, l, EightTurns) = 256 * l
  BY <1>8, PowWord DEF Inv
<1>10. TurnsOf(16, poly)[l] = Loop(step, l, EightTurns)
  BY <1>1, Widths, TableIs DEF step
<1>. QED  BY <1>9, <1>10, Zenon

\* The table of the hyundai checksum, which has the high byte alone, divides.
LEMMA HkgByteIs ==
    ASSUME NEW x \in Word(16), NEW b \in Word(8)
    PROVE  HkgByte[x][b] = FedByte(4129, 32768)[x][b]
<1>1. PICK h \in Word(8), l \in Word(8) : h = x \div 256 /\ l = x % 256 /\ x = 256 * h + l
  BY Halves
<1>2. PICK j \in Word(8) : j = Xor(h, b)
  BY XorBytes
<1>3. 0 \in Word(8)
  BY WordIs
<1>4. PICK p \in Word(16), q \in Word(16) : p = 256 * b /\ q = 256 * j /\ l \in Word(16)
  <2>1. /\ b \in Int /\ 0 <= b /\ b <= 255 /\ j \in Int /\ 0 <= j /\ j <= 255
        /\ l \in Word(16)
    BY WordIs
  <2>2. PICK u \in Int, v \in Int : u = 256 * b /\ v = 256 * j /\ 0 <= u /\ u <= 65535 /\ 0 <= v /\ v <= 65535
    BY <2>1
  <2>3. u \in Word(16) /\ v \in Word(16)
    BY <2>2, WordIs
  <2>. QED  BY <2>1, <2>2, <2>3
<1>5. Xor(x, p) = Xor(q, l)
  <2>1. Xor(256 * h + l, 256 * b + 0) = 256 * Xor(h, b) + Xor(l, 0)
    BY <1>3, XorHalves
  <2>2. Xor(256 * j + 0, 256 * 0 + l) = 256 * Xor(j, 0) + Xor(0, l)
    BY <1>3, XorHalves
  <2>3. Xor(l, 0) = l /\ Xor(j, 0) = j /\ Xor(0, l) = l
    BY Widths, XorNone
  <2>4. 256 * b + 0 = p /\ 256 * j + 0 = q /\ 256 * 0 + l = l
    <3>1. b \in Int /\ j \in Int /\ l \in Int
      BY WordIs
    <3>. QED  BY <1>4, <3>1
  <2>5. Xor(x, p) = 256 * j + l
    <3>1. Xor(x, p) = Xor(256 * h + l, 256 * b + 0)
      BY <1>1, <2>4
    <3>2. 256 * Xor(h, b) + Xor(l, 0) = 256 * j + l
      BY <1>2, <2>3
    <3>. QED  BY <2>1, <3>1, <3>2, Zenon
  <2>6. Xor(q, l) = 256 * j + l
    BY <2>2, <2>3, <2>4, Zenon
  <2>. QED  BY <2>5, <2>6, Zenon
<1>6. PICK poly, t : poly \in Word(16) /\ poly = 4129 /\ t = 32768 /\ t = TopBit(16)
  BY XmodemPolynomial, Tops
<1>7. poly \in Word(16)
  BY <1>6
<1>8. TurnsOf(16, poly)[Xor(q, l)] = Xor(256 * l, TurnsOf(16, poly)[q])
  <2>1. TurnsOf(16, poly)[Xor(q, l)] = Xor(TurnsOf(16, poly)[q], TurnsOf(16, poly)[l])
    BY <1>4, <1>7, Widths, TableAdds
  <2>2. PICK y \in Word(16), z \in Word(16) : y = TurnsOf(16, poly)[q] /\ z = TurnsOf(16, poly)[l]
    BY <1>4, <1>7, Widths, TableIs
  <2>3. z = 256 * l
    BY <1>6, <2>2, LowByteShifts
  <2>4. Xor(y, z) = Xor(z, y)
    BY Widths, XorSwap
  <2>. QED  BY <2>1, <2>2, <2>3, <2>4, Zenon
<1>9. FedByte(poly, t)[x][b] = TurnsOf(16, poly)[Xor(x, p)]
  <2>1. AtTop(16, b) = p
    BY <1>4 DEF AtTop
  <2>2. FedByte(poly, TopBit(16))[x][b] = TurnsOf(16, poly)[Xor(x, AtTop(16, b))]
    BY <1>6, Widths, FedByteIs
  <2>. QED  BY <1>6, <2>1, <2>2
<1>10. HkgByte[x][b] = Xor(256 * l, TurnsOf(16, poly)[q])
  <2>1. x \in Nat /\ b \in Nat
    BY Widths, WordInt
  <2>2. HkgByte[x][b] = HkgTurn(x, b)
    BY <2>1, Zenon DEF HkgByte
  <2>3. HkgTurn(x, b) = Xor(256 * l, crc16_lut_xmodem[j])
    BY <1>1, <1>2, Zenon DEF HkgTurn
  <2>4. crc16_lut_xmodem[j] = TurnsOf(16, poly)[q]
    <3>1. j \in 0 .. 255
      BY ByteIsWord
    <3>2. crc16_lut_xmodem[j] = EightTimes(4129, 32768)[256 * j]
      BY <3>1 DEF crc16_lut_xmodem
    <3>3. EightTimes(4129, 32768) = TurnsOf(16, poly)
      BY <1>6 DEF TurnsOf
    <3>. QED  BY <1>4, <3>2, <3>3
  <2>. QED  BY <2>2, <2>3, <2>4, Zenon
<1>11. HkgByte[x][b] = FedByte(poly, t)[x][b]
  BY <1>5, <1>8, <1>9, <1>10, Zenon
<1>. QED  BY <1>6, <1>11

\* The bytes a loop runs over.
IsItems(e, N) == N \in Nat /\ Len(e) = N /\ \A n \in 1 .. N : e[n] \in Word(8)

LEMMA BytesAre ==
    ASSUME NEW d, NEW L, IsBytes(d, L)
    PROVE  d \in Seq(Word(8)) /\ Len(d) = L /\ L \in Nat /\ IsItems(d, L)
<1>1. d \in Seq(Word(8)) /\ Len(d) = L
  BY ByteIsWord, Zenon DEF IsBytes
<1>2. L \in Nat
  BY <1>1
<1>3. \A n \in 1 .. L : d[n] \in Word(8)
  BY <1>1, ElementIs
<1>. QED  BY <1>1, <1>2, <1>3, Zenon DEF IsItems

LEMMA FrontIs ==
    ASSUME NEW d, NEW L \in Nat \ {0}, IsBytes(d, L)
    PROVE  IsItems(Front(d), L - 1) /\ \A n \in 1 .. L - 1 : Front(d)[n] = d[n]
<1>1. d \in Seq(Word(8)) /\ Len(d) = L /\ \A n \in 1 .. L : d[n] \in Word(8)
  BY BytesAre DEF IsItems
<1>2. Front(d) = SubSeq(d, 1, L - 1)
  BY <1>1, Zenon DEF Front
<1>3. Len(SubSeq(d, 1, L - 1)) = L - 1 /\ \A n \in 1 .. L - 1 : SubSeq(d, 1, L - 1)[n] = d[n]
  <2>1. L - 1 \in 0 .. Len(d)
    BY <1>1
  <2>. QED  BY <1>1, <2>1, SubSeqIs
<1>4. L - 1 \in Nat /\ \A n \in 1 .. L - 1 : n \in 1 .. L
  OBVIOUS
<1>. QED  BY <1>1, <1>2, <1>3, <1>4, Zenon DEF IsItems

LEMMA TailIs ==
    ASSUME NEW d, NEW L \in Nat \ {0}, IsBytes(d, L)
    PROVE  IsItems(Tail(d), L - 1) /\ \A n \in 1 .. L - 1 : Tail(d)[n] = d[n + 1]
<1>1. d \in Seq(Word(8)) /\ Len(d) = L /\ \A n \in 1 .. L : d[n] \in Word(8)
  BY BytesAre DEF IsItems
<1>2. Len(Tail(d)) = L - 1 /\ \A n \in 1 .. L - 1 : Tail(d)[n] = d[n + 1]
  <2>1. d # << >>
    BY <1>1
  <2>. QED  BY <1>1, <2>1
<1>3. L - 1 \in Nat /\ \A n \in 1 .. L - 1 : n + 1 \in 1 .. L
  OBVIOUS
<1>. QED  BY <1>1, <1>2, <1>3, Zenon DEF IsItems

LEMMA BackIs ==
    ASSUME NEW d, NEW L \in Nat \ {0}, IsBytes(d, L)
    PROVE  IsItems(Reverse(Front(d)), L - 1) /\ \A n \in 1 .. L - 1 : Reverse(Front(d))[n] = d[L - n]
<1>1. PICK e : e = Front(d) /\ IsItems(e, L - 1) /\ \A n \in 1 .. L - 1 : e[n] = d[n]
  BY FrontIs
<1>2. Len(e) = L - 1 /\ \A n \in 1 .. L - 1 : e[n] \in Word(8)
  BY <1>1 DEF IsItems
<1>3. Reverse(e) = [n \in 1 .. L - 1 |-> e[((L - 1) - n) + 1]]
  BY <1>2, Zenon DEF Reverse
<1>4. PICK f : f = Reverse(e) /\ f = [n \in 1 .. L - 1 |-> e[((L - 1) - n) + 1]]
  BY <1>3
<1>5. Len(f) = L - 1 /\ \A n \in 1 .. L - 1 : f[n] = e[((L - 1) - n) + 1]
  BY <1>4
<1>6. \A n \in 1 .. L - 1 : ((L - 1) - n) + 1 \in 1 .. L - 1 /\ ((L - 1) - n) + 1 = L - n
  OBVIOUS
<1>7. \A n \in 1 .. L - 1 : f[n] = d[L - n] /\ f[n] \in Word(8)
  BY <1>1, <1>2, <1>5, <1>6, Zenon
<1>. QED  BY <1>1, <1>4, <1>5, <1>7 DEF IsItems

\* What the hyundai checksum reads: the bytes after its own two, and two of the
\* address.
RestLen(L) == IF L >= 2 THEN L ELSE 2

IsRest(e, d, L, a, b) ==
    LET N == RestLen(L) IN
    /\ IsItems(e, N) /\ e[N - 1] = a /\ e[N] = b
    /\ \A n \in 1 .. N - 2 : e[n] = d[n + 2]

LEMMA RestIs ==
    ASSUME NEW d, NEW L \in Nat \ {0}, IsBytes(d, L), NEW a \in Word(8), NEW b \in Word(8)
    PROVE  IsRest(SubSeq(d, 3, Len(d)) \o <<a, b>>, d, L, a, b)
<1>1. d \in Seq(Word(8)) /\ Len(d) = L /\ \A n \in 1 .. L : d[n] \in Word(8)
  BY BytesAre DEF IsItems
<1>2. PICK N, c : N \in Nat /\ N = RestLen(L) /\ N >= 2 /\ c = SubSeq(d, 3, L)
  <2>1. RestLen(L) \in Nat /\ RestLen(L) >= 2
    BY DEF RestLen
  <2>. QED  BY <2>1, Zenon
<1>3. c \in Seq(Word(8)) /\ Len(c) = N - 2 /\ \A n \in 1 .. N - 2 : c[n] = d[n + 2]
  <2>1. CASE L >= 2
    BY <1>1, <1>2, <2>1 DEF RestLen
  <2>2. CASE L < 2
    <3>1. L = 1 /\ N = 2
      BY <1>2, <2>2 DEF RestLen
    <3>2. c = << >>
      BY <1>1, <1>2, <3>1
    <3>. QED  BY <3>1, <3>2
  <2>. QED  BY <2>1, <2>2
<1>4. PICK e : e = c \o <<a, b>>
  OBVIOUS
<1>5. /\ Len(e) = N /\ \A n \in 1 .. N - 2 : e[n] = c[n]
      /\ e[N - 1] = a /\ e[N] = b
  <2>0. <<a, b>> \in Seq(Word(8)) /\ Len(<<a, b>>) = 2 /\ <<a, b>>[1] = a /\ <<a, b>>[2] = b
    OBVIOUS
  <2>1. PICK t : t = <<a, b>> /\ t \in Seq(Word(8)) /\ Len(t) = 2 /\ t[1] = a /\ t[2] = b
    BY <2>0, Zenon
  <2>2. Len(c \o t) = Len(c) + Len(t) /\ \A n \in 1 .. Len(c) + Len(t) : (c \o t)[n] = IF n <= Len(c) THEN c[n] ELSE t[n - Len(c)]
    BY <1>3, <2>1
  <2>3. e = c \o t
    BY <1>4, <2>1, Zenon
  <2>4. Len(e) = N /\ \A n \in 1 .. N : e[n] = IF n <= N - 2 THEN c[n] ELSE t[n - (N - 2)]
    BY <1>2, <1>3, <2>1, <2>2, <2>3
  <2>5. \A n \in 1 .. N - 2 : e[n] = c[n]
    BY <2>4
  <2>6. e[N - 1] = t[1] /\ e[N] = t[2]
    <3>1. /\ N - 1 \in 1 .. N /\ ~(N - 1 <= N - 2) /\ (N - 1) - (N - 2) = 1
          /\ N \in 1 .. N /\ ~(N <= N - 2) /\ N - (N - 2) = 2
      BY <1>2
    <3>. QED  BY <2>4, <3>1, Zenon
  <2>. QED  BY <2>1, <2>4, <2>5, <2>6, Zenon
<1>6. \A n \in 1 .. N : e[n] \in Word(8)
  <2>1. ASSUME NEW n \in 1 .. N
        PROVE  e[n] \in Word(8)
    <3>1. n \in 1 .. N - 2 \/ n = N - 1 \/ n = N
      BY <1>2
    <3>2. n \in 1 .. N - 2 => c[n] \in Word(8)
      BY <1>3
    <3>. QED  BY <1>5, <3>1, <3>2, Zenon
  <2>. QED  BY <2>1
<1>. QED  BY <1>1, <1>2, <1>3, <1>4, <1>5, <1>6, Zenon DEF IsItems, IsRest

-----------------------------------------------------------------------------
\* A loop whose step divides is the remainder.
Divides(step, w, poly, top) ==
    /\ top = TopBit(w)
    /\ \A x \in Word(w), b \in Word(8) : step[x][b] = FedByte(poly, top)[x][b]

LEMMA SameRemainder ==
    ASSUME NEW w, IsWidth(w), NEW poly \in Word(w), NEW N, NEW e, IsItems(e, N), NEW start \in Word(w), NEW step,
           NEW top, Divides(step, w, poly, top)
    PROVE  Loop(step, start, e) = Remainder(e, start, poly, top) /\ Loop(step, start, e) \in Word(w)
<1>1. N \in Nat /\ Len(e) = N /\ \A n \in 1 .. N : e[n] \in Word(8)
  BY DEF IsItems
<1>2. PICK fed, R : fed = FedByte(poly, top) /\ R = Word(w)
  OBVIOUS
<1>3. ASSUME NEW x \in Word(w), NEW b \in Word(8)
      PROVE  fed[x][b] \in Word(w)
  <2>1. AtTop(w, b) \in Word(w)
    BY AtTopBits
  <2>2. Xor(x, AtTop(w, b)) \in Word(w)
    BY <2>1, XorType
  <2>3. fed[x][b] = TurnsOf(w, poly)[Xor(x, AtTop(w, b))]
    BY <1>2, FedByteIs DEF Divides
  <2>. QED  BY <2>2, <2>3, TableIs
<1>4. Agree(N, fed, e, step, e, R)
  <2>1. ASSUME NEW n \in 1 .. N, NEW x \in R
        PROVE  fed[x][e[n]] \in R /\ step[x][e[n]] = fed[x][e[n]]
    BY <1>1, <1>2, <1>3, Zenon DEF Divides
  <2>. QED  BY <2>1, Zenon DEF Agree
<1>5. start \in R
  BY <1>2
<1>6. Loop(step, start, e) = Loop(fed, start, e) /\ Loop(fed, start, e) \in R
  BY <1>1, <1>4, <1>5, LoopsAgree, SMT
<1>. QED  BY <1>2, <1>6, Zenon DEF Remainder

\* The four checksums that are CRCs, of any frame.
CrcsOf(address, d) ==
    /\ ChryslerChecksum(d) = Xor(Remainder(Front(d), 255, 29, 128), 255)
    /\ VolkswagenPayload(d) = Remainder(Tail(d), 255, 47, 128)
    /\ PedalChecksum(d) = Remainder(Reverse(Front(d)), 255, 213, 128)
    /\ HkgCanFdChecksum(address, d) =
          Xor(Remainder(SubSeq(d, 3, Len(d)) \o <<address % 256, (address \div 256) % 256>>, 0, 4129, 32768),
              HkgFinalXor(Len(d)))

LEMMA AddressBytes ==
    ASSUME NEW address \in Nat
    PROVE  address % 256 \in Word(8) /\ (address \div 256) % 256 \in Word(8)
<1>1. PICK r \in Int, q \in Int : r = address % 256 /\ q = address \div 256 /\ 0 <= r /\ r <= 255
  OBVIOUS
<1>2. PICK t \in Int : t = q % 256 /\ 0 <= t /\ t <= 255
  BY <1>1
<1>3. r \in Word(8) /\ t \in Word(8)
  BY <1>1, <1>2, WordIs
<1>. QED  BY <1>1, <1>2, <1>3, Zenon

LEMMA CrcsAre ==
    ASSUME NEW d, NEW L \in Nat \ {0}, IsBytes(d, L), NEW address \in Nat
    PROVE  CrcsOf(address, d)
<1>1. 255 \in Word(8) /\ 0 \in Word(16) /\ IsWidth(8) /\ IsWidth(16)
  BY WordIs, Widths
<1>2. /\ Divides(ChryslerByte, 8, 29, 128) /\ Divides(VolkswagenByte, 8, 47, 128)
      /\ Divides(PedalByte, 8, 213, 128)
  BY ChryslerByteIs, ByteTables, Top8 DEF Divides
<1>3. Divides(HkgByte, 16, 4129, 32768)
  BY HkgByteIs, Tops DEF Divides
<1>4. /\ Loop(ChryslerByte, 255, Front(d)) = Remainder(Front(d), 255, 29, 128)
      /\ Loop(VolkswagenByte, 255, Tail(d)) = Remainder(Tail(d), 255, 47, 128)
      /\ Loop(PedalByte, 255, Reverse(Front(d))) = Remainder(Reverse(Front(d)), 255, 213, 128)
  <2>1. IsItems(Front(d), L - 1) /\ IsItems(Tail(d), L - 1) /\ IsItems(Reverse(Front(d)), L - 1)
    BY FrontIs, TailIs, BackIs
  <2>. QED  BY <1>1, <1>2, <2>1, Polynomials, SameRemainder
<1>5. PICK e : e = SubSeq(d, 3, Len(d)) \o <<address % 256, (address \div 256) % 256>>
  OBVIOUS
<1>6. IsItems(e, RestLen(L))
  BY <1>5, AddressBytes, RestIs DEF IsRest
<1>7. Loop(HkgByte, 0, e) = Remainder(e, 0, 4129, 32768)
  BY <1>1, <1>3, <1>6, XmodemPolynomial, SameRemainder
<1>8. ChryslerChecksum(d) = Xor(Remainder(Front(d), 255, 29, 128), 255)
  BY <1>4, Zenon DEF ChryslerChecksum
<1>9. VolkswagenPayload(d) = Remainder(Tail(d), 255, 47, 128)
  BY <1>4, Zenon DEF VolkswagenPayload
<1>10. PedalChecksum(d) = Remainder(Reverse(Front(d)), 255, 213, 128)
  BY <1>4, Zenon DEF PedalChecksum
<1>11. HkgCanFdChecksum(address, d) =
          Xor(Remainder(SubSeq(d, 3, Len(d)) \o <<address % 256, (address \div 256) % 256>>, 0, 4129, 32768),
              HkgFinalXor(Len(d)))
  BY <1>5, <1>7 DEF HkgCanFdChecksum
<1>. QED  BY <1>8, <1>9, <1>10, <1>11 DEF CrcsOf

-----------------------------------------------------------------------------
(***************************************************************************)
(* 11. Loops over frames that agree, and over frames that differ in a byte.*)
(***************************************************************************)
\* The same items make the same of a register.
LEMMA LoopSame ==
    ASSUME NEW N, NEW e, NEW f, IsItems(e, N), IsItems(f, N), \A n \in 1 .. N : e[n] = f[n],
           NEW step, NEW start
    PROVE  Loop(step, start, e) = Loop(step, start, f)
<1>1. N \in Nat /\ Len(e) = N /\ Len(f) = N
  BY DEF IsItems
<1>2. Len(e) \in Nat
  BY <1>1
<1>3. PICK V : /\ V[0] = start
               /\ \A n \in 1 .. Len(e) : V[n] = step[V[n - 1]][e[n]]
               /\ Loop(step, start, e) = V[Len(e)]
  BY <1>2, LoopRuns
<1>. DEFINE Inv == {<<n, V[n]>> : n \in 0 .. N}
<1>4. <<0, start>> \in Inv
  BY <1>1, <1>3
<1>5. ASSUME NEW n \in 1 .. N, NEW x, <<n - 1, x>> \in Inv
      PROVE  <<n, step[x][f[n]]>> \in Inv
  <2>1. x = V[n - 1]
    BY <1>5
  <2>2. V[n] = step[x][f[n]]
    BY <1>1, <1>3, <2>1, Zenon
  <2>3. n \in 0 .. N
    BY <1>1
  <2>. QED  BY <2>2, <2>3
<1>. HIDE DEF Inv
<1>6. <<N, Loop(step, start, f)>> \in Inv
  BY <1>1, <1>4, <1>5, LoopKeeps, Zenon
<1>7. Loop(step, start, f) = V[N]
  BY <1>6 DEF Inv
<1>. QED  BY <1>1, <1>3, <1>7, Zenon

-----------------------------------------------------------------------------
\* Sums.
LEMMA TotalNat ==
    ASSUME NEW N \in Nat, NEW e, Len(e) = N, \A n \in 1 .. N : e[n] \in Nat
    PROVE  Total(e) \in Nat
<1>1. ASSUME NEW n \in 1 .. N, NEW s \in Nat
      PROVE  Adding[s][e[n]] \in Nat
  <2>1. Adding[s][e[n]] = s + e[n]
    BY Zenon DEF Adding
  <2>. QED  BY <2>1
<1>2. 0 \in Nat /\ \A n \in 1 .. N : \A s \in Nat : Adding[s][e[n]] \in Nat
  BY <1>1
<1>3. Loop(Adding, 0, e) \in Nat
  BY <1>2, LoopType, Zenon
<1>. QED  BY <1>3, Zenon DEF Total

\* One item more or less.
LEMMA TotalChanges ==
    ASSUME NEW N \in Nat, NEW e, NEW f, Len(e) = N, Len(f) = N,
           \A n \in 1 .. N : e[n] \in Nat /\ f[n] \in Nat,
           NEW i \in 1 .. N, NEW c \in Int, f[i] = e[i] + c, \A n \in 1 .. N : n # i => f[n] = e[n]
    PROVE  Total(f) = Total(e) + c
<1>. DEFINE Rel == {t \in (0 .. N) \X Nat \X Nat : t[3] = t[2] + (IF t[1] >= i THEN c ELSE 0)}
<1>1. <<0, 0, 0>> \in Rel
  OBVIOUS
<1>2. ASSUME NEW n \in 1 .. N, NEW x, NEW y, <<n - 1, x, y>> \in Rel
      PROVE  <<n, Adding[x][e[n]], Adding[y][f[n]]>> \in Rel
  <2>1. x \in Nat /\ y \in Nat /\ y = x + (IF n - 1 >= i THEN c ELSE 0)
    BY <1>2
  <2>2. Adding[x][e[n]] = x + e[n] /\ Adding[y][f[n]] = y + f[n]
    BY <2>1, Zenon DEF Adding
  <2>3. PICK u \in Nat, v \in Nat : u = Adding[x][e[n]] /\ v = Adding[y][f[n]]
    BY <2>1, <2>2
  <2>4. n \in 0 .. N /\ v = u + (IF n >= i THEN c ELSE 0)
    <3>1. CASE n = i
      BY <2>1, <2>2, <2>3, <3>1
    <3>2. CASE n # i
      <4>1. f[n] = e[n] /\ (n >= i <=> n - 1 >= i)
        BY <3>2
      <4>. QED  BY <2>1, <2>2, <2>3, <4>1
    <3>. QED  BY <3>1, <3>2
  <2>5. <<n, u, v>> \in Rel
    BY <2>4
  <2>. QED  BY <2>3, <2>5, Zenon
<1>3. Kept(Rel, N, Adding, e, Adding, f)
  <2>. HIDE DEF Rel
  <2>. QED  BY <1>2, Zenon DEF Kept
<1>4. <<N, Loop(Adding, 0, e), Loop(Adding, 0, f)>> \in Rel
  <2>. HIDE DEF Rel
  <2>. QED  BY <1>1, <1>3, LoopsRelate, Zenon
<1>5. <<N, Total(e), Total(f)>> \in Rel
  BY <1>4, Zenon DEF Total
<1>. QED  BY <1>5

-----------------------------------------------------------------------------
\* The steps of the other checksums lose nothing.
LEMMA DividesLossless ==
    ASSUME NEW w, IsWidth(w), NEW poly \in Word(w), Bit(poly, 0) = 1, NEW step, NEW top, Divides(step, w, poly, top)
    PROVE  Lossless(step, Word(w), Word(8))
<1>1. PICK fed : fed = FedByte(poly, top) /\ Lossless(fed, Word(w), Word(8))
  BY FedLossless DEF Divides
<1>2. \A x \in Word(w), b \in Word(8) : step[x][b] = fed[x][b]
  BY <1>1, Zenon DEF Divides
<1>3. KeepsRegister(step, Word(w), Word(8))
  <2>1. KeepsRegister(fed, Word(w), Word(8))
    BY <1>1, Zenon DEF Lossless
  <2>2. ASSUME NEW x \in Word(w), NEW y \in Word(w), NEW b \in Word(8), step[x][b] = step[y][b]
        PROVE  x = y
    <3>1. fed[x][b] = fed[y][b]
      BY <1>2, <2>2, Zenon
    <3>. QED  BY <2>1, <3>1, Zenon DEF KeepsRegister
  <2>3. ASSUME NEW x \in Word(w), NEW b \in Word(8)
        PROVE  step[x][b] \in Word(w)
    BY <1>2, <2>1, Zenon DEF KeepsRegister
  <2>. QED  BY <2>2, <2>3, Zenon DEF KeepsRegister
<1>4. KeepsItem(step, Word(w), Word(8))
  <2>1. KeepsItem(fed, Word(w), Word(8))
    BY <1>1, Zenon DEF Lossless
  <2>2. ASSUME NEW x \in Word(w), NEW b \in Word(8), NEW c \in Word(8), step[x][b] = step[x][c]
        PROVE  b = c
    <3>1. fed[x][b] = fed[x][c]
      BY <1>2, <2>2, Zenon
    <3>. QED  BY <2>1, <3>1, Zenon DEF KeepsItem
  <2>. QED  BY <2>2, Zenon DEF KeepsItem
<1>. QED  BY <1>3, <1>4, Zenon DEF Lossless

LEMMA StepsDivide ==
    /\ Divides(ChryslerByte, 8, 29, 128) /\ Divides(VolkswagenByte, 8, 47, 128)
    /\ Divides(PedalByte, 8, 213, 128) /\ Divides(HkgByte, 16, 4129, 32768)
<1>1. /\ Divides(ChryslerByte, 8, 29, 128) /\ Divides(VolkswagenByte, 8, 47, 128)
      /\ Divides(PedalByte, 8, 213, 128)
  BY ChryslerByteIs, ByteTables, Top8 DEF Divides
<1>2. Divides(HkgByte, 16, 4129, 32768)
  BY HkgByteIs, Tops DEF Divides
<1>. QED  BY <1>1, <1>2

LEMMA StepsLossless ==
    /\ Lossless(ChryslerByte, Word(8), Word(8)) /\ Lossless(VolkswagenByte, Word(8), Word(8))
    /\ Lossless(PedalByte, Word(8), Word(8)) /\ Lossless(HkgByte, Word(16), Word(8))
<1>1. /\ Lossless(ChryslerByte, Word(8), Word(8)) /\ Lossless(VolkswagenByte, Word(8), Word(8))
      /\ Lossless(PedalByte, Word(8), Word(8))
  BY Widths, Polynomials, StepsDivide, DividesLossless
<1>2. Lossless(HkgByte, Word(16), Word(8))
  BY Widths, XmodemPolynomial, StepsDivide, DividesLossless
<1>. QED  BY <1>1, <1>2

\* Two loops over bytes that differ in one.
LEMMA OneItemDiffers ==
    ASSUME NEW step, NEW R, Lossless(step, R, Word(8)), NEW start \in R,
           NEW N, NEW e, NEW f, IsItems(e, N), IsItems(f, N),
           NEW i \in 1 .. N, e[i] # f[i], \A n \in 1 .. N : n # i => e[n] = f[n]
    PROVE  Loop(step, start, e) # Loop(step, start, f)
<1>1. PICK B : B = Word(8)
  OBVIOUS
<1>2. N \in Nat /\ Len(e) = N /\ Len(f) = N /\ \A n \in 1 .. N : e[n] \in B /\ f[n] \in B
  BY <1>1, Zenon DEF IsItems
<1>3. Lossless(step, R, B)
  BY <1>1, Zenon
<1>. QED  BY <1>2, <1>3, ItemsDiffer, Zenon

\* The register of a loop over bytes.
LEMMA LosslessType ==
    ASSUME NEW step, NEW R, Lossless(step, R, Word(8)), NEW start \in R, NEW N, NEW e, IsItems(e, N)
    PROVE  Loop(step, start, e) \in R
<1>1. N \in Nat /\ Len(e) = N /\ \A n \in 1 .. N : \A x \in R : step[x][e[n]] \in R
  BY Zenon DEF IsItems, Lossless, KeepsRegister
<1>. QED  BY <1>1, LoopType, Zenon

-----------------------------------------------------------------------------
(***************************************************************************)
(* 12. A flipped bit, and frames that agree outside of some bits.          *)
(***************************************************************************)
LEMMA Powers ==
    /\ Pow2[0] = 1 /\ Pow2[1] = 2 /\ Pow2[2] = 4 /\ Pow2[3] = 8
    /\ Pow2[4] = 16 /\ Pow2[5] = 32 /\ Pow2[6] = 64 /\ Pow2[7] = 128
<1>1. /\ Pow2[0] = 1 /\ Pow2[0 + 1] = 2 * Pow2[0] /\ Pow2[1 + 1] = 2 * Pow2[1] /\ Pow2[2 + 1] = 2 * Pow2[2]
      /\ Pow2[3 + 1] = 2 * Pow2[3] /\ Pow2[4 + 1] = 2 * Pow2[4] /\ Pow2[5 + 1] = 2 * Pow2[5]
      /\ Pow2[6 + 1] = 2 * Pow2[6]
  BY PowNext
<1>. QED  BY <1>1

-----------------------------------------------------------------------------
\* One flipped bit: the others stay.
LEMMA FlippedBits ==
    ASSUME NEW x \in Int, NEW k \in Nat
    PROVE  /\ FlippedBit(x, k) \in Int
           /\ Bit(FlippedBit(x, k), k) # Bit(x, k)
           /\ \A j \in Nat : j # k => Bit(FlippedBit(x, k), j) = Bit(x, j)
<1>1. PICK P \in Nat \ {0} : P = Pow2[k]
  BY PowNat
<1>2. PICK h \in Int, l \in 0 .. P - 1 : h = x \div P /\ l = x % P /\ x = P * h + l
  BY DivMod
<1>3. PICK q \in Int, c \in 0 .. 1 : q = h \div 2 /\ c = h % 2 /\ h = 2 * q + c
  OBVIOUS
<1>4. Bit(x, k) = c
  BY <1>1, <1>2, <1>3, Zenon DEF Bit
<1>5. PICK g \in Int : g = 2 * q + (1 - c)
  BY <1>3
<1>6. PICK y \in Int : y = P * g + l
  <2>1. P * g \in Int
    BY <1>1, <1>5
  <2>. QED  BY <1>2, <2>1
<1>7. FlippedBit(x, k) = y
  <2>1. CASE c = 1
    <3>1. FlippedBit(x, k) = x - P
      BY <1>1, <1>4, <2>1, Zenon DEF FlippedBit
    <3>2. g = h - 1
      BY <1>3, <1>5, <2>1
    <3>3. P * g = (P * h) - P
      BY <1>1, <3>2
    <3>4. PICK u \in Int, v \in Int : u = P * h /\ v = P * g
      BY <1>1
    <3>. QED  BY <1>2, <1>6, <3>1, <3>3, <3>4
  <2>2. CASE c = 0
    <3>1. FlippedBit(x, k) = x + P
      <4>1. Bit(x, k) # 1
        BY <1>4, <2>2
      <4>. QED  BY <1>1, <4>1, Zenon DEF FlippedBit
    <3>2. g = h + 1
      BY <1>3, <1>5, <2>2
    <3>3. P * g = (P * h) + P
      BY <1>1, <3>2
    <3>4. PICK u \in Int, v \in Int : u = P * h /\ v = P * g
      BY <1>1
    <3>. QED  BY <1>2, <1>6, <3>1, <3>3, <3>4
  <2>. QED  BY <1>3, <2>1, <2>2
<1>8. \A j \in Nat : /\ Bit(y, j) = IF j < k THEN Bit(l, j) ELSE Bit(g, j - k)
                     /\ Bit(x, j) = IF j < k THEN Bit(l, j) ELSE Bit(h, j - k)
  <2>1. l \in 0 .. Pow2[k] - 1 /\ x = Pow2[k] * h + l /\ y = Pow2[k] * g + l
    BY <1>1, <1>2, <1>6, Zenon
  <2>. QED  BY <2>1, BitJoin
<1>9. \A b \in 0 .. 1, j \in Nat : Bit(2 * q + b, j) = IF j < 1 THEN Bit(b, j) ELSE Bit(q, j - 1)
  <2>1. ASSUME NEW b \in 0 .. 1, NEW j \in Nat
        PROVE  Bit(2 * q + b, j) = IF j < 1 THEN Bit(b, j) ELSE Bit(q, j - 1)
    <3>1. b \in 0 .. Pow2[1] - 1 /\ 1 \in Nat /\ Pow2[1] = 2
      BY Powers
    <3>2. Bit(Pow2[1] * q + b, j) = IF j < 1 THEN Bit(b, j) ELSE Bit(q, j - 1)
      BY <3>1, BitJoin, ZenonT(40)
    <3>. QED  BY <3>1, <3>2, Zenon
  <2>. QED  BY <2>1
<1>10. Bit(y, k) # Bit(x, k)
  <2>1. Bit(y, k) = Bit(g, 0)
    <3>1. ~(k < k) /\ k - k = 0
      OBVIOUS
    <3>. QED  BY <1>8, <3>1, Zenon
  <2>2. Bit(g, 0) = g % 2
    BY Powers DEF Bit
  <2>3. g % 2 = 1 - c
    BY <1>3, <1>5
  <2>. QED  BY <1>3, <1>4, <2>1, <2>2, <2>3
<1>11. ASSUME NEW j \in Nat, j # k
       PROVE  Bit(y, j) = Bit(x, j)
  <2>1. CASE j < k
    BY <1>8, <2>1, Zenon
  <2>2. CASE ~(j < k)
    <3>1. PICK m \in Nat : m = j - k /\ ~(m < 1)
      BY <1>11, <2>2
    <3>2. Bit(g, m) = Bit(q, m - 1) /\ Bit(h, m) = Bit(q, m - 1)
      <4>1. 1 - c \in 0 .. 1
        BY <1>3
      <4>2. Bit(2 * q + (1 - c), m) = Bit(q, m - 1) /\ Bit(2 * q + c, m) = Bit(q, m - 1)
        BY <1>3, <1>9, <3>1, <4>1, Zenon
      <4>. QED  BY <1>3, <1>5, <4>2, Zenon
    <3>. QED  BY <1>8, <2>2, <3>1, <3>2, Zenon
  <2>. QED  BY <2>1, <2>2
<1>. QED  BY <1>6, <1>7, <1>10, <1>11, Zenon

\* What the bit is worth in the byte, and in one of its two digits.
Moves(x, y, u, v, p) == (y > x => v = u + p) /\ (y < x => v = u - p)

Worth(k, P, p, x, y) ==
    /\ y # x /\ Moves(x, y, x, y, P) /\ P >= 1 /\ P <= 128 /\ p >= 1 /\ p <= 8
    /\ k >= 4 => Moves(x, y, x \div 16, y \div 16, p) /\ y % 16 = x % 16
    /\ k < 4 => Moves(x, y, x % 16, y % 16, p) /\ y \div 16 = x \div 16

\* With the bit's worth P = Pow2[k] a number.
FlipsTo(k, P, p, x, y) ==
    /\ P = Pow2[k] /\ 0 <= y /\ y <= 255 /\ Worth(k, P, p, x, y)
    /\ y = IF (x \div P) % 2 = 1 THEN x - P ELSE x + P
    /\ k < 4 => y % 16 = IF ((x % 16) \div P) % 2 = 1 THEN (x % 16) - P ELSE (x % 16) + P

LEMMA FlippedByte ==
    ASSUME NEW x \in Word(8), NEW k \in 0 .. 7
    PROVE  /\ FlippedBit(x, k) \in Word(8)
           /\ \E P \in Int, p \in Int : Worth(k, P, p, x, FlippedBit(x, k))
           /\ k < 4 => FlippedBit(x, k) % 16 = FlippedBit(x % 16, k)
<1>1. x \in Int /\ 0 <= x /\ x <= 255
  BY WordIs
<1>. DEFINE Fine == /\ FlippedBit(x, k) \in Word(8)
                    /\ \E P \in Int, p \in Int : Worth(k, P, p, x, FlippedBit(x, k))
                    /\ k < 4 => FlippedBit(x, k) % 16 = FlippedBit(x % 16, k)
<1>2. ASSUME NEW P \in Int, NEW p \in Int, NEW y \in Int, FlipsTo(k, P, p, x, y)
      PROVE  Fine
  <2>1. FlippedBit(x, k) = y
    BY <1>2, Zenon DEF FlipsTo, FlippedBit, Bit
  <2>2. y \in Word(8)
    BY <1>2, WordIs DEF FlipsTo
  <2>3. k < 4 => y % 16 = FlippedBit(x % 16, k)
    BY <1>2, Zenon DEF FlipsTo, FlippedBit, Bit
  <2>. QED  BY <1>2, <2>1, <2>2, <2>3, Zenon DEF FlipsTo
<1>. HIDE DEF Fine
<1>3. CASE k = 0
  <2>1. PICK y \in Int : y = IF (x \div 1) % 2 = 1 THEN x - 1 ELSE x + 1
    BY <1>1
  <2>2. 0 <= y /\ y <= 255
    BY <1>1, <2>1
  <2>3. y % 16 = IF ((x % 16) \div 1) % 2 = 1 THEN (x % 16) - 1 ELSE (x % 16) + 1
    BY <1>1, <2>1
  <2>4. Worth(k, 1, 1, x, y)
    BY <1>1, <1>3, <2>1 DEF Worth, Moves
  <2>5. PICK P \in Int, p \in Int : P = 1 /\ p = 1
    OBVIOUS
  <2>6. FlipsTo(k, P, p, x, y)
    BY <2>5, <1>3, <2>1, <2>2, <2>3, <2>4, Powers DEF FlipsTo
  <2>. QED  BY <1>2, <2>6, Zenon DEF Fine
<1>4. CASE k = 1
  <2>1. PICK y \in Int : y = IF (x \div 2) % 2 = 1 THEN x - 2 ELSE x + 2
    BY <1>1
  <2>2. 0 <= y /\ y <= 255
    BY <1>1, <2>1
  <2>3. y % 16 = IF ((x % 16) \div 2) % 2 = 1 THEN (x % 16) - 2 ELSE (x % 16) + 2
    BY <1>1, <2>1
  <2>4. Worth(k, 2, 2, x, y)
    BY <1>1, <1>4, <2>1 DEF Worth, Moves
  <2>5. PICK P \in Int, p \in Int : P = 2 /\ p = 2
    OBVIOUS
  <2>6. FlipsTo(k, P, p, x, y)
    BY <2>5, <1>4, <2>1, <2>2, <2>3, <2>4, Powers DEF FlipsTo
  <2>. QED  BY <1>2, <2>6, Zenon DEF Fine
<1>5. CASE k = 2
  <2>1. PICK y \in Int : y = IF (x \div 4) % 2 = 1 THEN x - 4 ELSE x + 4
    BY <1>1
  <2>2. 0 <= y /\ y <= 255
    BY <1>1, <2>1
  <2>3. y % 16 = IF ((x % 16) \div 4) % 2 = 1 THEN (x % 16) - 4 ELSE (x % 16) + 4
    BY <1>1, <2>1
  <2>4. Worth(k, 4, 4, x, y)
    BY <1>1, <1>5, <2>1 DEF Worth, Moves
  <2>5. PICK P \in Int, p \in Int : P = 4 /\ p = 4
    OBVIOUS
  <2>6. FlipsTo(k, P, p, x, y)
    BY <2>5, <1>5, <2>1, <2>2, <2>3, <2>4, Powers DEF FlipsTo
  <2>. QED  BY <1>2, <2>6, Zenon DEF Fine
<1>6. CASE k = 3
  <2>1. PICK y \in Int : y = IF (x \div 8) % 2 = 1 THEN x - 8 ELSE x + 8
    BY <1>1
  <2>2. 0 <= y /\ y <= 255
    BY <1>1, <2>1
  <2>3. y % 16 = IF ((x % 16) \div 8) % 2 = 1 THEN (x % 16) - 8 ELSE (x % 16) + 8
    BY <1>1, <2>1
  <2>4. Worth(k, 8, 8, x, y)
    BY <1>1, <1>6, <2>1 DEF Worth, Moves
  <2>5. PICK P \in Int, p \in Int : P = 8 /\ p = 8
    OBVIOUS
  <2>6. FlipsTo(k, P, p, x, y)
    BY <2>5, <1>6, <2>1, <2>2, <2>3, <2>4, Powers DEF FlipsTo
  <2>. QED  BY <1>2, <2>6, Zenon DEF Fine
<1>7. CASE k = 4
  <2>1. PICK y \in Int : y = IF (x \div 16) % 2 = 1 THEN x - 16 ELSE x + 16
    BY <1>1
  <2>2. 0 <= y /\ y <= 255
    BY <1>1, <2>1
  <2>3. Worth(k, 16, 1, x, y)
    BY <1>1, <1>7, <2>1 DEF Worth, Moves
  <2>4. PICK P \in Int, p \in Int : P = 16 /\ p = 1
    OBVIOUS
  <2>5. FlipsTo(k, P, p, x, y)
    BY <2>4, <1>7, <2>1, <2>2, <2>3, Powers DEF FlipsTo
  <2>. QED  BY <1>2, <2>5, Zenon DEF Fine
<1>8. CASE k = 5
  <2>1. PICK y \in Int : y = IF (x \div 32) % 2 = 1 THEN x - 32 ELSE x + 32
    BY <1>1
  <2>2. 0 <= y /\ y <= 255
    BY <1>1, <2>1
  <2>3. Worth(k, 32, 2, x, y)
    BY <1>1, <1>8, <2>1 DEF Worth, Moves
  <2>4. PICK P \in Int, p \in Int : P = 32 /\ p = 2
    OBVIOUS
  <2>5. FlipsTo(k, P, p, x, y)
    BY <2>4, <1>8, <2>1, <2>2, <2>3, Powers DEF FlipsTo
  <2>. QED  BY <1>2, <2>5, Zenon DEF Fine
<1>9. CASE k = 6
  <2>1. PICK y \in Int : y = IF (x \div 64) % 2 = 1 THEN x - 64 ELSE x + 64
    BY <1>1
  <2>2. 0 <= y /\ y <= 255
    BY <1>1, <2>1
  <2>3. Worth(k, 64, 4, x, y)
    BY <1>1, <1>9, <2>1 DEF Worth, Moves
  <2>4. PICK P \in Int, p \in Int : P = 64 /\ p = 4
    OBVIOUS
  <2>5. FlipsTo(k, P, p, x, y)
    BY <2>4, <1>9, <2>1, <2>2, <2>3, Powers DEF FlipsTo
  <2>. QED  BY <1>2, <2>5, Zenon DEF Fine
<1>10. CASE k = 7
  <2>1. PICK y \in Int : y = IF (x \div 128) % 2 = 1 THEN x - 128 ELSE x + 128
    BY <1>1
  <2>2. 0 <= y /\ y <= 255
    BY <1>1, <2>1
  <2>3. Worth(k, 128, 8, x, y)
    BY <1>1, <1>10, <2>1 DEF Worth, Moves
  <2>4. PICK P \in Int, p \in Int : P = 128 /\ p = 8
    OBVIOUS
  <2>5. FlipsTo(k, P, p, x, y)
    BY <2>4, <1>10, <2>1, <2>2, <2>3, Powers DEF FlipsTo
  <2>. QED  BY <1>2, <2>5, Zenon DEF Fine
<1>. QED  BY <1>3, <1>4, <1>5, <1>6, <1>7, <1>8, <1>9, <1>10

\* Frames that agree on the bits outside of U agree on the bytes outside of it.
SameOutside(d, e, L, U) == \A p \in 0 .. 8 * L - 1 : p \notin U => BitOf(d, p) = BitOf(e, p)

LEMMA BytePlace ==
    ASSUME NEW i \in Int, NEW k \in 0 .. 7
    PROVE  (8 * (i - 1) + k) \div 8 + 1 = i /\ (8 * (i - 1) + k) % 8 = k
OBVIOUS

LEMMA BitOfByte ==
    ASSUME NEW d, NEW i \in Int, NEW k \in 0 .. 7
    PROVE  BitOf(d, 8 * (i - 1) + k) = Bit(d[i], k)
<1>1. PICK p \in Int : p = 8 * (i - 1) + k
  OBVIOUS
<1>2. p \div 8 + 1 = i /\ p % 8 = k
  BY <1>1, BytePlace
<1>3. BitOf(d, p) = Bit(d[p \div 8 + 1], p % 8)
  BY BitOfIs
<1>. QED  BY <1>1, <1>2, <1>3, Zenon

LEMMA SameByte ==
    ASSUME NEW L \in Nat, NEW d, NEW e, IsBytes(d, L), IsBytes(e, L), NEW U, SameOutside(d, e, L, U),
           NEW i \in 1 .. L, \A k \in 0 .. 7 : 8 * (i - 1) + k \notin U
    PROVE  d[i] = e[i]
<1>1. d[i] \in Word(8) /\ e[i] \in Word(8)
  BY BytesAre DEF IsItems
<1>2. ASSUME NEW k \in 0 .. 8 - 1
      PROVE  Bit(d[i], k) = Bit(e[i], k)
  <2>1. PICK p \in 0 .. 8 * L - 1 : p = 8 * (i - 1) + k
    OBVIOUS
  <2>2. p \notin U
    BY <2>1
  <2>3. BitOf(d, p) = BitOf(e, p)
    BY <2>2, Zenon DEF SameOutside
  <2>4. BitOf(d, p) = Bit(d[i], k) /\ BitOf(e, p) = Bit(e[i], k)
    BY <2>1, BitOfByte
  <2>. QED  BY <2>3, <2>4, Zenon
<1>. QED  BY <1>1, <1>2, Widths, WordsEqual

\* The same for the high half of a byte.
LEMMA SameHigh ==
    ASSUME NEW L \in Nat, NEW d, NEW e, IsBytes(d, L), IsBytes(e, L), NEW U, SameOutside(d, e, L, U),
           NEW i \in 1 .. L, \A k \in 4 .. 7 : 8 * (i - 1) + k \notin U
    PROVE  d[i] \div 16 = e[i] \div 16
<1>1. PICK x \in Word(8), y \in Word(8) : x = d[i] /\ y = e[i]
  BY BytesAre DEF IsItems
<1>2. x \in Int /\ 0 <= x /\ x <= 255 /\ y \in Int /\ 0 <= y /\ y <= 255
  BY WordIs
<1>3. PICK u \in 0 .. 15, v \in 0 .. 15 : u = x \div 16 /\ v = y \div 16
  BY <1>2
<1>4. ASSUME NEW k \in 0 .. 4 - 1
      PROVE  Bit(u, k) = Bit(v, k)
  <2>1. PICK p \in 0 .. 8 * L - 1, j \in 4 .. 7 : p = 8 * (i - 1) + j /\ j = 4 + k
    OBVIOUS
  <2>2. p \notin U
    BY <2>1
  <2>3. BitOf(d, p) = BitOf(e, p)
    BY <2>2, Zenon DEF SameOutside
  <2>4. BitOf(d, p) = Bit(x, j) /\ BitOf(e, p) = Bit(y, j)
    BY <1>1, <2>1, BitOfByte
  <2>5. Bit(x \div Pow2[4], k) = Bit(x, 4 + k) /\ Bit(y \div Pow2[4], k) = Bit(y, 4 + k)
    <3>1. PICK n \in Nat : n = 4 /\ k \in Nat
      OBVIOUS
    <3>2. Bit(x \div Pow2[n], k) = Bit(x, n + k) /\ Bit(y \div Pow2[n], k) = Bit(y, n + k)
      BY <1>2, <3>1, BitShift
    <3>. QED  BY <3>1, <3>2, Zenon
  <2>. QED  BY <1>3, <2>1, <2>3, <2>4, <2>5, Powers, Zenon
<1>5. u \in 0 .. Pow2[4] - 1 /\ v \in 0 .. Pow2[4] - 1 /\ 4 \in Nat
  BY Powers
<1>6. u = v
  BY <1>4, <1>5, BitsEqual
<1>. QED  BY <1>1, <1>3, <1>6, Zenon

-----------------------------------------------------------------------------
\* What honda_checksum adds of each byte.
HondaDigit(d, n, i) == IF i = n THEN d[n] \div 16 ELSE (d[i] % 16) + (d[i] \div 16)

HondaDigits(d, n) == [i \in 1 .. n |-> HondaDigit(d, n, i)]

LEMMA DigitsAre ==
    ASSUME NEW d, NEW L \in Nat, IsBytes(d, L)
    PROVE  /\ Len(HondaDigits(d, L)) = L
           /\ \A n \in 1 .. L : HondaDigits(d, L)[n] = HondaDigit(d, L, n) /\ HondaDigit(d, L, n) \in Nat
<1>1. Len(HondaDigits(d, L)) = L /\ \A n \in 1 .. L : HondaDigits(d, L)[n] = HondaDigit(d, L, n)
  <2>1. HondaDigits(d, L) = [i \in 1 .. L |-> HondaDigit(d, L, i)]
    BY Zenon DEF HondaDigits
  <2>2. PICK f : f = HondaDigits(d, L) /\ f = [i \in 1 .. L |-> HondaDigit(d, L, i)]
    BY <2>1, Zenon
  <2>3. Len(f) = L /\ \A n \in 1 .. L : f[n] = HondaDigit(d, L, n)
    BY <2>2
  <2>. QED  BY <2>2, <2>3, Zenon
<1>2. ASSUME NEW n \in 1 .. L
      PROVE  HondaDigit(d, L, n) \in Nat
  <2>1. PICK x \in Int : x = d[n] /\ 0 <= x
    BY BytesAre, WordIs DEF IsItems
  <2>2. x \div 16 \in Nat /\ (x % 16) + (x \div 16) \in Nat
    BY <2>1
  <2>. QED  BY <2>1, <2>2 DEF HondaDigit
<1>. QED  BY <1>1, <1>2, Zenon

LEMMA NibbleNat == ASSUME NEW a \in Nat PROVE NibbleSum(a) \in Nat
<1>. DEFINE f == [k \in 1 .. 8 |-> (a \div Pow2[4 * (k - 1)]) % 16]
<1>1. 8 \in Nat /\ Len(f) = 8
  OBVIOUS
<1>2. ASSUME NEW k \in 1 .. 8
      PROVE  f[k] \in Nat
  <2>1. 4 * (k - 1) \in Nat
    OBVIOUS
  <2>2. PICK P \in Nat : P = Pow2[4 * (k - 1)] /\ P > 0
    BY <2>1, PowNat
  <2>3. a \div P \in Int
    BY <2>2, DivType
  <2>4. (a \div P) % 16 \in Nat
    BY <2>3
  <2>. QED  BY <2>2, <2>4
<1>. HIDE DEF f
<1>3. Total(f) \in Nat
  BY <1>1, <1>2, TotalNat, Zenon
<1>. QED  BY <1>3, Zenon DEF f, NibbleSum

LEMMA ByteNat == ASSUME NEW a \in Nat PROVE ByteSum(a) \in Nat
<1>. DEFINE f == [k \in 1 .. 4 |-> (a \div Pow2[8 * (k - 1)]) % 256]
<1>1. 4 \in Nat /\ Len(f) = 4
  OBVIOUS
<1>2. ASSUME NEW k \in 1 .. 4
      PROVE  f[k] \in Nat
  <2>1. 8 * (k - 1) \in Nat
    OBVIOUS
  <2>2. PICK P \in Nat : P = Pow2[8 * (k - 1)] /\ P > 0
    BY <2>1, PowNat
  <2>3. a \div P \in Int
    BY <2>2, DivType
  <2>4. (a \div P) % 256 \in Nat
    BY <2>3
  <2>. QED  BY <2>2, <2>4
<1>. HIDE DEF f
<1>3. Total(f) \in Nat
  BY <1>1, <1>2, TotalNat, Zenon
<1>. QED  BY <1>3, Zenon DEF f, ByteSum

LEMMA ItemsTotal == ASSUME NEW N, NEW e, IsItems(e, N) PROVE Total(e) \in Nat
<1>1. N \in Nat /\ Len(e) = N /\ \A n \in 1 .. N : e[n] \in Nat
  BY WordIs DEF IsItems
<1>. QED  BY <1>1, TotalNat

\* The three sums, in one form each.
LEMMA HondaIs ==
    ASSUME NEW address \in Nat
    PROVE  \E a \in Int : \A L \in Nat : \A d : IsBytes(d, L) =>
              HondaChecksum(address, d) = (a - Total(HondaDigits(d, L))) % 16 /\ Total(HondaDigits(d, L)) \in Nat
<1>1. PICK s \in Int, c \in Int : s = NibbleSum(address) /\ c = IF address > 2047 THEN 3 ELSE 0
  BY NibbleNat
<1>2. PICK a \in Int : a = (8 - s) + c
  BY <1>1
<1>3. ASSUME NEW L \in Nat, NEW d, IsBytes(d, L)
      PROVE  HondaChecksum(address, d) = (a - Total(HondaDigits(d, L))) % 16 /\ Total(HondaDigits(d, L)) \in Nat
  <2>1. Len(d) = L
    BY <1>3 DEF IsBytes
  <2>2. Total(HondaDigits(d, L)) \in Nat
    BY <1>3, DigitsAre, TotalNat
  <2>3. PICK t \in Int : t = Total(HondaDigits(d, L))
    BY <2>2
  <2>4. HondaChecksum(address, d) = (8 - (s + t) + c) % 16
    <3>1. HondaChecksum(address, d) =
             (8 - (NibbleSum(address) + Total(HondaDigits(d, Len(d)))) + (IF address > 2047 THEN 3 ELSE 0)) % 16
      BY Zenon DEF HondaChecksum, HondaDigits, HondaDigit
    <3>. QED  BY <1>1, <2>1, <2>3, <3>1
  <2>5. 8 - (s + t) + c = a - t
    BY <1>2
  <2>. QED  BY <2>2, <2>3, <2>4, <2>5
<1>. QED  BY <1>3

-----------------------------------------------------------------------------
(***************************************************************************)
(* 13. No checksum reads the place it is written to.                       *)
(***************************************************************************)
\* A frame without its byte c, of xor_checksum.
LEMMA SkipIs ==
    ASSUME NEW d, NEW L \in Nat \ {0}, IsBytes(d, L), NEW c \in 0 .. L - 1
    PROVE  LET e == SubSeq(d, 1, c) \o SubSeq(d, c + 2, Len(d)) IN
           IsItems(e, L - 1) /\ \A n \in 1 .. L - 1 : e[n] = d[IF n <= c THEN n ELSE n + 1]
<1>1. d \in Seq(Word(8)) /\ Len(d) = L /\ \A n \in 1 .. L : d[n] \in Word(8)
  BY BytesAre DEF IsItems
<1>2. PICK f, g : f = SubSeq(d, 1, c) /\ g = SubSeq(d, c + 2, L)
  OBVIOUS
<1>3. f \in Seq(Word(8)) /\ Len(f) = c /\ \A n \in 1 .. c : f[n] = d[n]
  BY <1>1, <1>2
<1>4. g \in Seq(Word(8)) /\ Len(g) = L - 1 - c /\ \A n \in 1 .. L - 1 - c : g[n] = d[n + (c + 1)]
  <2>1. g \in Seq(Word(8)) /\ Len(g) = L - 1 - c
    BY <1>1, <1>2
  <2>2. \A n \in 1 .. L - 1 - c : g[n] = d[(c + 2) + n - 1] /\ (c + 2) + n - 1 = n + (c + 1)
    BY <1>1, <1>2
  <2>. QED  BY <2>1, <2>2, Zenon
<1>5. PICK e : e = f \o g
  OBVIOUS
<1>6. Len(e) = L - 1 /\ \A n \in 1 .. L - 1 : e[n] = IF n <= c THEN f[n] ELSE g[n - c]
  BY <1>3, <1>4, <1>5
<1>7. ASSUME NEW n \in 1 .. L - 1
      PROVE  e[n] = d[IF n <= c THEN n ELSE n + 1] /\ e[n] \in Word(8)
  <2>1. CASE n <= c
    <3>1. n \in 1 .. c /\ n \in 1 .. L
      BY <2>1
    <3>. QED  BY <1>1, <1>3, <1>6, <2>1, <3>1, Zenon
  <2>2. CASE ~(n <= c)
    <3>1. PICK j : j = n - c /\ j \in 1 .. L - 1 - c /\ j + (c + 1) = n + 1 /\ n + 1 \in 1 .. L
      BY <2>2
    <3>. QED  BY <1>1, <1>4, <1>6, <2>2, <3>1, Zenon
  <2>. QED  BY <2>1, <2>2
<1>8. L - 1 \in Nat
  OBVIOUS
<1>. QED  BY <1>1, <1>2, <1>5, <1>6, <1>7, <1>8, Zenon DEF IsItems

-----------------------------------------------------------------------------
\* What the checksums make of frames that agree on all they read.
LEMMA HondaSame ==
    ASSUME NEW L \in Nat \ {0}, NEW d, NEW e, IsBytes(d, L), IsBytes(e, L),
           SameOutside(d, e, L, 8 * (L - 1) .. 8 * (L - 1) + 3), NEW address \in Nat
    PROVE  HondaChecksum(address, d) = HondaChecksum(address, e)
<1>. DEFINE U == 8 * (L - 1) .. 8 * (L - 1) + 3
<1>1. ASSUME NEW i \in 1 .. L, i # L
      PROVE  d[i] = e[i]
  <2>1. \A k \in 0 .. 7 : 8 * (i - 1) + k \notin U
    BY <1>1
  <2>. QED  BY <2>1, SameByte
<1>2. d[L] \div 16 = e[L] \div 16
  <2>1. L \in 1 .. L /\ \A k \in 4 .. 7 : 8 * (L - 1) + k \notin U
    OBVIOUS
  <2>. QED  BY <2>1, SameHigh
<1>3. \A i \in 1 .. L : HondaDigit(d, L, i) = HondaDigit(e, L, i)
  BY <1>1, <1>2, Zenon DEF HondaDigit
<1>4. HondaDigits(d, L) = HondaDigits(e, L)
  BY <1>3, Zenon DEF HondaDigits
<1>5. PICK a \in Int : \A f : IsBytes(f, L) => HondaChecksum(address, f) = (a - Total(HondaDigits(f, L))) % 16
  BY HondaIs
<1>. QED  BY <1>4, <1>5, Zenon

LEMMA LastSame ==
    ASSUME NEW L \in Nat \ {0}, NEW d, NEW e, IsBytes(d, L), IsBytes(e, L),
           SameOutside(d, e, L, 8 * (L - 1) .. 8 * (L - 1) + 7), NEW address \in Nat
    PROVE  /\ ToyotaChecksum(address, d) = ToyotaChecksum(address, e)
           /\ ChryslerChecksum(d) = ChryslerChecksum(e)
           /\ PedalChecksum(d) = PedalChecksum(e)
<1>. DEFINE U == 8 * (L - 1) .. 8 * (L - 1) + 7
<1>1. ASSUME NEW i \in 1 .. L - 1
      PROVE  d[i] = e[i]
  <2>1. i \in 1 .. L /\ \A k \in 0 .. 7 : 8 * (i - 1) + k \notin U
    OBVIOUS
  <2>. QED  BY <2>1, SameByte
<1>2. \A n \in 1 .. L - 1 : Front(d)[n] = Front(e)[n]
  BY <1>1, FrontIs, Zenon
<1>3. \A n \in 1 .. L - 1 : Reverse(Front(d))[n] = Reverse(Front(e))[n]
  <2>1. \A n \in 1 .. L - 1 : Reverse(Front(d))[n] = d[L - n] /\ Reverse(Front(e))[n] = e[L - n]
    BY BackIs
  <2>2. \A n \in 1 .. L - 1 : L - n \in 1 .. L - 1
    OBVIOUS
  <2>. QED  BY <1>1, <2>1, <2>2, Zenon
<1>4. IsItems(Front(d), L - 1) /\ IsItems(Front(e), L - 1)
      /\ IsItems(Reverse(Front(d)), L - 1) /\ IsItems(Reverse(Front(e)), L - 1)
  BY FrontIs, BackIs
<1>5. \A step, start : Loop(step, start, Front(d)) = Loop(step, start, Front(e))
  BY <1>2, <1>4, LoopSame, ZenonT(40)
<1>6. \A step, start : Loop(step, start, Reverse(Front(d))) = Loop(step, start, Reverse(Front(e)))
  BY <1>3, <1>4, LoopSame, ZenonT(40)
<1>7. Len(d) = Len(e)
  BY BytesAre
<1>8. Total(Front(d)) = Total(Front(e))
  BY <1>5, Zenon DEF Total
<1>9. ToyotaChecksum(address, d) = ToyotaChecksum(address, e)
  BY <1>7, <1>8, Zenon DEF ToyotaChecksum
<1>. QED  BY <1>5, <1>6, <1>9, ZenonT(40) DEF ChryslerChecksum, PedalChecksum

LEMMA FirstSame ==
    ASSUME NEW L \in Nat \ {0}, NEW d, NEW e, IsBytes(d, L), IsBytes(e, L),
           SameOutside(d, e, L, 0 .. 7), NEW address \in Nat
    PROVE  /\ SubaruChecksum(address, d) = SubaruChecksum(address, e)
           /\ L >= 2 => VolkswagenMqbChecksum(address, d) = VolkswagenMqbChecksum(address, e)
<1>1. ASSUME NEW i \in 1 .. L - 1
      PROVE  d[i + 1] = e[i + 1]
  <2>1. i + 1 \in 1 .. L /\ \A k \in 0 .. 7 : 8 * ((i + 1) - 1) + k \notin 0 .. 7
    OBVIOUS
  <2>. QED  BY <2>1, SameByte
<1>2. \A n \in 1 .. L - 1 : Tail(d)[n] = Tail(e)[n]
  BY <1>1, TailIs, Zenon
<1>3. IsItems(Tail(d), L - 1) /\ IsItems(Tail(e), L - 1)
  BY TailIs
<1>4. \A step, start : Loop(step, start, Tail(d)) = Loop(step, start, Tail(e))
  <2>1. PICK N, f, g : N = L - 1 /\ f = Tail(d) /\ g = Tail(e)
    OBVIOUS
  <2>2. IsItems(f, N) /\ IsItems(g, N) /\ \A n \in 1 .. N : f[n] = g[n]
    BY <1>2, <1>3, <2>1, Zenon
  <2>3. \A step, start : Loop(step, start, f) = Loop(step, start, g)
    BY <2>2, LoopSame
  <2>. QED  BY <2>1, <2>3, Zenon
<1>5. Total(Tail(d)) = Total(Tail(e)) /\ VolkswagenPayload(d) = VolkswagenPayload(e)
  BY <1>4, Zenon DEF Total, VolkswagenPayload
<1>6. ASSUME L >= 2
      PROVE  d[2] = e[2]
  <2>1. 1 \in 1 .. L - 1
    BY <1>6
  <2>2. d[1 + 1] = e[1 + 1]
    BY <1>1, <2>1
  <2>. QED  BY <2>2
<1>. QED  BY <1>5, <1>6, Zenon DEF SubaruChecksum, VolkswagenMqbChecksum

LEMMA XorSame ==
    ASSUME NEW L \in Nat \ {0}, NEW d, NEW e, IsBytes(d, L), IsBytes(e, L), NEW c \in 0 .. L - 1,
           SameOutside(d, e, L, 8 * c .. 8 * c + 7)
    PROVE  XorChecksum(c, d) = XorChecksum(c, e)
<1>1. ASSUME NEW i \in 1 .. L, i # c + 1
      PROVE  d[i] = e[i]
  <2>1. \A k \in 0 .. 7 : 8 * (i - 1) + k \notin 8 * c .. 8 * c + 7
    BY <1>1
  <2>. QED  BY <2>1, SameByte
<1>2. PICK f, g : /\ f = SubSeq(d, 1, c) \o SubSeq(d, c + 2, Len(d))
                  /\ g = SubSeq(e, 1, c) \o SubSeq(e, c + 2, Len(e))
  OBVIOUS
<1>3. /\ IsItems(f, L - 1) /\ \A n \in 1 .. L - 1 : f[n] = d[IF n <= c THEN n ELSE n + 1]
      /\ IsItems(g, L - 1) /\ \A n \in 1 .. L - 1 : g[n] = e[IF n <= c THEN n ELSE n + 1]
  BY <1>2, SkipIs
<1>4. \A n \in 1 .. L - 1 : LET i == IF n <= c THEN n ELSE n + 1 IN i \in 1 .. L /\ i # c + 1
  OBVIOUS
<1>5. ASSUME NEW n \in 1 .. L - 1
      PROVE  f[n] = g[n]
  <2>1. PICK i : i = IF n <= c THEN n ELSE n + 1
    OBVIOUS
  <2>2. i \in 1 .. L /\ i # c + 1
    BY <1>4, <2>1, Zenon
  <2>3. d[i] = e[i]
    BY <1>1, <2>2
  <2>. QED  BY <1>3, <2>1, <2>3, Zenon
<1>6. Loop(Xoring, 0, f) = Loop(Xoring, 0, g)
  BY <1>3, <1>5, LoopSame
<1>. QED  BY <1>2, <1>6, Zenon DEF XorChecksum

LEMMA HyundaiSame ==
    ASSUME NEW L \in Nat \ {0}, NEW d, NEW e, IsBytes(d, L), IsBytes(e, L),
           SameOutside(d, e, L, 0 .. 15), NEW address \in Nat
    PROVE  HkgCanFdChecksum(address, d) = HkgCanFdChecksum(address, e)
<1>1. PICK a \in Word(8), b \in Word(8) : a = address % 256 /\ b = (address \div 256) % 256
  BY AddressBytes
<1>2. PICK f, g : f = SubSeq(d, 3, Len(d)) \o <<a, b>> /\ g = SubSeq(e, 3, Len(e)) \o <<a, b>>
  OBVIOUS
<1>3. PICK N : N = RestLen(L)
  OBVIOUS
<1>4. /\ IsItems(f, N) /\ f[N - 1] = a /\ f[N] = b /\ \A n \in 1 .. N - 2 : f[n] = d[n + 2]
      /\ IsItems(g, N) /\ g[N - 1] = a /\ g[N] = b /\ \A n \in 1 .. N - 2 : g[n] = e[n + 2]
  <2>1. IsRest(f, d, L, a, b) /\ IsRest(g, e, L, a, b)
    BY <1>2, RestIs, Zenon
  <2>. QED  BY <1>3, <2>1, Zenon DEF IsRest
<1>5. N \in Nat
  BY <1>4 DEF IsItems
<1>6. ASSUME NEW n \in 1 .. N
      PROVE  f[n] = g[n]
  <2>1. CASE n \in 1 .. N - 2
    <3>1. n + 2 \in 1 .. L
      BY <1>3, <2>1 DEF RestLen
    <3>2. \A k \in 0 .. 7 : 8 * ((n + 2) - 1) + k \notin 0 .. 15
      BY <2>1
    <3>3. d[n + 2] = e[n + 2]
      BY <3>1, <3>2, SameByte
    <3>. QED  BY <1>4, <2>1, <3>3, Zenon
  <2>2. CASE n \notin 1 .. N - 2
    <3>1. n = N - 1 \/ n = N
      BY <1>5, <2>2
    <3>. QED  BY <1>4, <3>1, Zenon
  <2>. QED  BY <2>1, <2>2
<1>7. Loop(HkgByte, 0, f) = Loop(HkgByte, 0, g)
  BY <1>4, <1>6, LoopSame
<1>8. Len(d) = Len(e)
  BY BytesAre
<1>. QED  BY <1>1, <1>2, <1>7, <1>8, Zenon DEF HkgCanFdChecksum

-----------------------------------------------------------------------------
(***************************************************************************)
(* 14. Each bit it reads matters.                                          *)
(***************************************************************************)
\* Bit k of byte i is flipped.
OneFlip(d, e, L, i, k) ==
    /\ IsBytes(d, L) /\ IsBytes(e, L) /\ i \in 1 .. L /\ k \in 0 .. 7
    /\ e[i] = FlippedBit(d[i], k) /\ e[i] # d[i]
    /\ \A n \in 1 .. L : n # i => e[n] = d[n]

LEMMA FlippedFrame ==
    ASSUME NEW L \in Nat, NEW d, IsBytes(d, L), NEW b \in 0 .. 8 * L - 1
    PROVE  /\ OneFlip(d, Flipped(d, b), L, b \div 8 + 1, b % 8)
           /\ \A p \in 0 .. 8 * L - 1 :
                 IF p = b THEN BitOf(Flipped(d, b), p) # BitOf(d, p)
                          ELSE BitOf(Flipped(d, b), p) = BitOf(d, p)
<1>1. PICK i \in 1 .. L, k \in 0 .. 7 : i = b \div 8 + 1 /\ k = b % 8 /\ b = 8 * (i - 1) + k
  OBVIOUS
<1>2. d \in Seq(Word(8)) /\ Len(d) = L /\ \A n \in 1 .. L : d[n] \in Word(8)
  BY BytesAre DEF IsItems
<1>3. PICK y : y = FlippedBit(d[i], k) /\ y \in Word(8) /\ y # d[i]
  BY <1>2, FlippedByte DEF Worth
<1>4. PICK e : e = [d EXCEPT ![i] = y]
  OBVIOUS
<1>5. Flipped(d, b) = e
  BY <1>1, <1>3, <1>4, Zenon DEF Flipped
<1>6. /\ e \in Seq(Word(8)) /\ Len(e) = L /\ e[i] = y
      /\ \A n \in 1 .. L : n # i => e[n] = d[n]
  BY <1>2, <1>3, <1>4
<1>7. IsBytes(e, L)
  BY <1>6, ByteIsWord, Zenon DEF IsBytes
<1>8. OneFlip(d, e, L, i, k)
  BY <1>3, <1>6, <1>7 DEF OneFlip
<1>9. ASSUME NEW p \in 0 .. 8 * L - 1
      PROVE  IF p = b THEN BitOf(e, p) # BitOf(d, p) ELSE BitOf(e, p) = BitOf(d, p)
  <2>1. PICK j \in 1 .. L, m \in 0 .. 7 : j = p \div 8 + 1 /\ m = p % 8 /\ p = 8 * (j - 1) + m
    OBVIOUS
  <2>2. BitOf(e, p) = Bit(e[j], m) /\ BitOf(d, p) = Bit(d[j], m)
    BY <2>1, BitOfByte
  <2>3. d[i] \in Int /\ k \in Nat /\ m \in Nat
    BY <1>2, WordInt, Widths
  <2>4. Bit(y, k) # Bit(d[i], k) /\ (m # k => Bit(y, m) = Bit(d[i], m))
    BY <1>3, <2>3, FlippedBits, ZenonT(40)
  <2>5. p = b <=> j = i /\ m = k
    BY <1>1, <2>1
  <2>. QED  BY <1>6, <2>2, <2>4, <2>5, Zenon
<1>. QED  BY <1>1, <1>5, <1>8, <1>9, Zenon

-----------------------------------------------------------------------------
\* Sums.
Within(c, m) == (c >= 1 /\ c <= m) \/ (c <= -1 /\ c >= -m)

LEMMA Misses ==
    ASSUME NEW a \in Int, NEW c \in Int
    PROVE  /\ Within(c, 128) => (a + c) % 256 # a % 256
           /\ Within(c, 8) => (a - c) % 16 # a % 16
BY DEF Within

Changes(N, e, f, i, c) ==
    /\ Len(e) = N /\ Len(f) = N /\ \A n \in 1 .. N : e[n] \in Nat /\ f[n] \in Nat
    /\ i \in 1 .. N /\ f[i] = e[i] + c /\ \A n \in 1 .. N : n # i => f[n] = e[n]

LEMMA ChangesTotal ==
    ASSUME NEW N \in Nat, NEW e, NEW f, NEW i, NEW c \in Int, Changes(N, e, f, i, c)
    PROVE  Total(f) = Total(e) + c
BY TotalChanges, ZenonT(40) DEF Changes

\* By how much a flipped bit changes its byte, and what honda_checksum adds of it.
LEMMA FlipWorth ==
    ASSUME NEW d, NEW e, NEW L \in Nat, NEW i, NEW k, OneFlip(d, e, L, i, k)
    PROVE  \E c \in Int : Within(c, 128) /\ e[i] = d[i] + c
<1>1. PICK x \in Word(8), y \in Word(8) : x = d[i] /\ y = e[i] /\ y = FlippedBit(x, k)
  BY BytesAre DEF IsItems, OneFlip
<1>2. x \in Int /\ y \in Int
  BY WordIs
<1>3. PICK P \in Int, p \in Int : Worth(k, P, p, x, y)
  BY <1>1, FlippedByte DEF OneFlip
<1>4. CASE y > x
  <2>1. y = x + P /\ P \in Int /\ P >= 1 /\ P <= 128
    BY <1>3, <1>4 DEF Worth, Moves
  <2>. QED  BY <1>1, <2>1 DEF Within
<1>5. CASE y < x
  <2>1. y = x - P /\ P \in Int /\ P >= 1 /\ P <= 128
    BY <1>3, <1>5 DEF Worth, Moves
  <2>2. PICK c \in Int : c = 0 - P
    BY <2>1
  <2>3. Within(c, 128) /\ y = x + c
    BY <1>2, <2>1, <2>2 DEF Within
  <2>. QED  BY <1>1, <2>3
<1>6. y # x
  BY <1>3 DEF Worth
<1>. QED  BY <1>2, <1>4, <1>5, <1>6

LEMMA ToyotaDiffers ==
    ASSUME NEW L \in Nat \ {0}, NEW d, NEW e, NEW i, NEW k, OneFlip(d, e, L, i, k), i # L, NEW address \in Nat
    PROVE  ToyotaChecksum(address, d) # ToyotaChecksum(address, e)
<1>1. PICK f, g : f = Front(d) /\ g = Front(e)
  OBVIOUS
<1>2. /\ IsItems(f, L - 1) /\ \A n \in 1 .. L - 1 : f[n] = d[n]
      /\ IsItems(g, L - 1) /\ \A n \in 1 .. L - 1 : g[n] = e[n]
  BY <1>1, FrontIs DEF OneFlip
<1>3. PICK c \in Int : Within(c, 128) /\ e[i] = d[i] + c
  BY FlipWorth
<1>4. PICK N \in Nat : N = L - 1
  OBVIOUS
<1>5. i \in 1 .. N /\ g[i] = f[i] + c /\ \A n \in 1 .. N : n # i => g[n] = f[n]
  BY <1>2, <1>3, <1>4 DEF OneFlip
<1>6. Len(f) = N /\ Len(g) = N /\ \A n \in 1 .. N : f[n] \in Nat /\ g[n] \in Nat
  BY <1>2, <1>4, WordIs DEF IsItems
<1>7. Total(g) = Total(f) + c
  <2>1. Changes(N, f, g, i, c)
    BY <1>5, <1>6, Zenon DEF Changes
  <2>. QED  BY <2>1, ChangesTotal
<1>8. Total(f) \in Nat /\ ByteSum(address) \in Nat
  BY <1>2, ItemsTotal, ByteNat
<1>9. Len(d) = L /\ Len(e) = L
  BY BytesAre DEF OneFlip
<1>10. PICK a \in Int : a = L + ByteSum(address) + Total(f)
  BY <1>8
<1>11. L + ByteSum(address) + Total(g) = a + c
  BY <1>7, <1>8, <1>10
<1>12. ToyotaChecksum(address, d) = a % 256 /\ ToyotaChecksum(address, e) = (a + c) % 256
  BY <1>1, <1>9, <1>10, <1>11, Zenon DEF ToyotaChecksum
<1>13. (a + c) % 256 # a % 256
  BY <1>3, Misses
<1>. QED  BY <1>12, <1>13, Zenon

LEMMA SubaruDiffers ==
    ASSUME NEW L \in Nat \ {0}, NEW d, NEW e, NEW i, NEW k, OneFlip(d, e, L, i, k), i # 1, NEW address \in Nat
    PROVE  SubaruChecksum(address, d) # SubaruChecksum(address, e)
<1>1. PICK f, g : f = Tail(d) /\ g = Tail(e)
  OBVIOUS
<1>2. /\ IsItems(f, L - 1) /\ \A n \in 1 .. L - 1 : f[n] = d[n + 1]
      /\ IsItems(g, L - 1) /\ \A n \in 1 .. L - 1 : g[n] = e[n + 1]
  BY <1>1, TailIs DEF OneFlip
<1>3. PICK c \in Int : Within(c, 128) /\ e[i] = d[i] + c
  BY FlipWorth
<1>4. PICK N \in Nat, j \in Nat : N = L - 1 /\ j = i - 1 /\ j \in 1 .. N /\ j + 1 = i
  BY DEF OneFlip
<1>5. g[j] = f[j] + c /\ \A n \in 1 .. N : n # j => g[n] = f[n]
  <2>1. \A n \in 1 .. N : n + 1 \in 1 .. L /\ (n + 1 = i => n = j)
    BY <1>4
  <2>2. \A n \in 1 .. N : n # j => e[n + 1] = d[n + 1]
    BY <2>1 DEF OneFlip
  <2>. QED  BY <1>2, <1>3, <1>4, <2>2
<1>6. Len(f) = N /\ Len(g) = N /\ \A n \in 1 .. N : f[n] \in Nat /\ g[n] \in Nat
  BY <1>2, <1>4, WordIs DEF IsItems
<1>7. Total(g) = Total(f) + c
  <2>1. Changes(N, f, g, j, c)
    BY <1>4, <1>5, <1>6, Zenon DEF Changes
  <2>. QED  BY <2>1, ChangesTotal
<1>8. Total(f) \in Nat /\ ByteSum(address) \in Nat
  BY <1>2, ItemsTotal, ByteNat
<1>10. PICK a \in Int : a = ByteSum(address) + Total(f)
  BY <1>8
<1>11. ByteSum(address) + Total(g) = a + c
  BY <1>7, <1>8, <1>10
<1>12. SubaruChecksum(address, d) = a % 256 /\ SubaruChecksum(address, e) = (a + c) % 256
  BY <1>1, <1>10, <1>11, Zenon DEF SubaruChecksum
<1>13. (a + c) % 256 # a % 256
  BY <1>3, Misses
<1>. QED  BY <1>12, <1>13, Zenon

LEMMA HondaDiffers ==
    ASSUME NEW L \in Nat \ {0}, NEW d, NEW e, NEW i, NEW k, OneFlip(d, e, L, i, k), i # L \/ k >= 4,
           NEW address \in Nat
    PROVE  HondaChecksum(address, d) # HondaChecksum(address, e)
<1>1. PICK x \in Word(8), y \in Word(8) : x = d[i] /\ y = e[i] /\ y = FlippedBit(x, k)
  BY BytesAre DEF IsItems, OneFlip
<1>2. x \in Int /\ y \in Int
  BY WordIs
<1>3. PICK P \in Int, p \in Int : Worth(k, P, p, x, y)
  BY <1>1, FlippedByte DEF OneFlip
<1>4. PICK u \in Int, v \in Int, q \in Int, r \in Int : u = x % 16 /\ v = x \div 16 /\ q = y % 16 /\ r = y \div 16
  BY <1>2
<1>5. /\ y # x /\ p >= 1 /\ p <= 8 /\ k \in 0 .. 7
      /\ k >= 4 => q = u /\ (y > x => r = v + p) /\ (y < x => r = v - p)
      /\ k < 4 => r = v /\ (y > x => q = u + p) /\ (y < x => q = u - p)
  BY <1>3, <1>4, Zenon DEF Worth, Moves, OneFlip
<1>6. PICK c \in Int : Within(c, 8) /\ q + r = (u + v) + c /\ (k >= 4 => r = v + c)
  <2>1. CASE y > x
    <3>1. q + r = (u + v) + p /\ (k >= 4 => r = v + p)
      BY <1>5, <2>1
    <3>. QED  BY <1>5, <3>1 DEF Within
  <2>2. CASE y < x
    <3>1. PICK c \in Int : c = 0 - p
      OBVIOUS
    <3>2. q + r = (u + v) + c /\ (k >= 4 => r = v + c)
      BY <1>5, <2>2, <3>1
    <3>. QED  BY <1>5, <3>1, <3>2 DEF Within
  <2>. QED  BY <1>2, <1>5, <2>1, <2>2
<1>7. i \in 1 .. L /\ \A n \in 1 .. L : n # i => e[n] = d[n]
  BY DEF OneFlip
<1>8. HondaDigit(e, L, i) = HondaDigit(d, L, i) + c
  <2>1. CASE i = L
    <3>1. HondaDigit(d, L, i) = v /\ HondaDigit(e, L, i) = r
      BY <1>1, <1>4, <2>1, Zenon DEF HondaDigit
    <3>. QED  BY <1>6, <2>1, <3>1
  <2>2. CASE i # L
    <3>1. HondaDigit(d, L, i) = u + v /\ HondaDigit(e, L, i) = q + r
      BY <1>1, <1>4, <2>2, Zenon DEF HondaDigit
    <3>. QED  BY <1>6, <3>1
  <2>. QED  BY <2>1, <2>2
<1>9. \A n \in 1 .. L : n # i => HondaDigit(e, L, n) = HondaDigit(d, L, n)
  <2>1. ASSUME NEW n \in 1 .. L, n # i
        PROVE  HondaDigit(e, L, n) = HondaDigit(d, L, n)
    <3>1. e[n] = d[n]
      BY <1>7, <2>1
    <3>. QED  BY <3>1, Zenon DEF HondaDigit
  <2>. QED  BY <2>1
<1>10. PICK f, g : f = HondaDigits(d, L) /\ g = HondaDigits(e, L)
  OBVIOUS
<1>11. /\ Len(f) = L /\ \A n \in 1 .. L : f[n] = HondaDigit(d, L, n) /\ HondaDigit(d, L, n) \in Nat
       /\ Len(g) = L /\ \A n \in 1 .. L : g[n] = HondaDigit(e, L, n) /\ HondaDigit(e, L, n) \in Nat
  BY <1>10, DigitsAre DEF OneFlip
<1>12. /\ \A n \in 1 .. L : f[n] \in Nat /\ g[n] \in Nat
       /\ g[i] = f[i] + c /\ \A n \in 1 .. L : n # i => g[n] = f[n]
  BY <1>7, <1>8, <1>9, <1>11, Zenon
<1>13. Total(g) = Total(f) + c
  <2>1. Changes(L, f, g, i, c)
    BY <1>7, <1>11, <1>12, Zenon DEF Changes
  <2>. QED  BY <2>1, ChangesTotal
<1>14. PICK a \in Int : \A h : IsBytes(h, L) => HondaChecksum(address, h) = (a - Total(HondaDigits(h, L))) % 16
                                                 /\ Total(HondaDigits(h, L)) \in Nat
  BY HondaIs
<1>15. /\ HondaChecksum(address, d) = (a - Total(f)) % 16 /\ Total(f) \in Nat
       /\ HondaChecksum(address, e) = (a - Total(g)) % 16
  BY <1>10, <1>14, Zenon DEF OneFlip
<1>16. PICK t \in Int : t = a - Total(f) /\ a - Total(g) = t - c
  BY <1>13, <1>15
<1>. QED  BY <1>6, <1>15, <1>16, Misses

\* What the checksums are made of, and the values they take.
LEMMA SumsFit ==
    ASSUME NEW L \in Nat \ {0}, NEW d, IsBytes(d, L), NEW address \in Nat
    PROVE  /\ HondaChecksum(address, d) \in 0 .. 15
           /\ ToyotaChecksum(address, d) \in Word(8) /\ SubaruChecksum(address, d) \in Word(8)
<1>1. ByteSum(address) \in Nat /\ Total(Front(d)) \in Nat /\ Total(Tail(d)) \in Nat /\ Len(d) \in Nat
  BY FrontIs, TailIs, ItemsTotal, ByteNat, BytesAre
<1>2. \A x \in Nat : x % 256 \in Word(8)
  BY WordIs
<1>3. /\ Len(d) + ByteSum(address) + Total(Front(d)) \in Nat
      /\ ByteSum(address) + Total(Tail(d)) \in Nat
  BY <1>1
<1>4. ToyotaChecksum(address, d) \in Word(8) /\ SubaruChecksum(address, d) \in Word(8)
  BY <1>2, <1>3, Zenon DEF ToyotaChecksum, SubaruChecksum
<1>5. PICK a \in Int : HondaChecksum(address, d) = (a - Total(HondaDigits(d, L))) % 16 /\ Total(HondaDigits(d, L)) \in Nat
  BY HondaIs
<1>. QED  BY <1>4, <1>5

LEMMA FinalXorIs == \A size : HkgFinalXor(size) \in Word(16)
<1>1. 24361 \in Word(16) /\ 1053 \in Word(16) /\ 33181 \in Word(16) /\ 40795 \in Word(16) /\ 0 \in Word(16)
  BY WordIs
<1>. QED  BY <1>1 DEF HkgFinalXor

\* The padding, and the table of the volkswagen checksum.
LEMMA PadIs == ASSUME NEW address, NEW counter \in 0 .. 15 PROVE PadByte(address, counter) \in Word(8)
<1>1. CASE address \in DOMAIN MagicPad
  <2>1. MagicPad[address] \in [1 .. 16 -> Word(8)]
    BY <1>1, PadAssumption, ByteIsWord, Zenon
  <2>2. counter + 1 \in 1 .. 16
    OBVIOUS
  <2>. QED  BY <1>1, <2>1, <2>2, Zenon DEF PadByte
<1>2. CASE address \notin DOMAIN MagicPad
  BY <1>2, Widths, ZeroWord DEF PadByte
<1>. QED  BY <1>1, <1>2

LEMMA TableOf ==
    ASSUME NEW x \in Word(8), NEW b \in Word(8)
    PROVE  /\ VolkswagenByte[x][b] = crc8_lut_8h2f[Xor(x, b)]
           /\ crc8_lut_8h2f[x] = VolkswagenByte[x][0]
<1>1. \A y, c : y \in Word(8) /\ c \in Word(8) => VolkswagenByte[y][c] = crc8_lut_8h2f[Xor(y, c)]
  <2>1. \A y : y \in Word(8) => y \in Nat
    BY WordIs
  <2>. QED  BY <2>1, Zenon DEF VolkswagenByte
<1>2. 0 \in Word(8) /\ Xor(x, 0) = x
  BY Widths, XorNone, ZeroWord
<1>. QED  BY <1>1, <1>2, Zenon

LEMMA CrcsFit ==
    ASSUME NEW L \in Nat \ {0}, NEW d, IsBytes(d, L), NEW address \in Nat
    PROVE  /\ ChryslerChecksum(d) \in Word(8) /\ PedalChecksum(d) \in Word(8)
           /\ VolkswagenPayload(d) \in Word(8)
           /\ HkgCanFdChecksum(address, d) \in Word(16)
<1>1. 255 \in Word(8) /\ 0 \in Word(16)
  BY WordIs
<1>2. Loop(ChryslerByte, 255, Front(d)) \in Word(8)
  BY <1>1, FrontIs, StepsLossless, LosslessType
<1>3. Loop(PedalByte, 255, Reverse(Front(d))) \in Word(8)
  BY <1>1, BackIs, StepsLossless, LosslessType
<1>4. Loop(VolkswagenByte, 255, Tail(d)) \in Word(8)
  BY <1>1, TailIs, StepsLossless, LosslessType
<1>5. PICK a \in Word(8), b \in Word(8) : a = address % 256 /\ b = (address \div 256) % 256
  BY AddressBytes
<1>6. PICK e : e = SubSeq(d, 3, Len(d)) \o <<a, b>> /\ IsItems(e, RestLen(L))
  BY RestIs DEF IsRest
<1>7. Loop(HkgByte, 0, e) \in Word(16)
  BY <1>1, <1>6, StepsLossless, LosslessType
<1>8. HkgCanFdChecksum(address, d) = Xor(Loop(HkgByte, 0, e), HkgFinalXor(Len(d)))
  BY <1>5, <1>6, Zenon DEF HkgCanFdChecksum
<1>9. HkgCanFdChecksum(address, d) \in Word(16)
  BY <1>7, <1>8, FinalXorIs, XorType, Widths
<1>10. ChryslerChecksum(d) \in Word(8)
  BY <1>1, <1>2, XorType, Widths DEF ChryslerChecksum
<1>. QED  BY <1>3, <1>4, <1>9, <1>10, Zenon DEF PedalChecksum, VolkswagenPayload

LEMMA XorFits ==
    ASSUME NEW L \in Nat \ {0}, NEW d, IsBytes(d, L), NEW c \in 0 .. L - 1
    PROVE  XorChecksum(c, d) \in Word(8)
<1>1. PICK e : e = SubSeq(d, 1, c) \o SubSeq(d, c + 2, Len(d)) /\ IsItems(e, L - 1)
  BY SkipIs
<1>2. Loop(Xoring, 0, e) \in Word(8)
  BY <1>1, XorLossless, LosslessType, Widths, ZeroWord
<1>. QED  BY <1>1, <1>2, Zenon DEF XorChecksum

\* The volkswagen checksum, by its step.
LEMMA VolkswagenIs ==
    ASSUME NEW L \in Nat \ {0}, NEW d, IsBytes(d, L), L >= 2, NEW address \in Nat
    PROVE  LET p == PadByte(address, d[2] % 16)  z == VolkswagenByte[VolkswagenPayload(d)][p] IN
           /\ p \in Word(8) /\ z \in Word(8)
           /\ VolkswagenMqbChecksum(address, d) = Xor(z, 255) /\ Xor(z, 255) \in Word(8)
<1>1. d[2] \in Int
  BY BytesAre, WordInt, Widths DEF IsItems
<1>2. d[2] % 16 \in 0 .. 15
  BY <1>1
<1>3. PICK p \in Word(8) : p = PadByte(address, d[2] % 16)
  BY <1>2, PadIs
<1>4. PICK x \in Word(8) : x = VolkswagenPayload(d)
  BY CrcsFit
<1>5. PICK z : z = VolkswagenByte[x][p] /\ z = crc8_lut_8h2f[Xor(x, p)]
  BY TableOf
<1>6. z \in Word(8)
  <2>1. Lossless(VolkswagenByte, Word(8), Word(8))
    BY StepsLossless
  <2>2. \A y \in Word(8), b \in Word(8) : VolkswagenByte[y][b] \in Word(8)
    BY <2>1, Zenon DEF Lossless, KeepsRegister
  <2>. QED  BY <1>5, <2>2
<1>7. Xor(z, 255) \in Word(8)
  BY <1>6, WordIs, XorType, Widths
<1>8. VolkswagenMqbChecksum(address, d) = Xor(z, 255)
  BY <1>3, <1>4, <1>5, Zenon DEF VolkswagenMqbChecksum
<1>. QED  BY <1>3, <1>4, <1>5, <1>6, <1>7, <1>8, Zenon

\* A flipped bit among the bytes that a CRC reads.
LEMMA FrontDiffers ==
    ASSUME NEW L \in Nat \ {0}, NEW d, NEW e, NEW i, NEW k, OneFlip(d, e, L, i, k), i # L
    PROVE  ChryslerChecksum(d) # ChryslerChecksum(e) /\ PedalChecksum(d) # PedalChecksum(e)
<1>1. PICK f, g : f = Front(d) /\ g = Front(e)
  OBVIOUS
<1>2. /\ IsItems(f, L - 1) /\ \A n \in 1 .. L - 1 : f[n] = d[n]
      /\ IsItems(g, L - 1) /\ \A n \in 1 .. L - 1 : g[n] = e[n]
  BY <1>1, FrontIs DEF OneFlip
<1>3. PICK r, s : r = Reverse(f) /\ s = Reverse(g)
  OBVIOUS
<1>4. /\ IsItems(r, L - 1) /\ \A n \in 1 .. L - 1 : r[n] = d[L - n]
      /\ IsItems(s, L - 1) /\ \A n \in 1 .. L - 1 : s[n] = e[L - n]
  BY <1>1, <1>3, BackIs DEF OneFlip
<1>5. PICK N \in Nat, j \in Nat : /\ N = L - 1 /\ i \in 1 .. N /\ j = L - i /\ j \in 1 .. N /\ L - j = i
                                  /\ \A n \in 1 .. N : n \in 1 .. L /\ L - n \in 1 .. L /\ (L - n = i => n = j)
  BY DEF OneFlip
<1>6. 255 \in Word(8)
  BY WordIs
<1>7. e[i] # d[i] /\ \A n \in 1 .. L : n # i => e[n] = d[n]
  BY DEF OneFlip
<1>8. f[i] # g[i] /\ \A n \in 1 .. N : n # i => f[n] = g[n]
  BY <1>2, <1>5, <1>7, Zenon
<1>9. r[j] # s[j] /\ \A n \in 1 .. N : n # j => r[n] = s[n]
  BY <1>4, <1>5, <1>7, Zenon
<1>10. Loop(ChryslerByte, 255, f) # Loop(ChryslerByte, 255, g)
  BY <1>2, <1>5, <1>6, <1>8, StepsLossless, OneItemDiffers
<1>11. Loop(PedalByte, 255, r) # Loop(PedalByte, 255, s)
  BY <1>4, <1>5, <1>6, <1>9, StepsLossless, OneItemDiffers
<1>12. Loop(ChryslerByte, 255, f) \in Word(8) /\ Loop(ChryslerByte, 255, g) \in Word(8)
  BY <1>2, <1>6, StepsLossless, LosslessType
<1>13. Xor(Loop(ChryslerByte, 255, f), 255) # Xor(Loop(ChryslerByte, 255, g), 255)
  BY <1>6, <1>10, <1>12, XorKeeps, Widths
<1>. QED  BY <1>1, <1>3, <1>11, <1>13, ZenonT(40) DEF ChryslerChecksum, PedalChecksum

LEMMA XorDiffers ==
    ASSUME NEW L \in Nat \ {0}, NEW d, NEW e, NEW i, NEW k, OneFlip(d, e, L, i, k),
           NEW c \in 0 .. L - 1, i # c + 1
    PROVE  XorChecksum(c, d) # XorChecksum(c, e)
<1>1. PICK f, g : /\ f = SubSeq(d, 1, c) \o SubSeq(d, c + 2, Len(d))
                  /\ g = SubSeq(e, 1, c) \o SubSeq(e, c + 2, Len(e))
  OBVIOUS
<1>2. /\ IsItems(f, L - 1) /\ \A n \in 1 .. L - 1 : f[n] = d[IF n <= c THEN n ELSE n + 1]
      /\ IsItems(g, L - 1) /\ \A n \in 1 .. L - 1 : g[n] = e[IF n <= c THEN n ELSE n + 1]
  BY <1>1, SkipIs DEF OneFlip
<1>3. i \in 1 .. L /\ e[i] # d[i] /\ \A n \in 1 .. L : n # i => e[n] = d[n]
  BY DEF OneFlip
<1>4. PICK N \in Nat, j \in Nat : N = L - 1 /\ j = IF i <= c THEN i ELSE i - 1
  BY <1>3
<1>5. j \in 1 .. N /\ (IF j <= c THEN j ELSE j + 1) = i
  BY <1>3, <1>4
<1>6. ASSUME NEW n \in 1 .. N, n # j
      PROVE  f[n] = g[n]
  <2>1. PICK t \in Nat : t = IF n <= c THEN n ELSE n + 1
    OBVIOUS
  <2>2. t \in 1 .. L /\ t # i
    BY <1>3, <1>4, <1>6, <2>1
  <2>3. e[t] = d[t]
    BY <1>3, <2>2
  <2>. QED  BY <1>2, <1>4, <2>1, <2>3, Zenon
<1>7. f[j] # g[j]
  BY <1>2, <1>3, <1>4, <1>5, Zenon
<1>8. Loop(Xoring, 0, f) # Loop(Xoring, 0, g)
  <2>1. 0 \in Word(8)
    BY Widths, ZeroWord
  <2>. QED  BY <1>2, <1>4, <1>5, <1>6, <1>7, <2>1, XorLossless, OneItemDiffers
<1>. QED  BY <1>1, <1>8, Zenon DEF XorChecksum

LEMMA HyundaiDiffers ==
    ASSUME NEW L \in Nat \ {0}, NEW d, NEW e, NEW i, NEW k, OneFlip(d, e, L, i, k), i >= 3, NEW address \in Nat
    PROVE  HkgCanFdChecksum(address, d) # HkgCanFdChecksum(address, e)
<1>1. PICK a \in Word(8), b \in Word(8) : a = address % 256 /\ b = (address \div 256) % 256
  BY AddressBytes
<1>2. PICK f, g : f = SubSeq(d, 3, Len(d)) \o <<a, b>> /\ g = SubSeq(e, 3, Len(e)) \o <<a, b>>
  OBVIOUS
<1>3. i \in 1 .. L /\ e[i] # d[i] /\ \A n \in 1 .. L : n # i => e[n] = d[n]
  BY DEF OneFlip
<1>4. L >= 3 /\ RestLen(L) = L
  BY <1>3 DEF RestLen
<1>5. /\ IsItems(f, L) /\ f[L - 1] = a /\ f[L] = b /\ \A n \in 1 .. L - 2 : f[n] = d[n + 2]
      /\ IsItems(g, L) /\ g[L - 1] = a /\ g[L] = b /\ \A n \in 1 .. L - 2 : g[n] = e[n + 2]
  <2>1. IsRest(f, d, L, a, b) /\ IsRest(g, e, L, a, b)
    BY <1>2, RestIs, Zenon DEF OneFlip
  <2>. QED  BY <1>4, <2>1, Zenon DEF IsRest
<1>6. PICK j \in Nat : j = i - 2 /\ j \in 1 .. L - 2 /\ j \in 1 .. L /\ j + 2 = i
  BY <1>3
<1>7. f[j] # g[j]
  BY <1>3, <1>5, <1>6, Zenon
<1>8. ASSUME NEW n \in 1 .. L, n # j
      PROVE  f[n] = g[n]
  <2>1. CASE n \in 1 .. L - 2
    <3>1. n + 2 \in 1 .. L /\ n + 2 # i
      BY <1>6, <1>8, <2>1
    <3>2. e[n + 2] = d[n + 2]
      BY <1>3, <3>1
    <3>. QED  BY <1>5, <2>1, <3>2, Zenon
  <2>2. CASE n \notin 1 .. L - 2
    <3>1. n = L - 1 \/ n = L
      BY <2>2
    <3>. QED  BY <1>5, <3>1, Zenon
  <2>. QED  BY <2>1, <2>2
<1>9. 0 \in Word(16)
  BY WordIs
<1>10. Loop(HkgByte, 0, f) # Loop(HkgByte, 0, g)
  BY <1>5, <1>6, <1>7, <1>8, <1>9, StepsLossless, OneItemDiffers
<1>11. Loop(HkgByte, 0, f) \in Word(16) /\ Loop(HkgByte, 0, g) \in Word(16)
  BY <1>5, <1>9, StepsLossless, LosslessType
<1>12. Len(d) = Len(e)
  BY BytesAre DEF OneFlip
<1>13. Xor(Loop(HkgByte, 0, f), HkgFinalXor(Len(d))) # Xor(Loop(HkgByte, 0, g), HkgFinalXor(Len(d)))
  BY <1>10, <1>11, FinalXorIs, XorKeeps, Widths
<1>14. HkgCanFdChecksum(address, d) = Xor(Loop(HkgByte, 0, f), HkgFinalXor(Len(d)))
  BY <1>1, <1>2, Zenon DEF HkgCanFdChecksum
<1>15. HkgCanFdChecksum(address, e) = Xor(Loop(HkgByte, 0, g), HkgFinalXor(Len(e)))
  BY <1>1, <1>2, Zenon DEF HkgCanFdChecksum
<1>. QED  BY <1>12, <1>13, <1>14, <1>15, Zenon

\* A flipped bit is the exclusive or with its power of two.
LEMMA FlippedXor ==
    ASSUME NEW x \in Word(8), NEW k \in 0 .. 7
    PROVE  Pow2[k] \in Word(8) /\ FlippedBit(x, k) = Xor(x, Pow2[k])
<1>1. IsWidth(8) /\ 0 \in Word(8) /\ \A j \in 0 .. 8 - 1 : Bit(0, j) = 0
  BY Widths, ZeroWord
<1>2. k \in 0 .. 8 - 1 /\ k \in Nat /\ x \in Int /\ \A j \in 0 .. 8 - 1 : j \in Nat
  BY WordIs
<1>3. PICK p \in Word(8) : p = Pow2[k] /\ p = FlippedBit(0, k)
  <2>1. Pow2[k] \in Int
    BY <1>2, PowNat
  <2>2. FlippedBit(0, k) = 0 + Pow2[k] /\ FlippedBit(0, k) \in Word(8)
    BY <1>1, <1>2, FlippedByte DEF FlippedBit
  <2>. QED  BY <2>1, <2>2
<1>4. PICK y \in Word(8) : y = FlippedBit(x, k)
  BY FlippedByte
<1>5. \A j \in 0 .. 8 - 1 : IF j = k THEN Bit(p, j) # 0 /\ Bit(y, j) # Bit(x, j)
                                     ELSE Bit(p, j) = 0 /\ Bit(y, j) = Bit(x, j)
  <2>1. Bit(p, k) # Bit(0, k) /\ \A j \in Nat : j # k => Bit(p, j) = Bit(0, j)
    BY <1>2, <1>3, FlippedBits
  <2>2. Bit(y, k) # Bit(x, k) /\ \A j \in Nat : j # k => Bit(y, j) = Bit(x, j)
    BY <1>2, <1>4, FlippedBits
  <2>. QED  BY <1>1, <1>2, <2>1, <2>2, Zenon
<1>6. PICK s \in Word(8) : s = Xor(x, p) /\ \A j \in 0 .. 8 - 1 : Bit(s, j) = (Bit(x, j) + Bit(p, j)) % 2
  BY <1>1, XorBits
<1>7. ASSUME NEW j \in 0 .. 8 - 1
      PROVE  Bit(y, j) = Bit(s, j)
  <2>1. PICK a \in 0 .. 1, b \in 0 .. 1, c \in 0 .. 1 : a = Bit(x, j) /\ b = Bit(p, j) /\ c = Bit(y, j)
    BY <1>1, WordBit
  <2>2. Bit(s, j) = (a + b) % 2
    BY <1>6, <2>1
  <2>3. IF j = k THEN b # 0 /\ c # a ELSE b = 0 /\ c = a
    BY <1>5, <2>1, Zenon
  <2>4. c = (a + b) % 2
    BY <2>3
  <2>. QED  BY <2>1, <2>2, <2>4
<1>8. y = s
  BY <1>1, <1>7, WordsEqual
<1>. QED  BY <1>3, <1>4, <1>6, <1>8, Zenon

-----------------------------------------------------------------------------
LEMMA TableIsTurns == crc8_lut_8h2f = TurnsOf(8, 47)
BY Top8, Zenon DEF crc8_lut_8h2f, TurnsOf

LEMMA BytesAdd ==
    ASSUME NEW x \in Word(8), NEW y \in Word(8), NEW p \in Word(8), NEW q \in Word(8)
    PROVE  /\ VolkswagenByte[x][p] \in Word(8) /\ VolkswagenByte[y][q] \in Word(8)
           /\ VolkswagenByte[Xor(x, y)][Xor(p, q)] = Xor(VolkswagenByte[x][p], VolkswagenByte[y][q])
<1>1. IsWidth(8) /\ 47 \in Word(8)
  BY Widths, Polynomials
<1>2. PICK xp \in Word(8), yq \in Word(8), xy \in Word(8), pq \in Word(8) :
         xp = Xor(x, p) /\ yq = Xor(y, q) /\ xy = Xor(x, y) /\ pq = Xor(p, q)
  BY <1>1, XorType
<1>3. Xor(xy, pq) = Xor(xp, yq)
  BY <1>1, <1>2, XorFour
<1>4. PICK T : T = crc8_lut_8h2f /\ T = TurnsOf(8, 47)
  BY TableIsTurns
<1>5. /\ VolkswagenByte[x][p] = T[xp] /\ VolkswagenByte[y][q] = T[yq]
      /\ VolkswagenByte[xy][pq] = T[Xor(xy, pq)]
  <2>1. /\ VolkswagenByte[x][p] = crc8_lut_8h2f[Xor(x, p)]
        /\ VolkswagenByte[y][q] = crc8_lut_8h2f[Xor(y, q)]
        /\ VolkswagenByte[xy][pq] = crc8_lut_8h2f[Xor(xy, pq)]
    BY TableOf
  <2>. QED  BY <1>2, <1>4, <2>1, Zenon
<1>6. T[Xor(xp, yq)] = Xor(T[xp], T[yq])
  <2>1. TurnsOf(8, 47)[Xor(xp, yq)] = Xor(TurnsOf(8, 47)[xp], TurnsOf(8, 47)[yq])
    BY <1>1, TableAdds
  <2>. QED  BY <1>4, <2>1, Zenon
<1>7. T[xp] \in Word(8) /\ T[yq] \in Word(8)
  BY <1>1, <1>4, TableIs, Zenon
<1>. QED  BY <1>2, <1>3, <1>5, <1>6, <1>7, Zenon

\* A flip of bit k of the second byte adds its spread to the payload CRC.
LEMMA PayloadAdds ==
    ASSUME NEW L \in Nat \ {0}, NEW d, NEW e, NEW k, OneFlip(d, e, L, 2, k)
    PROVE  /\ CounterSpread(k, L - 1) \in Word(8)
           /\ VolkswagenPayload(e) = Xor(VolkswagenPayload(d), CounterSpread(k, L - 1))
<1>1. PICK N \in Nat : N = L - 1 /\ 1 \in 1 .. N /\ L >= 2 /\ k \in 0 .. 7
  BY DEF OneFlip
<1>2. PICK f, g : f = Tail(d) /\ g = Tail(e)
  OBVIOUS
<1>3. /\ IsItems(f, N) /\ \A n \in 1 .. N : f[n] = d[n + 1]
      /\ IsItems(g, N) /\ \A n \in 1 .. N : g[n] = e[n + 1]
  BY <1>1, <1>2, TailIs DEF OneFlip
<1>4. PICK p \in Word(8) : p = Pow2[k]
  BY <1>1, Widths, ZeroWord, FlippedXor
<1>5. PICK s : s = [i \in 1 .. N |-> IF i = 1 THEN p ELSE 0]
  OBVIOUS
<1>6. IsWidth(8) /\ 0 \in Word(8) /\ 255 \in Word(8) /\ Xor(255, 0) = 255
  BY Widths, ZeroWord, WordIs, XorNone
<1>7. Len(s) = N /\ \A n \in 1 .. N : s[n] = (IF n = 1 THEN p ELSE 0) /\ s[n] \in Word(8)
  <2>1. \A n \in 1 .. N : s[n] = (IF n = 1 THEN p ELSE 0)
    BY <1>5, Zenon
  <2>2. Len(s) = N
    BY <1>5
  <2>3. \A n \in 1 .. N : s[n] \in Word(8)
    BY <1>6, <2>1
  <2>. QED  BY <2>1, <2>2, <2>3
<1>8. ASSUME NEW n \in 1 .. N
      PROVE  f[n] \in Word(8) /\ g[n] = Xor(f[n], s[n])
  <2>1. PICK x \in Word(8) : x = f[n]
    BY <1>3 DEF IsItems
  <2>2. CASE n = 1
    <3>1. g[n] = FlippedBit(x, k)
      BY <1>3, <2>1, <2>2 DEF OneFlip
    <3>2. g[n] = Xor(x, p)
      BY <1>1, <1>4, <3>1, FlippedXor
    <3>. QED  BY <1>7, <2>1, <2>2, <3>2, Zenon
  <2>3. CASE n # 1
    <3>1. n + 1 \in 1 .. L /\ n + 1 # 2
      BY <1>1, <2>3
    <3>2. g[n] = x
      BY <1>3, <2>1, <3>1 DEF OneFlip
    <3>3. s[n] = 0
      BY <1>7, <2>3, Zenon
    <3>4. Xor(x, 0) = x
      BY <1>6, XorNone
    <3>. QED  BY <2>1, <3>2, <3>3, <3>4, Zenon
  <2>. QED  BY <2>2, <2>3
<1>9. AddsUp(VolkswagenByte, 8, N, f, s, g)
  <2>1. ASSUME NEW n \in 1 .. N, NEW x \in Word(8), NEW y \in Word(8)
        PROVE  /\ VolkswagenByte[x][f[n]] \in Word(8) /\ VolkswagenByte[y][s[n]] \in Word(8)
               /\ VolkswagenByte[Xor(x, y)][g[n]] = Xor(VolkswagenByte[x][f[n]], VolkswagenByte[y][s[n]])
    <3>1. PICK a \in Word(8), b \in Word(8) : a = f[n] /\ b = s[n] /\ g[n] = Xor(a, b)
      BY <1>7, <1>8, ZenonT(40)
    <3>2. /\ VolkswagenByte[x][a] \in Word(8) /\ VolkswagenByte[y][b] \in Word(8)
          /\ VolkswagenByte[Xor(x, y)][Xor(a, b)] = Xor(VolkswagenByte[x][a], VolkswagenByte[y][b])
      BY BytesAdd
    <3>. QED  BY <3>1, <3>2, Zenon
  <2>. QED  BY <2>1, Zenon DEF AddsUp
<1>10. Len(f) = N /\ Len(g) = N
  BY <1>3 DEF IsItems
<1>11. PICK A, B, C : /\ A = Loop(VolkswagenByte, 255, f) /\ B = Loop(VolkswagenByte, 0, s)
                      /\ C = Loop(VolkswagenByte, Xor(255, 0), g)
  OBVIOUS
<1>12. C = Xor(A, B)
  <2>1. PICK w : w = 8
    OBVIOUS
  <2>2. IsWidth(w) /\ 255 \in Word(w) /\ 0 \in Word(w) /\ AddsUp(VolkswagenByte, w, N, f, s, g)
    BY <1>6, <1>9, <2>1
  <2>3. Loop(VolkswagenByte, Xor(255, 0), g) = Xor(Loop(VolkswagenByte, 255, f), Loop(VolkswagenByte, 0, s))
    BY <1>7, <1>10, <2>2, LoopsAdd
  <2>. QED  BY <1>11, <2>3, Zenon
<1>13. B \in Word(8)
  <2>1. IsItems(s, N)
    BY <1>7, Zenon DEF IsItems
  <2>. QED  BY <1>6, <1>11, <2>1, StepsLossless, LosslessType
<1>14. CounterSpread(k, L - 1) = B
  BY <1>1, <1>4, <1>5, <1>11, Zenon DEF CounterSpread
<1>15. VolkswagenPayload(d) = A /\ VolkswagenPayload(e) = C
  BY <1>2, <1>6, <1>11, Zenon DEF VolkswagenPayload
<1>. QED  BY <1>12, <1>13, <1>14, <1>15, Zenon

-----------------------------------------------------------------------------
\* The padding of no two COUNTERs one bit apart differs by just that spread.
PadsApart(address, n) ==
    \A counter \in 0 .. 15, k \in 0 .. 3 :
        Xor(PadByte(address, counter), PadByte(address, FlippedBit(counter, k))) # CounterSpread(k, n)

LEMMA VolkswagenDiffers ==
    ASSUME NEW L \in Nat \ {0}, NEW d, NEW e, NEW i, NEW k, OneFlip(d, e, L, i, k), i # 1,
           NEW address \in Nat, PadsApart(address, L - 1)
    PROVE  VolkswagenMqbChecksum(address, d) # VolkswagenMqbChecksum(address, e)
<1>1. /\ IsBytes(d, L) /\ IsBytes(e, L) /\ i \in 1 .. L /\ k \in 0 .. 7 /\ L >= 2
      /\ e[i] = FlippedBit(d[i], k) /\ e[i] # d[i] /\ \A n \in 1 .. L : n # i => e[n] = d[n]
  BY DEF OneFlip
<1>2. PICK p \in Word(8), q \in Word(8) : p = PadByte(address, d[2] % 16) /\ q = PadByte(address, e[2] % 16)
  BY <1>1, VolkswagenIs
<1>3. PICK x \in Word(8), y \in Word(8) : x = VolkswagenPayload(d) /\ y = VolkswagenPayload(e)
  BY <1>1, CrcsFit
<1>4. PICK u \in Word(8), v \in Word(8) : u = VolkswagenByte[x][p] /\ v = VolkswagenByte[y][q]
  <2>1. Lossless(VolkswagenByte, Word(8), Word(8))
    BY StepsLossless
  <2>2. \A a \in Word(8), b \in Word(8) : VolkswagenByte[a][b] \in Word(8)
    BY <2>1, Zenon DEF Lossless, KeepsRegister
  <2>. QED  BY <2>2
<1>5. VolkswagenMqbChecksum(address, d) = Xor(u, 255) /\ VolkswagenMqbChecksum(address, e) = Xor(v, 255)
  <2>1. VolkswagenMqbChecksum(address, d) = Xor(VolkswagenByte[VolkswagenPayload(d)][PadByte(address, d[2] % 16)], 255)
    BY <1>1, VolkswagenIs
  <2>2. VolkswagenMqbChecksum(address, e) = Xor(VolkswagenByte[VolkswagenPayload(e)][PadByte(address, e[2] % 16)], 255)
    BY <1>1, VolkswagenIs
  <2>. QED  BY <1>2, <1>3, <1>4, <2>1, <2>2, Zenon
<1>6. SUFFICES u # v
  BY <1>5, WordIs, XorKeeps, Widths
<1>7. d[2] \in Word(8) /\ e[2] \in Word(8)
  BY <1>1, BytesAre DEF IsItems
<1>8. CASE i = 2 /\ k < 4
  <2>1. PICK c \in 0 .. 15 : c = d[2] % 16 /\ k \in 0 .. 3
    BY <1>1, <1>7, <1>8, WordIs
  <2>2. e[2] % 16 = FlippedBit(c, k)
    BY <1>1, <1>7, <1>8, <2>1, FlippedByte
  <2>3. PICK s \in Word(8) : s = CounterSpread(k, L - 1) /\ y = Xor(x, s)
    BY <1>3, <1>8, PayloadAdds
  <2>4. Xor(p, q) # s
    <3>1. p = PadByte(address, c) /\ q = PadByte(address, FlippedBit(c, k))
      BY <1>2, <2>1, <2>2, Zenon
    <3>2. Xor(PadByte(address, c), PadByte(address, FlippedBit(c, k))) # CounterSpread(k, L - 1)
      BY <2>1, Zenon DEF PadsApart
    <3>. QED  BY <2>3, <3>1, <3>2, Zenon
  <2>5. ASSUME u = v
        PROVE  FALSE
    <3>1. IsWidth(8) /\ 47 \in Word(8) /\ Bit(47, 0) = 1
      BY Widths, Polynomials
    <3>2. PICK xp \in Word(8), yq \in Word(8) : xp = Xor(x, p) /\ yq = Xor(y, q)
      BY <3>1, XorType
    <3>3. u = TurnsOf(8, 47)[xp] /\ v = TurnsOf(8, 47)[yq]
      BY <1>4, <3>2, TableOf, TableIsTurns, ZenonT(40)
    <3>4. xp = yq
      BY <2>5, <3>1, <3>3, TableKeeps
    <3>5. Xor(x, p) = Xor(x, Xor(s, q))
      BY <2>3, <3>1, <3>2, <3>4, XorJoin
    <3>6. Xor(s, q) \in Word(8)
      BY <3>1, XorType
    <3>7. p = Xor(s, q)
      BY <3>1, <3>5, <3>6, XorKeeps
    <3>8. Xor(p, q) = Xor(s, Xor(q, q))
      BY <3>1, <3>7, XorJoin
    <3>9. Xor(q, q) = 0 /\ Xor(s, 0) = s
      BY <3>1, XorSelf, XorNone
    <3>. QED  BY <2>4, <3>8, <3>9, Zenon
  <2>. QED  BY <2>5
<1>9. CASE ~(i = 2 /\ k < 4)
  <2>1. d[2] % 16 = e[2] % 16
    <3>1. CASE i # 2
      BY <1>1, <3>1
    <3>2. CASE i = 2
      <4>1. PICK a \in Word(8), b \in Word(8) : a = d[2] /\ b = e[2] /\ b = FlippedBit(a, k) /\ k >= 4
        BY <1>1, <1>7, <1>9, <3>2
      <4>2. \E P \in Int, r \in Int : Worth(k, P, r, a, b)
        BY <1>1, <4>1, FlippedByte
      <4>3. b % 16 = a % 16
        BY <4>1, <4>2, Zenon DEF Worth
      <4>. QED  BY <4>1, <4>3, Zenon
    <3>. QED  BY <3>1, <3>2
  <2>2. p = q
    BY <1>2, <2>1, Zenon
  <2>3. PICK f, g : f = Tail(d) /\ g = Tail(e)
    OBVIOUS
  <2>4. /\ IsItems(f, L - 1) /\ \A n \in 1 .. L - 1 : f[n] = d[n + 1]
        /\ IsItems(g, L - 1) /\ \A n \in 1 .. L - 1 : g[n] = e[n + 1]
    BY <1>1, <2>3, TailIs
  <2>5. PICK N \in Nat, j \in Nat : /\ N = L - 1 /\ j = i - 1 /\ j \in 1 .. N /\ j + 1 = i
                                    /\ \A n \in 1 .. N : n + 1 \in 1 .. L /\ (n + 1 = i => n = j)
    BY <1>1
  <2>6. f[j] # g[j] /\ \A n \in 1 .. N : n # j => f[n] = g[n]
    BY <1>1, <2>4, <2>5, Zenon
  <2>7. 255 \in Word(8)
    BY WordIs
  <2>8. Loop(VolkswagenByte, 255, f) # Loop(VolkswagenByte, 255, g)
    BY <2>4, <2>5, <2>6, <2>7, StepsLossless, OneItemDiffers
  <2>9. x # y
    BY <1>3, <2>3, <2>8, Zenon DEF VolkswagenPayload
  <2>10. Lossless(VolkswagenByte, Word(8), Word(8))
    BY StepsLossless
  <2>11. VolkswagenByte[x][p] = VolkswagenByte[y][p] => x = y
    BY <2>10, Zenon DEF Lossless, KeepsRegister
  <2>. QED  BY <1>4, <2>2, <2>9, <2>11, Zenon
<1>. QED  BY <1>8, <1>9

-----------------------------------------------------------------------------
(***************************************************************************)
(* 15. The messages: whose checksum they have, and where.                  *)
(***************************************************************************)
\* The message has a CHECKSUM, of one of the makes.
Checked(m) == m \in Messages /\ HasSignal(m, "CHECKSUM")

Own(m) == Layout[m]["CHECKSUM"]

LEMMA CheckedIs ==
    ASSUME NEW m, Checked(m)
    PROVE  /\ m \in Messages /\ Size[m] \in Nat \ {0} /\ Address[m] \in Nat /\ Make[m] \in Makes
           /\ InPlace(Own(m), Size[m]) /\ Own(m).size = ChecksumSize(Make[m]) /\ ~Own(m).is_signed
           /\ Own(m).size \in Nat /\ Own(m).size > 0 /\ Pow2[Own(m).size] \in Nat \ {0}
           /\ \A k \in 0 .. Own(m).size - 1 : Pos(Own(m), k) \in 0 .. 8 * Size[m] - 1
           /\ Unread(m) = {Pos(Own(m), k) : k \in 0 .. Own(m).size - 1}
<1>1. m \in Messages /\ "CHECKSUM" \in DOMAIN Layout[m]
  BY DEF Checked, HasSignal
<1>2. PICK s, L : s = Own(m) /\ L = Size[m]
  OBVIOUS
<1>3. L \in Nat /\ InPlace(s, L) /\ IsSignal(s)
  BY <1>1, <1>2, LayoutIs DEF Own, InPlace
<1>4. /\ Address[m] \in Nat /\ Make[m] \in Makes /\ s.size = ChecksumSize(Make[m])
      /\ {Pos(s, k) : k \in 0 .. s.size - 1} = Unread(m)
  BY <1>1, <1>2, MakesAssumption DEF Own, HasSignal
<1>5. ~s.is_signed
  BY <1>1, <1>2, CheckedAssumption DEF Own
<1>6. s.size \in Nat /\ s.size > 0 /\ Pow2[s.size] \in Nat \ {0}
  BY <1>3, SizeNat
<1>7. \A k \in 0 .. s.size - 1 : Pos(s, k) \in 0 .. 8 * L - 1
  <2>1. \A k \in 0 .. s.size - 1 : Pos(s, k) < 8 * L /\ Pos(s, k) \in Nat
    BY <1>3 DEF InPlace, WholeIn, IsSignal
  <2>. QED  BY <1>3, <2>1
<1>8. L # 0
  <2>1. 0 \in 0 .. s.size - 1
    BY <1>6
  <2>2. Pos(s, 0) \in 0 .. 8 * L - 1
    BY <1>7, <2>1
  <2>. QED  BY <2>2
<1>. QED  BY <1>1, <1>2, <1>3, <1>4, <1>5, <1>6, <1>7, <1>8

\* The byte of its CHECKSUM, which xor_checksum is given.
LEMMA OwnByteIs ==
    ASSUME NEW m, Checked(m), Make[m] = "xor"
    PROVE  /\ ByteOf(Own(m).lsb) \in 0 .. Size[m] - 1
           /\ Unread(m) = 8 * ByteOf(Own(m).lsb) .. 8 * ByteOf(Own(m).lsb) + 7
<1>1. PICK c \in Int : c = ByteOf(Own(m).lsb)
  BY CheckedIs DEF InPlace, IsSignal, ByteOf
<1>2. Unread(m) = 8 * c .. 8 * c + 7
  BY <1>1 DEF Unread, Own
<1>3. 8 * c \in 0 .. 8 * Size[m] - 1
  <2>1. 8 * c \in Unread(m)
    BY <1>2
  <2>. QED  BY <2>1, CheckedIs
<1>4. c \in 0 .. Size[m] - 1
  BY <1>3, CheckedIs
<1>. QED  BY <1>1, <1>2, <1>4

LEMMA UnreadIs ==
    ASSUME NEW m, Checked(m)
    PROVE  /\ Make[m] = "honda" => Unread(m) = 8 * (Size[m] - 1) .. 8 * (Size[m] - 1) + 3
           /\ Make[m] \in {"toyota", "chrysler", "body"} =>
                 Unread(m) = 8 * (Size[m] - 1) .. 8 * (Size[m] - 1) + 7
           /\ Make[m] \in {"subaru", "volkswagen"} => Unread(m) = 0 .. 7
           /\ Make[m] = "hyundai_canfd" => Unread(m) = 0 .. 15
BY DEF Unread

LEMMA ChecksumIs ==
    ASSUME NEW m, NEW d
    PROVE  /\ Make[m] = "honda" => MessageChecksum(m, d) = HondaChecksum(Address[m], d)
           /\ Make[m] = "toyota" => MessageChecksum(m, d) = ToyotaChecksum(Address[m], d)
           /\ Make[m] = "subaru" => MessageChecksum(m, d) = SubaruChecksum(Address[m], d)
           /\ Make[m] = "chrysler" => MessageChecksum(m, d) = ChryslerChecksum(d)
           /\ Make[m] = "volkswagen" => MessageChecksum(m, d) = VolkswagenMqbChecksum(Address[m], d)
           /\ Make[m] = "xor" => MessageChecksum(m, d) = XorChecksum(ByteOf(Own(m).lsb), d)
           /\ Make[m] = "body" => MessageChecksum(m, d) = PedalChecksum(d)
           /\ Make[m] = "hyundai_canfd" => MessageChecksum(m, d) = HkgCanFdChecksum(Address[m], d)
BY DEF MessageChecksum, Own

\* The volkswagen messages are longer than a byte, and their padding is apart.
LEMMA VolkswagenFine ==
    ASSUME NEW m, Checked(m), Make[m] = "volkswagen"
    PROVE  Size[m] >= 2 /\ PadsApart(Address[m], Size[m] - 1)
<1>1. m \in Messages /\ IsVolkswagen(m)
  BY Zenon DEF Checked, IsVolkswagen
<1>2. Size[m] >= 2
  BY <1>1, PadAssumption
<1>3. PadsApart(Address[m], Size[m] - 1)
  BY <1>1, PadAssumption, Zenon DEF PadsApart
<1>. QED  BY <1>2, <1>3

-----------------------------------------------------------------------------
\* What the CHECKSUM holds does not matter.
LEMMA MessageSame ==
    ASSUME NEW m, Checked(m), NEW d, NEW e, IsBytes(d, Size[m]), IsBytes(e, Size[m]),
           SameOutside(d, e, Size[m], Unread(m))
    PROVE  MessageChecksum(m, d) = MessageChecksum(m, e)
<1>1. PICK L \in Nat \ {0}, address \in Nat : L = Size[m] /\ address = Address[m]
  BY CheckedIs
<1>2. IsBytes(d, L) /\ IsBytes(e, L) /\ Make[m] \in Makes
  BY <1>1, CheckedIs
<1>3. CASE Make[m] = "honda"
  <2>1. SameOutside(d, e, L, 8 * (L - 1) .. 8 * (L - 1) + 3)
    BY <1>1, <1>3, UnreadIs
  <2>. QED  BY <1>1, <1>2, <1>3, <2>1, HondaSame, ChecksumIs
<1>4. CASE Make[m] \in {"toyota", "chrysler", "body"}
  <2>1. SameOutside(d, e, L, 8 * (L - 1) .. 8 * (L - 1) + 7)
    BY <1>1, <1>4, UnreadIs
  <2>2. /\ ToyotaChecksum(address, d) = ToyotaChecksum(address, e)
        /\ ChryslerChecksum(d) = ChryslerChecksum(e)
        /\ PedalChecksum(d) = PedalChecksum(e)
    BY <1>2, <2>1, LastSame
  <2>. QED  BY <1>1, <1>4, <2>2, ChecksumIs
<1>5. CASE Make[m] \in {"subaru", "volkswagen"}
  <2>1. SameOutside(d, e, L, 0 .. 7)
    BY <1>1, <1>5, UnreadIs
  <2>2. /\ SubaruChecksum(address, d) = SubaruChecksum(address, e)
        /\ L >= 2 => VolkswagenMqbChecksum(address, d) = VolkswagenMqbChecksum(address, e)
    BY <1>2, <2>1, FirstSame
  <2>3. Make[m] = "volkswagen" => L >= 2
    BY <1>1, VolkswagenFine
  <2>. QED  BY <1>1, <1>5, <2>2, <2>3, ChecksumIs
<1>6. CASE Make[m] = "xor"
  <2>1. PICK c \in 0 .. L - 1 : c = ByteOf(Own(m).lsb) /\ Unread(m) = 8 * c .. 8 * c + 7
    BY <1>1, <1>6, OwnByteIs
  <2>2. XorChecksum(c, d) = XorChecksum(c, e)
    BY <1>1, <1>2, <2>1, XorSame
  <2>. QED  BY <1>6, <2>1, <2>2, ChecksumIs
<1>7. CASE Make[m] = "hyundai_canfd"
  <2>1. SameOutside(d, e, L, 0 .. 15)
    BY <1>1, <1>7, UnreadIs
  <2>. QED  BY <1>1, <1>2, <1>7, <2>1, HyundaiSame, ChecksumIs
<1>. QED  BY <1>2, <1>3, <1>4, <1>5, <1>6, <1>7 DEF Makes

\* The checksum fits the CHECKSUM.
LEMMA MessageFits ==
    ASSUME NEW m, Checked(m), NEW d, IsBytes(d, Size[m])
    PROVE  MessageChecksum(m, d) \in 0 .. Pow2[Own(m).size] - 1
<1>1. PICK L \in Nat \ {0}, address \in Nat : L = Size[m] /\ address = Address[m] /\ IsBytes(d, L)
  BY CheckedIs
<1>2. PICK w : w = Own(m).size /\ w = ChecksumSize(Make[m]) /\ Make[m] \in Makes
  BY CheckedIs
<1>3. CASE Make[m] = "honda"
  <2>1. w = 4
    BY <1>2, <1>3 DEF ChecksumSize
  <2>2. MessageChecksum(m, d) \in 0 .. Pow2[w] - 1
    BY <1>1, <1>3, <2>1, SumsFit, Powers, ChecksumIs
  <2>. QED  BY <1>2, <2>2
<1>4. CASE Make[m] = "hyundai_canfd"
  <2>1. w = 16
    BY <1>2, <1>4 DEF ChecksumSize
  <2>2. MessageChecksum(m, d) \in Word(16)
    BY <1>1, <1>4, CrcsFit, ChecksumIs
  <2>. QED  BY <1>2, <2>1, <2>2 DEF Word
<1>5. CASE Make[m] \notin {"honda", "hyundai_canfd"}
  <2>1. w = 8
    BY <1>2, <1>5 DEF ChecksumSize
  <2>2. MessageChecksum(m, d) \in Word(8)
    <3>1. CASE Make[m] \in {"toyota", "subaru"}
      BY <1>1, <3>1, SumsFit, ChecksumIs
    <3>2. CASE Make[m] \in {"chrysler", "body"}
      BY <1>1, <3>2, CrcsFit, ChecksumIs
    <3>3. CASE Make[m] = "volkswagen"
      <4>1. L >= 2
        BY <1>1, <3>3, VolkswagenFine
      <4>2. VolkswagenMqbChecksum(address, d) \in Word(8)
        BY <1>1, <4>1, VolkswagenIs
      <4>. QED  BY <1>1, <3>3, <4>2, ChecksumIs
    <3>4. CASE Make[m] = "xor"
      <4>1. PICK c \in 0 .. L - 1 : c = ByteOf(Own(m).lsb)
        BY <1>1, <3>4, OwnByteIs
      <4>2. XorChecksum(c, d) \in Word(8)
        BY <1>1, XorFits
      <4>. QED  BY <3>4, <4>1, <4>2, ChecksumIs
    <3>. QED  BY <1>2, <1>5, <3>1, <3>2, <3>3, <3>4 DEF Makes
  <2>. QED  BY <1>2, <2>1, <2>2 DEF Word
<1>. QED  BY <1>3, <1>4, <1>5

\* Each bit that is not its own matters.
LEMMA MessageDiffers ==
    ASSUME NEW m, Checked(m), NEW d, IsBytes(d, Size[m]), NEW b \in 0 .. 8 * Size[m] - 1, b \notin Unread(m)
    PROVE  MessageChecksum(m, d) # MessageChecksum(m, Flipped(d, b))
<1>1. PICK L \in Nat \ {0}, address \in Nat : L = Size[m] /\ address = Address[m] /\ IsBytes(d, L)
  BY CheckedIs
<1>2. PICK i \in Int, k \in Int : i = b \div 8 + 1 /\ k = b % 8
  OBVIOUS
<1>. DEFINE e == Flipped(d, b)
<1>3. OneFlip(d, e, L, i, k)
  BY <1>1, <1>2, FlippedFrame
<1>4. i \in 1 .. L /\ k \in 0 .. 7 /\ b = 8 * (i - 1) + k
  BY <1>1, <1>2
<1>5. Make[m] \in Makes
  BY CheckedIs
<1>. HIDE DEF e
<1>6. SUFFICES MessageChecksum(m, d) # MessageChecksum(m, e)
  BY DEF e
<1>7. CASE Make[m] = "honda"
  <2>1. b \notin 8 * (L - 1) .. 8 * (L - 1) + 3
    BY <1>1, <1>7, UnreadIs
  <2>2. i # L \/ k >= 4
    BY <1>4, <2>1
  <2>. QED  BY <1>1, <1>3, <1>7, <2>2, HondaDiffers, ChecksumIs
<1>8. CASE Make[m] \in {"toyota", "chrysler", "body"}
  <2>1. b \notin 8 * (L - 1) .. 8 * (L - 1) + 7
    BY <1>1, <1>8, UnreadIs
  <2>2. i # L
    BY <1>4, <2>1
  <2>3. /\ ToyotaChecksum(address, d) # ToyotaChecksum(address, e)
        /\ ChryslerChecksum(d) # ChryslerChecksum(e) /\ PedalChecksum(d) # PedalChecksum(e)
    BY <1>3, <2>2, ToyotaDiffers, FrontDiffers
  <2>. QED  BY <1>1, <1>8, <2>3, ChecksumIs
<1>9. CASE Make[m] \in {"subaru", "volkswagen"}
  <2>1. b \notin 0 .. 7
    BY <1>9, UnreadIs
  <2>2. i # 1
    BY <1>4, <2>1
  <2>3. CASE Make[m] = "subaru"
    BY <1>1, <1>3, <2>2, <2>3, SubaruDiffers, ChecksumIs
  <2>4. CASE Make[m] = "volkswagen"
    <3>1. PadsApart(address, L - 1)
      BY <1>1, <2>4, VolkswagenFine
    <3>. QED  BY <1>1, <1>3, <2>2, <2>4, <3>1, VolkswagenDiffers, ChecksumIs
  <2>. QED  BY <1>9, <2>3, <2>4
<1>10. CASE Make[m] = "xor"
  <2>1. PICK c \in 0 .. L - 1 : c = ByteOf(Own(m).lsb) /\ Unread(m) = 8 * c .. 8 * c + 7
    BY <1>1, <1>10, OwnByteIs
  <2>2. i # c + 1
    BY <1>4, <2>1
  <2>3. XorChecksum(c, d) # XorChecksum(c, e)
    BY <1>3, <2>2, XorDiffers
  <2>. QED  BY <1>10, <2>1, <2>3, ChecksumIs
<1>11. CASE Make[m] = "hyundai_canfd"
  <2>1. b \notin 0 .. 15
    BY <1>11, UnreadIs
  <2>2. i >= 3
    BY <1>4, <2>1
  <2>. QED  BY <1>1, <1>3, <1>11, <2>2, HyundaiDiffers, ChecksumIs
<1>. QED  BY <1>5, <1>7, <1>8, <1>9, <1>10, <1>11 DEF Makes

-----------------------------------------------------------------------------
(***************************************************************************)
(* 16. The states: the last frame; the theorems of the checksums.          *)
(***************************************************************************)
\* Checksum(m, d) is that of the make.
LEMMA ChecksumOf ==
    ASSUME ChecksumsOfMakes, NEW m, Checked(m), NEW d, IsBytes(d, Size[m])
    PROVE  Checksum(m, d) = MessageChecksum(m, d)
BY Zenon DEF ChecksumsOfMakes, Checked, IsBytes

LEMMA OwnWriteSame ==
    ASSUME NEW m, Checked(m), NEW d, IsBytes(d, Size[m]), NEW v \in Int
    PROVE  /\ IsBytes(SetValue(d, Own(m), v), Size[m])
           /\ SameOutside(d, SetValue(d, Own(m), v), Size[m], Unread(m))
<1>1. PICK s, L : s = Own(m) /\ L = Size[m] /\ L \in Nat /\ IsSignal(s) /\ IsBytes(d, L)
  BY CheckedIs DEF InPlace
<1>2. PICK e : e = SetValue(d, s, v)
  OBVIOUS
<1>3. /\ IsBytes(e, L)
      /\ \A p \in 0 .. 8 * L - 1 : (\A k \in 0 .. s.size - 1 : p # Pos(s, k)) => BitOf(e, p) = BitOf(d, p)
  BY <1>1, <1>2, SetValueBits
<1>4. Unread(m) = {Pos(s, k) : k \in 0 .. s.size - 1}
  BY <1>1, CheckedIs
<1>5. SameOutside(d, e, L, Unread(m))
  BY <1>3, <1>4, Zenon DEF SameOutside
<1>. QED  BY <1>1, <1>2, <1>3, <1>5, Zenon

(***************************************************************************)
(* What the theorems above assume of the checksums is true of all of the   *)
(* makes: each of the eight fits its CHECKSUM and does not depend on what  *)
(* the CHECKSUM holds, for every frame of bytes (common.cc).               *)
(***************************************************************************)
THEOREM MakesExcludeThemselves ==
    ASSUME ChecksumsOfMakes
    PROVE  ChecksumsExcludeThemselves
<1>1. ASSUME NEW m \in Messages, HasSignal(m, "CHECKSUM"), NEW d, IsBytes(d, Size[m])
      PROVE  ExcludesItself(m, d)
  <2>1. Checked(m)
    BY <1>1 DEF Checked
  <2>2. Checksum(m, d) \in 0 .. Pow2[Own(m).size] - 1
    BY <1>1, <2>1, ChecksumOf, MessageFits
  <2>3. ASSUME NEW v \in 0 .. Pow2[Own(m).size] - 1
        PROVE  Checksum(m, SetValue(d, Own(m), v)) = Checksum(m, d)
    <3>1. PICK P \in Nat : P = Pow2[Own(m).size]
      BY <2>1, CheckedIs
    <3>2. v \in Int
      BY <3>1
    <3>3. PICK e : e = SetValue(d, Own(m), v) /\ IsBytes(e, Size[m]) /\ SameOutside(d, e, Size[m], Unread(m))
      BY <1>1, <2>1, <3>2, OwnWriteSame
    <3>4. MessageChecksum(m, d) = MessageChecksum(m, e)
      BY <1>1, <2>1, <3>3, MessageSame
    <3>. QED  BY <1>1, <2>1, <3>3, <3>4, ChecksumOf
  <2>. QED  BY <2>2, <2>3, Zenon DEF ExcludesItself, Own
<1>. QED  BY <1>1, Zenon DEF ChecksumsExcludeThemselves, IsBytes

(***************************************************************************)
(* So the frames of the makes are parsed back, count on per message and    *)
(* implement the abstract packer, with no more assumed of their checksums  *)
(* than where the DBC files place them.                                    *)
(***************************************************************************)
THEOREM MakesPack ==
    ASSUME ChecksumsOfMakes
    PROVE  /\ PackSpec => []ParsesBack
           /\ PackSpec => CountsPerMessage
           /\ PackSpec => ImplementsPacker
<1>1. ChecksumsExcludeThemselves
  BY MakesExcludeThemselves
<1>. QED  BY <1>1, ParsesBackHolds, CountsPerMessageHolds, ImplementsPackerHolds

-----------------------------------------------------------------------------
\* A flipped bit of the CHECKSUM does not change the checksum, another one
\* does not change the CHECKSUM.
LEMMA FlippedOwn ==
    ASSUME ChecksumsOfMakes, NEW m, Checked(m), NEW d, IsBytes(d, Size[m]), NEW b \in Unread(m)
    PROVE  /\ b \in 0 .. 8 * Size[m] - 1 /\ IsBytes(Flipped(d, b), Size[m])
           /\ Checksum(m, Flipped(d, b)) = Checksum(m, d)
<1>1. PICK L \in Nat : L = Size[m] /\ IsBytes(d, L) /\ b \in 0 .. 8 * L - 1
  BY CheckedIs
<1>2. PICK e : /\ e = Flipped(d, b) /\ OneFlip(d, e, L, b \div 8 + 1, b % 8)
               /\ \A p \in 0 .. 8 * L - 1 : p # b => BitOf(e, p) = BitOf(d, p)
  BY <1>1, FlippedFrame
<1>3. IsBytes(e, L)
  BY <1>2 DEF OneFlip
<1>4. SameOutside(d, e, L, Unread(m))
  BY <1>2, Zenon DEF SameOutside
<1>5. MessageChecksum(m, d) = MessageChecksum(m, e)
  BY <1>1, <1>3, <1>4, MessageSame
<1>. QED  BY <1>1, <1>2, <1>3, <1>5, ChecksumOf

LEMMA TmpIs ==
    ASSUME NEW m, Checked(m), NEW d, IsBytes(d, Size[m])
    PROVE  /\ Tmp(m, d, "CHECKSUM") = Raw(m, d, "CHECKSUM")
           /\ Raw(m, d, "CHECKSUM") \in 0 .. Pow2[Own(m).size] - 1
           /\ \A k \in 0 .. Own(m).size - 1 : Bit(Raw(m, d, "CHECKSUM"), k) = BitOf(d, Pos(Own(m), k))
<1>1. Tmp(m, d, "CHECKSUM") = Raw(m, d, "CHECKSUM")
  BY CheckedIs, Zenon DEF Tmp, SignExtended, Raw, Own
<1>2. Raw(m, d, "CHECKSUM") = GetRawValue(d, Own(m))
  BY Zenon DEF Raw, Own
<1>. QED  BY <1>1, <1>2, CheckedIs, ReadsWhole

LEMMA FlippedRejected ==
    ASSUME ChecksumsOfMakes, NEW m, Checked(m), NEW d, IsBytes(d, Size[m]), ChecksumMatches(m, d),
           NEW b \in 0 .. 8 * Size[m] - 1
    PROVE  ~ChecksumMatches(m, Flipped(d, b))
<1>1. PICK L, s : L \in Nat /\ L = Size[m] /\ IsBytes(d, L) /\ s = Own(m) /\ b \in 0 .. 8 * L - 1
  BY CheckedIs
<1>. DEFINE e == Flipped(d, b)
<1>2. /\ OneFlip(d, e, L, b \div 8 + 1, b % 8)
      /\ \A p \in 0 .. 8 * L - 1 : IF p = b THEN BitOf(e, p) # BitOf(d, p) ELSE BitOf(e, p) = BitOf(d, p)
  BY <1>1, FlippedFrame
<1>. HIDE DEF e
<1>3. IsBytes(e, L)
  BY <1>2 DEF OneFlip
<1>4. PICK x, y : x = Raw(m, d, "CHECKSUM") /\ y = Raw(m, e, "CHECKSUM")
  OBVIOUS
<1>5. /\ Tmp(m, d, "CHECKSUM") = x /\ x \in 0 .. Pow2[s.size] - 1
      /\ \A k \in 0 .. s.size - 1 : Bit(x, k) = BitOf(d, Pos(s, k))
  BY <1>1, <1>4, TmpIs
<1>6. /\ Tmp(m, e, "CHECKSUM") = y /\ y \in 0 .. Pow2[s.size] - 1
      /\ \A k \in 0 .. s.size - 1 : Bit(y, k) = BitOf(e, Pos(s, k))
  BY <1>1, <1>3, <1>4, TmpIs
<1>7. Checksum(m, d) = x
  BY <1>5, Zenon DEF ChecksumMatches, Checked
<1>8. /\ s.size \in Nat /\ Unread(m) = {Pos(s, k) : k \in 0 .. s.size - 1}
      /\ \A k \in 0 .. s.size - 1 : Pos(s, k) \in 0 .. 8 * L - 1
  BY <1>1, CheckedIs
<1>9. SUFFICES Checksum(m, e) # y
  BY <1>6, Zenon DEF ChecksumMatches, Checked, e
<1>10. CASE b \in Unread(m)
  <2>1. Checksum(m, e) = x
    BY <1>7, <1>10, FlippedOwn DEF e
  <2>2. PICK k \in 0 .. s.size - 1 : b = Pos(s, k)
    BY <1>8, <1>10
  <2>3. Bit(y, k) # Bit(x, k)
    BY <1>1, <1>2, <1>5, <1>6, <2>2, Zenon
  <2>. QED  BY <2>1, <2>3, Zenon
<1>11. CASE b \notin Unread(m)
  <2>1. \A k \in 0 .. s.size - 1 : Bit(y, k) = Bit(x, k)
    <3>1. \A k \in 0 .. s.size - 1 : Pos(s, k) # b
      BY <1>8, <1>11, Zenon
    <3>. QED  BY <1>2, <1>5, <1>6, <1>8, <3>1, Zenon
  <2>2. y = x
    BY <1>5, <1>6, <1>8, <2>1, BitsEqual
  <2>3. MessageChecksum(m, d) # MessageChecksum(m, e)
    BY <1>11, MessageDiffers DEF e
  <2>4. Checksum(m, d) = MessageChecksum(m, d) /\ Checksum(m, e) = MessageChecksum(m, e)
    BY <1>1, <1>3, ChecksumOf
  <2>. QED  BY <1>7, <2>2, <2>3, <2>4, Zenon
<1>. QED  BY <1>10, <1>11

-----------------------------------------------------------------------------
\* The last frame is one of its message, with the CHECKSUM it should have.
SentInv ==
    bytes # << >> =>
        /\ received.address \in Messages
        /\ IsBytes(bytes, Size[received.address])
        /\ ChecksumMatches(received.address, bytes)

LEMMA SentKept ==
    ASSUME ChecksumsExcludeThemselves, PackInv, SentInv, [PackNext]_packVars
    PROVE  SentInv'
<1>1. CASE UNCHANGED packVars
  BY <1>1, Zenon DEF packVars, SentInv, ChecksumMatches, Tmp
<1>2. CASE PackUndefined
  BY <1>2, Zenon DEF PackUndefined, SentInv
<1>3. ASSUME NEW m \in sends, NEW bus \in Buses, NEW signals \in Given[m], Pack(m, bus, signals)
      PROVE  SentInv'
  <2>1. m \in Messages
    BY UserAssumption DEF PackInv
  <2>2. PICK d : d = Frame(m, signals) /\ FrameIs(m, signals, d)
    BY <2>1, NextInt, FrameHolds
  <2>3. bytes' = d /\ received' = Received(m, bus, d)
    BY <1>3, <2>2, Zenon DEF Pack
  <2>4. received'.address = m /\ received'.checksum_ok = ChecksumMatches(m, d)
    BY <2>3 DEF Received
  <2>5. received'.checksum_ok = TRUE
    BY <2>1, <2>2, <2>3, ReceivedIs
  <2>6. IsBytes(d, Size[m])
    BY <2>2 DEF FrameIs
  <2>7. ChecksumMatches(m, d)
    BY <2>4, <2>5, Zenon
  <2>. QED  BY <2>1, <2>3, <2>4, <2>6, <2>7, Zenon DEF SentInv, ChecksumMatches, Tmp
<1>. QED  BY <1>1, <1>2, <1>3 DEF PackNext

LEMMA SentInvariant ==
    ASSUME ChecksumsOfMakes
    PROVE  PackSpec => []SentInv
<1>1. ChecksumsExcludeThemselves
  BY MakesExcludeThemselves
<1>2. PackInit => SentInv
  BY DEF PackInit, SentInv
<1>3. PackInv /\ SentInv /\ [PackNext]_packVars => SentInv'
  BY <1>1, SentKept
<1>4. PackSpec => []PackInv
  BY <1>1, PackInvariant
<1>. QED  BY <1>2, <1>3, <1>4, PTL DEF PackSpec

(***************************************************************************)
(* The checksum of every frame that is packed is the same whatever its     *)
(* CHECKSUM holds, and fits it, for all makes, sizes and calls.            *)
(***************************************************************************)
THEOREM OwnBitsExcludedHolds ==
    ASSUME ChecksumsOfMakes
    PROVE  PackSpec => []OwnBitsExcluded
<1>1. SentInv => OwnBitsExcluded
  <2>. SUFFICES ASSUME SentInv, bytes # << >>, NEW m, m = received.address, HasSignal(m, "CHECKSUM")
                PROVE  /\ Checksum(m, bytes) \in 0 .. Pow2[Own(m).size] - 1
                       /\ \A k \in 0 .. Own(m).size - 1 :
                             Checksum(m, Flipped(bytes, Pos(Own(m), k))) = Checksum(m, bytes)
    BY Zenon DEF OwnBitsExcluded, Own
  <2>1. Checked(m) /\ IsBytes(bytes, Size[m])
    BY Zenon DEF SentInv, Checked
  <2>2. Checksum(m, bytes) \in 0 .. Pow2[Own(m).size] - 1
    BY <2>1, ChecksumOf, MessageFits
  <2>3. ASSUME NEW k \in 0 .. Own(m).size - 1
        PROVE  Checksum(m, Flipped(bytes, Pos(Own(m), k))) = Checksum(m, bytes)
    <3>1. Pos(Own(m), k) \in Unread(m)
      BY <2>1, CheckedIs
    <3>. QED  BY <2>1, <3>1, FlippedOwn
  <2>. QED  BY <2>2, <2>3
<1>. QED  BY <1>1, SentInvariant, PTL

(***************************************************************************)
(* A frame that was packed is rejected once any one bit of it is wrong,    *)
(* for all makes, sizes, places of the CHECKSUM and calls.                 *)
(***************************************************************************)
THEOREM BitErrorsRejectedHolds ==
    ASSUME ChecksumsOfMakes
    PROVE  PackSpec => []BitErrorsRejected
<1>1. SentInv => BitErrorsRejected
  <2>. SUFFICES ASSUME SentInv, bytes # << >>, NEW m, m = received.address, HasSignal(m, "CHECKSUM"),
                       NEW b \in 0 .. 8 * Len(bytes) - 1
                PROVE  ~ChecksumMatches(m, Flipped(bytes, b))
    BY Zenon DEF BitErrorsRejected
  <2>1. Checked(m) /\ IsBytes(bytes, Size[m]) /\ ChecksumMatches(m, bytes)
    BY Zenon DEF SentInv, Checked
  <2>2. Len(bytes) = Size[m]
    BY <2>1 DEF IsBytes
  <2>. QED  BY <2>1, <2>2, FlippedRejected
<1>. QED  BY <1>1, SentInvariant, PTL

(***************************************************************************)
(* The four ways in which the CRCs are written divide bit by bit by their  *)
(* polynomials, for frames of every size.                                  *)
(***************************************************************************)
THEOREM ChecksumsAreCrcsHolds ==
    ASSUME ChecksumsOfMakes
    PROVE  PackSpec => []ChecksumsAreCrcs
<1>1. SentInv => ChecksumsAreCrcs
  <2>. SUFFICES ASSUME SentInv, bytes # << >> PROVE CrcsOf(Address[received.address], bytes)
    BY DEF ChecksumsAreCrcs, CrcsOf
  <2>1. PICK m \in Messages : m = received.address /\ IsBytes(bytes, Size[m])
    BY Zenon DEF SentInv
  <2>2. Address[m] \in Nat
    BY MakesAssumption
  <2>3. bytes \in Seq(0 .. 255) /\ Len(bytes) = Size[m]
    BY <2>1 DEF IsBytes
  <2>4. Size[m] \in Nat \ {0}
    BY <2>3
  <2>. QED  BY <2>1, <2>2, <2>4, CrcsAre
<1>. QED  BY <1>1, SentInvariant, PTL
=============================================================================
