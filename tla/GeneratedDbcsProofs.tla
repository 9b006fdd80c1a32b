------------------------- MODULE GeneratedDbcsProofs -------------------------
(***************************************************************************)
(* The reader, the generator and the Python classes, in six parts.  The    *)
(* first three are the reader alone, for every text, every name and        *)
(* whatever a read beyond be_bits finds.                                   *)
(*                                                                         *)
(* 1. Texts: what Messages, Signals, Values and WellFormed, which look at  *)
(*    a whole text, say of its first n + 1 lines, given what they say of   *)
(*    its first n.                                                         *)
(* 2. The locals of dbc_parse_from_stream and its maps: ReaderInv.         *)
(* 3. After each line, what is read is what the lines so far mean:         *)
(*    ReadInv.                                                             *)
(* 4. The generator alone: CompleteIsCurrent and NothingStale for any      *)
(*    revisions, scripts, imports and any number of kills and changes of   *)
(*    revision.                                                            *)
(* 5. The Python classes, for whatever the reader may have parsed.         *)
(* 6. Their composition: what is generated is a text the reader may be     *)
(*    given, none of the three moves the state of another, and so the      *)
(*    guarantees of all hold together.                                     *)
(***************************************************************************)
EXTENDS GeneratedDbcs, SequenceTheorems, WellFoundedInduction, TLAPS

-----------------------------------------------------------------------------
(***************************************************************************)
(* 1. Texts                                                                *)
(***************************************************************************)
\* Induction up to n, over a set: the theorems of the library take an operator.
LEMMA UpTo ==
    ASSUME NEW n \in Nat, NEW S, 0 \in S, \A m \in 0 .. n - 1 : m \in S => m + 1 \in S
    PROVE  \A m \in 0 .. n : m \in S
<1>. DEFINE Less == {p \in Nat \X Nat : p[1] < p[2]}
            T    == {m \in 0 .. n : m \notin S}
<1>1. IsWellFoundedOn(Less, Nat)
  BY NatLessThanWellFounded DEF OpToRel
<1>. SUFFICES ASSUME T # {} PROVE FALSE
  OBVIOUS
<1>2. T \subseteq Nat
  OBVIOUS
<1>3. \E z \in T : \A w \in T : ~ (<<w, z>> \in Less)
  <2>. HIDE DEF Less, T
  <2>. QED  BY <1>1, <1>2, WFMin
<1>4. PICK z \in T : \A w \in T : ~ (<<w, z>> \in Less)
  BY <1>3
<1>5. z - 1 \in 0 .. n - 1 /\ z - 1 + 1 = z
  <2>1. z # 0 /\ z \in 0 .. n
    OBVIOUS
  <2>. QED  BY <2>1
<1>6. z - 1 \in T
  BY <1>5
<1>7. <<z - 1, z>> \in Less
  <2>1. z - 1 \in Nat /\ z \in Nat /\ z - 1 < z
    BY <1>2, <1>6
  <2>. QED  BY <2>1
<1>. QED  BY <1>4, <1>6, <1>7

\* The recursive function of Kept exists; it is named Up, for its values.
IsUpto(Up, s, ix) ==
    Up = [n \in 0 .. Len(s) |-> IF n = 0 THEN << >>
                                ELSE IF n \in ix THEN Append(Up[n - 1], s[n]) ELSE Up[n - 1]]

LEMMA UptoExists ==
    ASSUME NEW T, NEW s \in Seq(T), NEW ix
    PROVE  \E Up : IsUpto(Up, s, ix)
<1>. DEFINE Run(m, Up) ==
              /\ Up \in [0 .. m -> Seq(T)]
              /\ Up[0] = << >>
              /\ \A n \in 1 .. m :
                    Up[n] = IF n \in ix THEN Append(Up[n - 1], s[n]) ELSE Up[n - 1]
            S == {m \in 0 .. Len(s) : \E Up : Run(m, Up)}
<1>0. Len(s) \in Nat
  OBVIOUS
<1>1. 0 \in S
  <2>. DEFINE Up == [n \in 0 .. 0 |-> << >>]
  <2>1. Up \in [0 .. 0 -> Seq(T)]
    OBVIOUS
  <2>2. Run(0, Up)
    BY <2>1
  <2>. HIDE DEF Run, Up
  <2>. QED  BY <1>0, <2>2
<1>2. ASSUME NEW m \in 0 .. Len(s) - 1, m \in S
      PROVE  m + 1 \in S
  <2>1. PICK Up : Run(m, Up)
    BY <1>2
  <2>. DEFINE next == IF m + 1 \in ix THEN Append(Up[m], s[m + 1]) ELSE Up[m]
              Longer == [n \in 0 .. m + 1 |-> IF n = m + 1 THEN next ELSE Up[n]]
  <2>2. s[m + 1] \in T /\ Up[m] \in Seq(T)
    BY <2>1
  <2>3. next \in Seq(T)
    BY <2>2
  <2>4. Longer \in [0 .. m + 1 -> Seq(T)]
    <3>. HIDE DEF next
    <3>. QED  BY <2>1, <2>3
  <2>5. Longer[0] = << >>
    BY <2>1
  <2>6. ASSUME NEW n \in 1 .. m + 1
        PROVE  Longer[n] = IF n \in ix THEN Append(Longer[n - 1], s[n]) ELSE Longer[n - 1]
    <3>1. CASE n = m + 1
      <4>1. Longer[n] = next /\ Longer[n - 1] = Up[m]
        <5>. HIDE DEF next
        <5>. QED  BY <3>1
      <4>. QED  BY <3>1, <4>1
    <3>2. CASE n # m + 1
      <4>1. n \in 1 .. m
        BY <3>2
      <4>2. Longer[n] = Up[n] /\ Longer[n - 1] = Up[n - 1]
        <5>. HIDE DEF next
        <5>. QED  BY <4>1
      <4>. QED  BY <2>1, <4>1, <4>2
    <3>. QED  BY <3>1, <3>2
  <2>7. Run(m + 1, Longer)
    <3>. HIDE DEF Longer
    <3>. QED  BY <2>4, <2>5, <2>6
  <2>8. m + 1 \in 0 .. Len(s)
    OBVIOUS
  <2>. HIDE DEF Longer, Run
  <2>. QED  BY <2>7, <2>8
<1>3. Len(s) \in S
  <2>. HIDE DEF S
  <2>1. \A m \in 0 .. Len(s) - 1 : m \in S => m + 1 \in S
    BY <1>2
  <2>2. \A m \in 0 .. Len(s) : m \in S
    BY <1>0, <1>1, <2>1, UpTo, Zenon
  <2>. QED  BY <1>0, <2>2
<1>4. PICK Up : Run(Len(s), Up)
  BY <1>3
<1>5. Up = [n \in 0 .. Len(s) |-> Up[n]]
  <2>1. Up \in [0 .. Len(s) -> Seq(T)]
    BY <1>4
  <2>. QED  BY <2>1
<1>6. \A n \in 0 .. Len(s) :
         Up[n] = IF n = 0 THEN << >>
                 ELSE IF n \in ix THEN Append(Up[n - 1], s[n]) ELSE Up[n - 1]
  <2>1. /\ Up[0] = << >>
        /\ \A n \in 1 .. Len(s) :
              Up[n] = IF n \in ix THEN Append(Up[n - 1], s[n]) ELSE Up[n - 1]
    BY <1>4
  <2>2. \A n \in 0 .. Len(s) : n # 0 => n \in 1 .. Len(s)
    BY <1>0
  <2>. QED  BY <2>1, <2>2, Zenon
<1>7. IsUpto(Up, s, ix)
  BY <1>5, <1>6 DEF IsUpto
<1>. QED  BY <1>7

LEMMA UptoAt ==
    ASSUME NEW T, NEW s \in Seq(T), NEW ix, NEW Up, IsUpto(Up, s, ix)
    PROVE  /\ Up[0] = << >>
           /\ \A n \in 0 .. Len(s) - 1 :
                 Up[n + 1] = IF n + 1 \in ix THEN Append(Up[n], s[n + 1]) ELSE Up[n]
<1>1. \A n \in 0 .. Len(s) :
         Up[n] = IF n = 0 THEN << >>
                 ELSE IF n \in ix THEN Append(Up[n - 1], s[n]) ELSE Up[n - 1]
  BY Zenon DEF IsUpto
<1>2. Len(s) \in Nat
  OBVIOUS
<1>3. ASSUME NEW n \in 0 .. Len(s) - 1
      PROVE  Up[n + 1] = IF n + 1 \in ix THEN Append(Up[n], s[n + 1]) ELSE Up[n]
  <2>1. n + 1 \in 0 .. Len(s) /\ n + 1 # 0 /\ n + 1 - 1 = n
    BY <1>2
  <2>. QED  BY <1>1, <2>1
<1>. QED  BY <1>1, <1>2, <1>3

LEMMA UptoSeq ==
    ASSUME NEW T, NEW s \in Seq(T), NEW ix, NEW R, \A i \in 1 .. Len(s) : i \in ix => s[i] \in R,
           NEW Up, IsUpto(Up, s, ix), NEW n \in 0 .. Len(s)
    PROVE  Up[n] \in Seq(R)
<1>. DEFINE S == {m \in 0 .. Len(s) : Up[m] \in Seq(R)}
<1>1. 0 \in S
  <2>1. << >> \in Seq(R) /\ 0 \in 0 .. Len(s)
    OBVIOUS
  <2>. QED  BY <2>1, UptoAt
<1>2. ASSUME NEW m \in 0 .. Len(s) - 1, m \in S
      PROVE  m + 1 \in S
  <2>1. m + 1 \in 0 .. Len(s) /\ m + 1 \in 1 .. Len(s) /\ Up[m] \in Seq(R)
    BY <1>2
  <2>2. Up[m + 1] = IF m + 1 \in ix THEN Append(Up[m], s[m + 1]) ELSE Up[m]
    BY UptoAt
  <2>3. m + 1 \in ix => Append(Up[m], s[m + 1]) \in Seq(R)
    BY <2>1
  <2>4. Up[m + 1] \in Seq(R)
    BY <2>1, <2>2, <2>3
  <2>. QED  BY <2>1, <2>4
<1>0. Len(s) \in Nat
  OBVIOUS
<1>. HIDE DEF S
<1>3. \A m \in 0 .. Len(s) : m \in S
  BY <1>0, <1>1, <1>2, UpTo
<1>. QED  BY <1>3 DEF S

LEMMA KeptIs ==
    ASSUME NEW T, NEW s \in Seq(T), NEW ix
    PROVE  \E Up : IsUpto(Up, s, ix) /\ Kept(s, ix) = Up[Len(s)]
<1>. DEFINE Up == CHOOSE Up : IsUpto(Up, s, ix)
<1>1. IsUpto(Up, s, ix)
  BY UptoExists
<1>2. Kept(s, ix) = Up[Len(s)]
  BY DEF Kept, IsUpto
<1>. QED  BY <1>1, <1>2

\* A selection has the selected elements only.
LEMMA KeptSeq ==
    ASSUME NEW T, NEW s \in Seq(T), NEW ix, NEW R, \A i \in 1 .. Len(s) : i \in ix => s[i] \in R
    PROVE  Kept(s, ix) \in Seq(R)
<1>1. PICK Up : IsUpto(Up, s, ix) /\ Kept(s, ix) = Up[Len(s)]
  BY KeptIs
<1>2. Len(s) \in 0 .. Len(s)
  OBVIOUS
<1>. QED  BY <1>1, <1>2, UptoSeq

LEMMA KeptEmpty ==
    ASSUME NEW T, NEW s \in Seq(T), Len(s) = 0, NEW ix
    PROVE  Kept(s, ix) = << >>
<1>1. PICK Up : IsUpto(Up, s, ix) /\ Kept(s, ix) = Up[Len(s)]
  BY KeptIs
<1>2. 0 \in 0 .. Len(s) /\ Len(s) - 1 = -1
  OBVIOUS
<1>3. Up[0] = << >>
  BY <1>1, <1>2, Zenon DEF IsUpto
<1>. QED  BY <1>1, <1>3

\* A selection grows at its end, or not at all, as the sequence does.
LEMMA KeptAppend ==
    ASSUME NEW T, NEW s \in Seq(T), NEW x \in T, NEW ix, NEW later,
           \A i \in 1 .. Len(s) : i \in later <=> i \in ix
    PROVE  Kept(Append(s, x), later) =
              IF Len(s) + 1 \in later THEN Append(Kept(s, ix), x) ELSE Kept(s, ix)
<1>. DEFINE t == Append(s, x)
<1>1. /\ t \in Seq(T) /\ Len(t) = Len(s) + 1 /\ t[Len(s) + 1] = x
      /\ \A i \in 1 .. Len(s) : t[i] = s[i]
      /\ Len(s) \in Nat
  OBVIOUS
<1>. HIDE DEF t
<1>2. PICK Up : IsUpto(Up, s, ix) /\ Kept(s, ix) = Up[Len(s)]
  BY KeptIs
<1>3. PICK UpT : IsUpto(UpT, t, later) /\ Kept(t, later) = UpT[Len(t)]
  BY <1>1, KeptIs
<1>4. /\ UpT[0] = << >>
      /\ \A n \in 0 .. Len(s) :
            UpT[n + 1] = IF n + 1 \in later THEN Append(UpT[n], t[n + 1]) ELSE UpT[n]
  <2>1. Len(t) - 1 = Len(s)
    BY <1>1
  <2>. QED  BY <1>1, <1>3, <2>1, UptoAt
<1>. DEFINE S == {m \in 0 .. Len(s) : UpT[m] = Up[m]}
<1>5. 0 \in S
  BY <1>1, <1>2, <1>4, UptoAt
<1>6. ASSUME NEW m \in 0 .. Len(s) - 1, m \in S
      PROVE  m + 1 \in S
  <2>1. m \in 0 .. Len(s) /\ m + 1 \in 0 .. Len(s) /\ m + 1 \in 1 .. Len(s)
    BY <1>1
  <2>2. UpT[m] = Up[m]
    BY <1>6
  <2>3. Up[m + 1] = IF m + 1 \in ix THEN Append(Up[m], s[m + 1]) ELSE Up[m]
    BY <1>2, UptoAt
  <2>4. UpT[m + 1] = IF m + 1 \in ix THEN Append(Up[m], s[m + 1]) ELSE Up[m]
    BY <1>1, <1>4, <2>1, <2>2
  <2>. QED  BY <2>1, <2>3, <2>4
<1>. HIDE DEF S
<1>7. \A m \in 0 .. Len(s) : m \in S
  BY <1>1, <1>5, <1>6, UpTo
<1>8. UpT[Len(s)] = Up[Len(s)]
  BY <1>1, <1>7 DEF S
<1>9. Len(s) \in 0 .. Len(s)
  BY <1>1
<1>10. UpT[Len(s) + 1] = IF Len(s) + 1 \in later THEN Append(Up[Len(s)], x) ELSE Up[Len(s)]
  BY <1>1, <1>4, <1>8, <1>9
<1>. QED  BY <1>1, <1>2, <1>3, <1>10 DEF t

\* Selecting everything changes nothing.
LEMMA KeptAll ==
    ASSUME NEW T, NEW s \in Seq(T), NEW ix, \A i \in 1 .. Len(s) : i \in ix
    PROVE  Kept(s, ix) = s
<1>1. PICK Up : IsUpto(Up, s, ix) /\ Kept(s, ix) = Up[Len(s)]
  BY KeptIs
<1>2. Len(s) \in Nat
  OBVIOUS
<1>. DEFINE S == {m \in 0 .. Len(s) : Up[m] = SubSeq(s, 1, m)}
<1>3. 0 \in S
  <2>1. SubSeq(s, 1, 0) = << >> /\ 0 \in 0 .. Len(s)
    OBVIOUS
  <2>2. Up[0] = << >>
    BY <1>1, UptoAt
  <2>. QED  BY <2>1, <2>2
<1>4. ASSUME NEW m \in 0 .. Len(s) - 1, m \in S
      PROVE  m + 1 \in S
  <2>1. m + 1 \in 0 .. Len(s) /\ m + 1 \in 1 .. Len(s)
    BY <1>2
  <2>4. Up[m] = SubSeq(s, 1, m)
    BY <1>4
  <2>2. Up[m + 1] = Append(SubSeq(s, 1, m), s[m + 1])
    <3>1. Up[m + 1] = IF m + 1 \in ix THEN Append(Up[m], s[m + 1]) ELSE Up[m]
      BY <1>1, UptoAt
    <3>. QED  BY <2>1, <2>4, <3>1
  <2>3. SubSeq(s, 1, m + 1) = Append(SubSeq(s, 1, m), s[m + 1])
    BY <2>1
  <2>. QED  BY <2>1, <2>2, <2>3
<1>. HIDE DEF S
<1>5. \A m \in 0 .. Len(s) : m \in S
  BY <1>2, <1>3, <1>4, UpTo
<1>6. Up[Len(s)] = SubSeq(s, 1, Len(s))
  BY <1>2, <1>5 DEF S
<1>7. SubSeq(s, 1, Len(s)) = s
  OBVIOUS
<1>. QED  BY <1>1, <1>6, <1>7
-----------------------------------------------------------------------------
LinesOf(kind) == {l \in Lines : l.kind = kind}

LEMMA OfKindType ==
    ASSUME NEW p \in Seq(Lines), NEW kind
    PROVE  OfKind(p, kind) \in Seq(LinesOf(kind))
<1>1. \A i \in 1 .. Len(p) : i \in {j \in DOMAIN p : p[j].kind = kind} => p[i] \in LinesOf(kind)
  BY DEF LinesOf
<1>. QED  BY <1>1, KeptSeq DEF OfKind

\* What is selected stands somewhere in the text.
LEMMA OfKindFrom ==
    ASSUME NEW p \in Seq(Lines), NEW kind, NEW i \in DOMAIN OfKind(p, kind)
    PROVE  \E j \in DOMAIN p : OfKind(p, kind)[i] = p[j] /\ p[j].kind = kind
<1>. DEFINE R == {l \in Lines : \E j \in DOMAIN p : l = p[j] /\ p[j].kind = kind}
<1>1. \A j \in 1 .. Len(p) : j \in {k \in DOMAIN p : p[k].kind = kind} => p[j] \in R
  OBVIOUS
<1>2. OfKind(p, kind) \in Seq(R)
  <2>. HIDE DEF R
  <2>. QED  BY <1>1, KeptSeq DEF OfKind
<1>3. OfKind(p, kind)[i] \in R
  <2>. HIDE DEF R
  <2>. QED  BY <1>2
<1>. QED  BY <1>3

LEMMA OfKindEmpty ==
    ASSUME NEW p \in Seq(Lines), Len(p) = 0, NEW kind
    PROVE  OfKind(p, kind) = << >>
BY KeptEmpty DEF OfKind

LEMMA OfKindAppend ==
    ASSUME NEW p \in Seq(Lines), NEW l \in Lines, NEW kind
    PROVE  OfKind(Append(p, l), kind) =
              IF l.kind = kind THEN Append(OfKind(p, kind), l) ELSE OfKind(p, kind)
<1>. DEFINE q     == Append(p, l)
            ix    == {i \in DOMAIN p : p[i].kind = kind}
            later == {i \in DOMAIN q : q[i].kind = kind}
<1>1. /\ DOMAIN q = 1 .. Len(p) + 1 /\ q[Len(p) + 1] = l /\ DOMAIN p = 1 .. Len(p)
      /\ \A i \in 1 .. Len(p) : q[i] = p[i] /\ i \in DOMAIN q
      /\ Len(p) + 1 \in DOMAIN q
  OBVIOUS
<1>2. \A i \in 1 .. Len(p) : i \in later <=> i \in ix
  BY <1>1
<1>3. Len(p) + 1 \in later <=> l.kind = kind
  BY <1>1
<1>4. Kept(q, later) = IF Len(p) + 1 \in later THEN Append(Kept(p, ix), l) ELSE Kept(p, ix)
  <2>. HIDE DEF later, ix
  <2>. QED  BY <1>2, KeptAppend
<1>. QED  BY <1>3, <1>4 DEF OfKind

LEMMA BoLinesType ==
    ASSUME NEW p \in Seq(Lines)
    PROVE  BoLines(p) \in Seq({i \in 1 .. Len(p) : p[i].kind = "BO"})
<1>. DEFINE s  == [i \in DOMAIN p |-> i]
            ix == {i \in DOMAIN p : p[i].kind = "BO"}
            R  == {i \in 1 .. Len(p) : p[i].kind = "BO"}
<1>1. s \in Seq(1 .. Len(p)) /\ Len(s) = Len(p) /\ \A i \in 1 .. Len(p) : s[i] = i
  OBVIOUS
<1>2. \A i \in 1 .. Len(s) : i \in ix => s[i] \in R
  BY <1>1
<1>3. Kept(s, ix) \in Seq(R)
  <2>. HIDE DEF s, ix, R
  <2>. QED  BY <1>1, <1>2, KeptSeq
<1>. QED  BY <1>3 DEF BoLines

LEMMA BoLinesEmpty ==
    ASSUME NEW p \in Seq(Lines), Len(p) = 0
    PROVE  BoLines(p) = << >>
<1>. DEFINE s  == [i \in DOMAIN p |-> i]
            ix == {i \in DOMAIN p : p[i].kind = "BO"}
<1>1. s \in Seq(1 .. Len(p)) /\ Len(s) = 0
  OBVIOUS
<1>2. Kept(s, ix) = << >>
  <2>. HIDE DEF s, ix
  <2>. QED  BY <1>1, KeptEmpty
<1>. QED  BY <1>2 DEF BoLines

LEMMA BoLinesAppend ==
    ASSUME NEW p \in Seq(Lines), NEW l \in Lines
    PROVE  BoLines(Append(p, l)) =
              IF l.kind = "BO" THEN Append(BoLines(p), Len(p) + 1) ELSE BoLines(p)
<1>. DEFINE q     == Append(p, l)
            s     == [i \in DOMAIN p |-> i]
            t     == [i \in DOMAIN q |-> i]
            ix    == {i \in DOMAIN p : p[i].kind = "BO"}
            later == {i \in DOMAIN q : q[i].kind = "BO"}
<1>1. /\ DOMAIN q = 1 .. Len(p) + 1 /\ q[Len(p) + 1] = l /\ DOMAIN p = 1 .. Len(p)
      /\ \A i \in 1 .. Len(p) : q[i] = p[i] /\ i \in DOMAIN q
      /\ Len(p) + 1 \in DOMAIN q
  OBVIOUS
<1>2. \A i \in 1 .. Len(p) : i \in later <=> i \in ix
  BY <1>1
<1>3. Len(p) + 1 \in later <=> l.kind = "BO"
  BY <1>1
<1>. DEFINE T == 1 .. Len(p) + 1
<1>4. s \in Seq(T) /\ Len(s) = Len(p) /\ Len(p) + 1 \in T
  OBVIOUS
<1>5. t = Append(s, Len(p) + 1)
  <2>1. t \in Seq(T) /\ Len(t) = Len(p) + 1 /\ \A i \in 1 .. Len(p) + 1 : t[i] = i
    BY <1>1
  <2>2. \A i \in 1 .. Len(p) : s[i] = i
    OBVIOUS
  <2>. HIDE DEF s, t, q
  <2>. QED  BY <1>4, <2>1, <2>2
<1>6. Kept(t, later) =
         IF Len(p) + 1 \in later THEN Append(Kept(s, ix), Len(p) + 1) ELSE Kept(s, ix)
  <2>. DEFINE x == Len(p) + 1
  <2>1. x \in T /\ \A i \in 1 .. Len(s) : i \in later <=> i \in ix
    BY <1>2, <1>4
  <2>2. Kept(Append(s, x), later) =
           IF Len(s) + 1 \in later THEN Append(Kept(s, ix), x) ELSE Kept(s, ix)
    <3>. HIDE DEF s, t, ix, later, x, T
    <3>. QED  BY <1>4, <2>1, KeptAppend
  <2>. HIDE DEF s, t, ix, later
  <2>. QED  BY <1>4, <1>5, <2>2
<1>. QED  BY <1>3, <1>6 DEF BoLines

\* A piece of a text, and how it grows with the text.
LEMMA PieceAppend ==
    ASSUME NEW p \in Seq(Lines), NEW l \in Lines, NEW i \in 1 .. Len(p) + 1
    PROVE  /\ \A j \in 0 .. Len(p) : /\ SubSeq(p, i, j) \in Seq(Lines)
                                     /\ SubSeq(Append(p, l), i, j) = SubSeq(p, i, j)
           /\ SubSeq(Append(p, l), i, Len(p) + 1) = Append(SubSeq(p, i, Len(p)), l)
<1>. DEFINE q == Append(p, l)
<1>1. /\ q \in Seq(Lines) /\ Len(q) = Len(p) + 1 /\ q[Len(p) + 1] = l
      /\ \A k \in 1 .. Len(p) : q[k] = p[k] /\ p[k] \in Lines
      /\ Len(p) \in Nat
  OBVIOUS
<1>. HIDE DEF q
<1>2. ASSUME NEW j \in 0 .. Len(p)
      PROVE  SubSeq(p, i, j) \in Seq(Lines) /\ SubSeq(q, i, j) = SubSeq(p, i, j)
  <2>1. \A k \in i .. j : k \in 1 .. Len(p)
    BY <1>1
  <2>2. SubSeq(p, i, j) \in Seq(Lines)
    BY <1>1, <2>1
  <2>3. SubSeq(q, i, j) \in Seq(Lines)
    BY <1>1, <2>1
  <2>4. /\ Len(SubSeq(p, i, j)) = IF i <= j THEN j - i + 1 ELSE 0
        /\ Len(SubSeq(q, i, j)) = IF i <= j THEN j - i + 1 ELSE 0
    BY <1>1
  <2>5. \A k \in 1 .. j - i + 1 : /\ SubSeq(p, i, j)[k] = p[i + k - 1]
                                  /\ SubSeq(q, i, j)[k] = q[i + k - 1]
                                  /\ i + k - 1 \in i .. j
    BY <1>1
  <2>6. \A k \in 1 .. Len(SubSeq(p, i, j)) : SubSeq(q, i, j)[k] = SubSeq(p, i, j)[k]
    BY <1>1, <2>1, <2>4, <2>5
  <2>. QED  BY <2>2, <2>3, <2>4, <2>6, SeqEqual
<1>3. SubSeq(q, i, Len(p) + 1) = Append(SubSeq(p, i, Len(p)), l)
  <2>. DEFINE s == SubSeq(p, i, Len(p))
              t == SubSeq(q, i, Len(p) + 1)
  <2>1. s \in Seq(Lines) /\ Len(s) = Len(p) + 1 - i
        /\ \A k \in 1 .. Len(p) + 1 - i : s[k] = p[i + k - 1]
    BY <1>1, <1>2
  <2>2. t \in Seq(Lines) /\ Len(t) = Len(p) + 2 - i
        /\ \A k \in 1 .. Len(p) + 2 - i : t[k] = q[i + k - 1]
    BY <1>1
  <2>. HIDE DEF s, t
  <2>3. /\ Append(s, l) \in Seq(Lines) /\ Len(Append(s, l)) = Len(p) + 2 - i
        /\ Append(s, l)[Len(p) + 2 - i] = l
        /\ \A k \in 1 .. Len(p) + 1 - i : Append(s, l)[k] = s[k]
    <3>1. /\ Append(s, l) \in Seq(Lines) /\ Len(Append(s, l)) = Len(s) + 1
          /\ Append(s, l)[Len(s) + 1] = l
          /\ \A k \in 1 .. Len(s) : Append(s, l)[k] = s[k]
      <4>1. s \in Seq(Lines) /\ l \in Lines
        BY <2>1
      <4>2. Append(s, l) \in Seq(Lines)
        BY <4>1, AppendProperties
      <4>3. Len(Append(s, l)) = Len(s) + 1
        BY <4>1, AppendProperties
      <4>4. Append(s, l)[Len(s) + 1] = l
        BY <4>1, AppendProperties
      <4>5. \A k \in 1 .. Len(s) : Append(s, l)[k] = s[k]
        BY <4>1, AppendProperties
      <4>. QED  BY <4>2, <4>3, <4>4, <4>5
    <3>2. Len(p) + 1 - i + 1 = Len(p) + 2 - i
      BY <1>1
    <3>. QED  BY <2>1, <3>1, <3>2
  <2>4. ASSUME NEW k \in 1 .. Len(p) + 2 - i
        PROVE  t[k] = Append(s, l)[k]
    <3>1. CASE k = Len(p) + 2 - i
      <4>1. i + k - 1 = Len(p) + 1 /\ t[k] = q[i + k - 1]
        BY <1>1, <2>2, <3>1
      <4>. QED  BY <1>1, <2>3, <3>1, <4>1
    <3>2. CASE k # Len(p) + 2 - i
      <4>1. k \in 1 .. Len(p) + 1 - i /\ i + k - 1 \in 1 .. Len(p)
        BY <1>1, <3>2
      <4>2. t[k] = q[i + k - 1] /\ s[k] = p[i + k - 1]
        BY <2>1, <2>2, <4>1
      <4>. QED  BY <1>1, <2>3, <4>1, <4>2
    <3>. QED  BY <3>1, <3>2
  <2>5. t = Append(s, l)
    BY <2>2, <2>3, <2>4, SeqEqual
  <2>. QED  BY <2>5 DEF s, t
<1>. QED  BY <1>2, <1>3 DEF q

\* The positions of the BO_ lines of a text, and where its blocks lie.
LEMMA BlockBounds ==
    ASSUME NEW p \in Seq(Lines), NEW n \in 0 .. Len(BoLines(p))
    PROVE  LET ix == BoLines(p) IN
           /\ n # 0 => ix[n] \in 1 .. Len(p) /\ p[ix[n]] \in Lines /\ p[ix[n]].kind = "BO"
           /\ n # Len(ix) => ix[n + 1] \in 1 .. Len(p)
           /\ (IF n = 0 THEN 1 ELSE ix[n] + 1) \in 1 .. Len(p) + 1
           /\ (IF n = Len(ix) THEN Len(p) ELSE ix[n + 1] - 1) \in 0 .. Len(p)
<1>. DEFINE ix == BoLines(p)
            R  == {i \in 1 .. Len(p) : p[i].kind = "BO"}
<1>1. ix \in Seq(R)
  BY BoLinesType
<1>. HIDE DEF ix
<1>2. \A k \in 1 .. Len(ix) : ix[k] \in R
  <2>. HIDE DEF R
  <2>. QED  BY <1>1
<1>3. Len(p) \in Nat /\ Len(ix) \in Nat /\ n \in 0 .. Len(ix)
  BY <1>1 DEF ix
<1>4. n # 0 => ix[n] \in 1 .. Len(p) /\ p[ix[n]].kind = "BO"
  BY <1>2, <1>3
<1>5. n # Len(ix) => ix[n + 1] \in 1 .. Len(p)
  BY <1>2, <1>3
<1>6. n # 0 => p[ix[n]] \in Lines
  BY <1>4
<1>. QED  BY <1>3, <1>4, <1>5, <1>6 DEF ix

LEMMA BlockType ==
    ASSUME NEW p \in Seq(Lines), NEW n \in 0 .. Len(BoLines(p))
    PROVE  Block(p, BoLines(p), n) \in Seq(Lines)
<1>. DEFINE ix    == BoLines(p)
            first == IF n = 0 THEN 1 ELSE ix[n] + 1
            last  == IF n = Len(ix) THEN Len(p) ELSE ix[n + 1] - 1
<1>1. first \in 1 .. Len(p) + 1 /\ last \in 0 .. Len(p)
  BY BlockBounds
<1>2. Block(p, ix, n) = SubSeq(p, first, last)
  BY DEF Block
<1>3. Other \in Lines
  BY DEF Lines
<1>. HIDE DEF ix, first, last
<1>4. SubSeq(p, first, last) \in Seq(Lines)
  BY <1>1, <1>3, PieceAppend
<1>. QED  BY <1>2, <1>4 DEF ix

\* A BO_ line ends the last block and begins an empty one.
LEMMA BlockOpens ==
    ASSUME NEW p \in Seq(Lines), NEW l \in Lines, l.kind = "BO"
    PROVE  LET ix    == BoLines(p)
               q     == Append(p, l)
               later == Append(ix, Len(p) + 1)
           IN /\ BoLines(q) = later
              /\ \A n \in 0 .. Len(ix) : Block(q, later, n) = Block(p, ix, n)
              /\ Block(q, later, Len(ix) + 1) = << >>
<1>. DEFINE ix    == BoLines(p)
            q     == Append(p, l)
            later == Append(ix, Len(p) + 1)
<1>1. BoLines(q) = later
  BY BoLinesAppend
<1>2. ix \in Seq(1 .. Len(p) + 1) /\ Len(p) \in Nat /\ Len(ix) \in Nat
  <2>1. ix \in Seq({i \in 1 .. Len(p) : p[i].kind = "BO"})
    BY BoLinesType
  <2>. HIDE DEF ix
  <2>. QED  BY <2>1
<1>3. /\ Len(later) = Len(ix) + 1 /\ later[Len(ix) + 1] = Len(p) + 1
      /\ \A n \in 1 .. Len(ix) : later[n] = ix[n]
  <2>. HIDE DEF ix
  <2>. QED  BY <1>2
<1>4. ASSUME NEW n \in 0 .. Len(ix)
      PROVE  Block(q, later, n) = Block(p, ix, n)
  <2>. DEFINE first == IF n = 0 THEN 1 ELSE ix[n] + 1
              last  == IF n = Len(ix) THEN Len(p) ELSE ix[n + 1] - 1
  <2>1. first \in 1 .. Len(p) + 1 /\ last \in 0 .. Len(p)
    BY BlockBounds
  <2>2. Block(p, ix, n) = SubSeq(p, first, last)
    BY DEF Block
  <2>3. Block(q, later, n) =
           SubSeq(q, IF n = 0 THEN 1 ELSE later[n] + 1,
                     IF n = Len(later) THEN Len(q) ELSE later[n + 1] - 1)
    BY DEF Block
  <2>4. (IF n = 0 THEN 1 ELSE later[n] + 1) = first
    <3>. HIDE DEF ix, later
    <3>. QED  BY <1>2, <1>3
  <2>5. (IF n = Len(later) THEN Len(q) ELSE later[n + 1] - 1) = last
    <3>1. n # Len(later)
      BY <1>2, <1>3
    <3>2. CASE n = Len(ix)
      <4>1. later[n + 1] - 1 = Len(p)
        BY <1>2, <1>3, <3>2
      <4>. QED  BY <3>1, <3>2, <4>1
    <3>3. CASE n # Len(ix)
      <4>1. n + 1 \in 1 .. Len(ix)
        BY <1>2, <3>3
      <4>. QED  BY <1>3, <3>1, <3>3, <4>1
    <3>. QED  BY <3>2, <3>3
  <2>. HIDE DEF ix, q, later, first, last
  <2>6. SubSeq(Append(p, l), first, last) = SubSeq(p, first, last)
    BY <2>1, PieceAppend
  <2>. QED  BY <2>2, <2>3, <2>4, <2>5, <2>6 DEF q
<1>5. Block(q, later, Len(ix) + 1) = << >>
  <2>1. Len(ix) + 1 # 0 /\ Len(later) = Len(ix) + 1 /\ later[Len(ix) + 1] + 1 = Len(p) + 2
    BY <1>2, <1>3
  <2>2. Block(q, later, Len(ix) + 1) = SubSeq(q, Len(p) + 2, Len(q))
    <3>. HIDE DEF ix, q, later
    <3>. QED  BY <2>1 DEF Block
  <2>3. Len(q) = Len(p) + 1
    OBVIOUS
  <2>. HIDE DEF q
  <2>. QED  BY <1>2, <2>2, <2>3, SubSeqEmpty
<1>. QED  BY <1>1, <1>4, <1>5

\* Any other line goes to the end of the last block.
LEMMA BlockGrows ==
    ASSUME NEW p \in Seq(Lines), NEW l \in Lines, l.kind # "BO"
    PROVE  LET ix == BoLines(p)
               q  == Append(p, l)
           IN /\ BoLines(q) = ix
              /\ \A n \in 0 .. Len(ix) :
                    Block(q, ix, n) = IF n = Len(ix) THEN Append(Block(p, ix, n), l)
                                      ELSE Block(p, ix, n)
<1>. DEFINE ix == BoLines(p)
            q  == Append(p, l)
<1>1. BoLines(q) = ix
  BY BoLinesAppend
<1>2. ASSUME NEW n \in 0 .. Len(ix)
      PROVE  Block(q, ix, n) = IF n = Len(ix) THEN Append(Block(p, ix, n), l)
                               ELSE Block(p, ix, n)
  <2>. DEFINE first == IF n = 0 THEN 1 ELSE ix[n] + 1
              last  == IF n = Len(ix) THEN Len(p) ELSE ix[n + 1] - 1
  <2>1. first \in 1 .. Len(p) + 1 /\ last \in 0 .. Len(p)
    BY BlockBounds
  <2>2. Block(p, ix, n) = SubSeq(p, first, last)
    BY DEF Block
  <2>3. Block(q, ix, n) = SubSeq(q, first, IF n = Len(ix) THEN Len(q) ELSE ix[n + 1] - 1)
    BY DEF Block
  <2>4. Len(q) = Len(p) + 1
    OBVIOUS
  <2>5. CASE n = Len(ix)
    <3>1. last = Len(p)
      BY <2>5
    <3>. HIDE DEF ix, first, last
    <3>2. SubSeq(Append(p, l), first, Len(p) + 1) = Append(SubSeq(p, first, Len(p)), l)
      BY <2>1, PieceAppend
    <3>. QED  BY <2>2, <2>3, <2>4, <2>5, <3>1, <3>2
  <2>6. CASE n # Len(ix)
    <3>1. last = ix[n + 1] - 1
      BY <2>6
    <3>. HIDE DEF ix, first, last
    <3>2. SubSeq(Append(p, l), first, last) = SubSeq(p, first, last)
      BY <2>1, PieceAppend
    <3>. QED  BY <2>2, <2>3, <2>6, <3>1, <3>2
  <2>. QED  BY <2>5, <2>6
<1>. QED  BY <1>1, <1>2

\* The BO_ lines stay where they are when a text goes on.
LEMMA PositionsOpen ==
    ASSUME NEW p \in Seq(Lines), NEW l \in Lines, l.kind = "BO"
    PROVE  LET ix    == BoLines(p)
               q     == Append(p, l)
               later == BoLines(q)
           IN /\ DOMAIN ix = 1 .. Len(ix) /\ Len(ix) \in Nat
              /\ DOMAIN later = 1 .. Len(ix) + 1 /\ Len(later) = Len(ix) + 1
              /\ \A n \in 1 .. Len(ix) : q[later[n]] = p[ix[n]]
              /\ q[later[Len(ix) + 1]] = l
<1>. DEFINE ix    == BoLines(p)
            q     == Append(p, l)
            later == BoLines(q)
<1>1. ix \in Seq({i \in 1 .. Len(p) : p[i].kind = "BO"})
  BY BoLinesType
<1>2. q[Len(p) + 1] = l /\ \A i \in 1 .. Len(p) : q[i] = p[i]
  OBVIOUS
<1>3. later = Append(ix, Len(p) + 1)
  BY BlockOpens
<1>4. \A n \in 1 .. Len(ix) : ix[n] \in 1 .. Len(p)
  <2>. HIDE DEF ix
  <2>. QED  BY <1>1
<1>5. /\ DOMAIN ix = 1 .. Len(ix) /\ Len(ix) \in Nat
      /\ DOMAIN later = 1 .. Len(ix) + 1 /\ Len(later) = Len(ix) + 1
      /\ \A n \in 1 .. Len(ix) : q[later[n]] = p[ix[n]]
      /\ q[later[Len(ix) + 1]] = l
  <2>. HIDE DEF ix, q, later
  <2>. QED  BY <1>1, <1>2, <1>3, <1>4
<1>. QED  BY <1>5

LEMMA PositionsStay ==
    ASSUME NEW p \in Seq(Lines), NEW l \in Lines, l.kind # "BO"
    PROVE  LET ix == BoLines(p)
               q  == Append(p, l)
           IN /\ BoLines(q) = ix
              /\ DOMAIN ix = 1 .. Len(ix) /\ Len(ix) \in Nat
              /\ \A n \in 1 .. Len(ix) : q[ix[n]] = p[ix[n]]
<1>. DEFINE ix == BoLines(p)
            q  == Append(p, l)
<1>1. ix \in Seq({i \in 1 .. Len(p) : p[i].kind = "BO"})
  BY BoLinesType
<1>2. \A i \in 1 .. Len(p) : q[i] = p[i]
  OBVIOUS
<1>3. BoLines(q) = ix
  BY BlockGrows
<1>4. /\ DOMAIN ix = 1 .. Len(ix) /\ Len(ix) \in Nat
      /\ \A n \in 1 .. Len(ix) : q[ix[n]] = p[ix[n]]
  <2>. HIDE DEF ix, q
  <2>. QED  BY <1>1, <1>2
<1>. QED  BY <1>3, <1>4

\* The signals of block n, and those written for the n-th message.
BlockSigs(text, n) == OfKind(Block(text, BoLines(text), n), "SG")
Wrote(text, n)   == WrittenFor(text, BoLines(text), n)

LEMMA WrittenType ==
    ASSUME NEW p \in Seq(Lines), NEW n \in 0 .. Len(BoLines(p))
    PROVE  /\ BlockSigs(p, n) \in Seq(LinesOf("SG"))
           /\ n # 0 => Wrote(p, n) \in Seq(LinesOf("SG"))
<1>1. \A k \in 0 .. Len(BoLines(p)) : BlockSigs(p, k) \in Seq(LinesOf("SG"))
  BY BlockType, OfKindType DEF BlockSigs
<1>2. 0 \in 0 .. Len(BoLines(p))
  OBVIOUS
<1>3. Wrote(p, n) =
         (IF p[BoLines(p)[n]].address = 0 THEN BlockSigs(p, 0) ELSE << >>) \o BlockSigs(p, n)
  BY DEF Wrote, WrittenFor, BlockSigs
<1>4. BlockSigs(p, 0) \o BlockSigs(p, n) \in Seq(LinesOf("SG"))
      /\ << >> \o BlockSigs(p, n) \in Seq(LinesOf("SG"))
  BY <1>1, <1>2, ConcatProperties, EmptySeq
<1>. QED  BY <1>1, <1>3, <1>4

LEMMA WrittenOpens ==
    ASSUME NEW p \in Seq(Lines), NEW l \in Lines, l.kind = "BO"
    PROVE  LET ix == BoLines(p)
               q  == Append(p, l)
           IN /\ BlockSigs(q, 0) = BlockSigs(p, 0)
              /\ \A n \in 1 .. Len(ix) : Wrote(q, n) = Wrote(p, n)
              /\ Wrote(q, Len(ix) + 1) = IF l.address = 0 THEN BlockSigs(p, 0) ELSE << >>
<1>. DEFINE ix    == BoLines(p)
            q     == Append(p, l)
            later == Append(ix, Len(p) + 1)
<1>1. BoLines(q) = later
  BY BlockOpens
<1>2. \A n \in 0 .. Len(ix) : Block(q, later, n) = Block(p, ix, n)
  BY BlockOpens
<1>3. Block(q, later, Len(ix) + 1) = << >>
  BY BlockOpens
<1>4. ix \in Seq(1 .. Len(p) + 1) /\ Len(p) \in Nat /\ Len(ix) \in Nat
  <2>1. ix \in Seq({i \in 1 .. Len(p) : p[i].kind = "BO"})
    BY BoLinesType
  <2>. HIDE DEF ix
  <2>. QED  BY <2>1
<1>5. /\ later[Len(ix) + 1] = Len(p) + 1
      /\ \A n \in 1 .. Len(ix) : later[n] = ix[n]
  <2>. HIDE DEF ix
  <2>. QED  BY <1>4
<1>6. q[Len(p) + 1] = l /\ \A i \in 1 .. Len(p) : q[i] = p[i]
  OBVIOUS
<1>7. \A n \in 1 .. Len(ix) : ix[n] \in 1 .. Len(p)
  <2>1. \A n \in 1 .. Len(ix) : n \in 0 .. Len(ix) /\ n # 0
    BY <1>4
  <2>. QED  BY <2>1, BlockBounds
<1>. HIDE DEF ix, q, later
<1>8. \A n \in 0 .. Len(ix) : BlockSigs(q, n) = BlockSigs(p, n)
  BY <1>1, <1>2 DEF BlockSigs, ix
<1>9. BlockSigs(q, 0) = BlockSigs(p, 0)
  BY <1>4, <1>8
<1>10. BlockSigs(q, Len(ix) + 1) = << >>
  <2>1. << >> \in Seq(Lines) /\ Len(<< >>) = 0
    OBVIOUS
  <2>2. OfKind(<< >>, "SG") = << >>
    BY <2>1, OfKindEmpty
  <2>. QED  BY <1>1, <1>3, <2>2 DEF BlockSigs
<1>11. \A n : Wrote(q, n) =
          (IF q[later[n]].address = 0 THEN BlockSigs(q, 0) ELSE << >>) \o BlockSigs(q, n)
  BY <1>1 DEF Wrote, WrittenFor, BlockSigs
<1>12. \A n : Wrote(p, n) =
          (IF p[ix[n]].address = 0 THEN BlockSigs(p, 0) ELSE << >>) \o BlockSigs(p, n)
  BY DEF Wrote, WrittenFor, BlockSigs, ix
<1>13. ASSUME NEW n \in 1 .. Len(ix) PROVE Wrote(q, n) = Wrote(p, n)
  <2>1. q[later[n]] = p[ix[n]] /\ n \in 0 .. Len(ix)
    BY <1>4, <1>5, <1>6, <1>7
  <2>. QED  BY <1>8, <1>9, <1>11, <1>12, <2>1
<1>14. Wrote(q, Len(ix) + 1) = IF l.address = 0 THEN BlockSigs(p, 0) ELSE << >>
  <2>1. q[later[Len(ix) + 1]] = l
    BY <1>5, <1>6
  <2>2. Wrote(q, Len(ix) + 1) = (IF l.address = 0 THEN BlockSigs(p, 0) ELSE << >>) \o << >>
    BY <1>9, <1>10, <1>11, <2>1
  <2>3. 0 \in 0 .. Len(ix)
    BY <1>4
  <2>4. BlockSigs(p, 0) \in Seq(LinesOf("SG"))
    BY <2>3, WrittenType DEF ix
  <2>5. BlockSigs(p, 0) \o << >> = BlockSigs(p, 0)
    BY <2>4, ConcatEmptySeq
  <2>6. << >> \o << >> = << >>
    BY ConcatEmptySeq, EmptySeq
  <2>. QED  BY <2>2, <2>5, <2>6
<1>. QED  BY <1>9, <1>13, <1>14 DEF ix, q

LEMMA WrittenGrows ==
    ASSUME NEW p \in Seq(Lines), NEW l \in Lines, l.kind # "BO"
    PROVE  LET ix == BoLines(p)
               q  == Append(p, l)
           IN /\ BlockSigs(q, 0) = IF Len(ix) = 0 /\ l.kind = "SG" THEN Append(BlockSigs(p, 0), l)
                                   ELSE BlockSigs(p, 0)
              /\ \A n \in 1 .. Len(ix) :
                    Wrote(q, n) = IF n = Len(ix) /\ l.kind = "SG" THEN Append(Wrote(p, n), l)
                                    ELSE Wrote(p, n)
<1>. DEFINE ix == BoLines(p)
            q  == Append(p, l)
<1>1. BoLines(q) = ix
  BY BlockGrows
<1>2. \A n \in 0 .. Len(ix) :
         Block(q, ix, n) = IF n = Len(ix) THEN Append(Block(p, ix, n), l) ELSE Block(p, ix, n)
  BY BlockGrows
<1>3. ix \in Seq(1 .. Len(p) + 1) /\ Len(p) \in Nat /\ Len(ix) \in Nat
  <2>1. ix \in Seq({i \in 1 .. Len(p) : p[i].kind = "BO"})
    BY BoLinesType
  <2>. HIDE DEF ix
  <2>. QED  BY <2>1
<1>4. \A i \in 1 .. Len(p) : q[i] = p[i]
  OBVIOUS
<1>5. \A n \in 1 .. Len(ix) : ix[n] \in 1 .. Len(p)
  <2>1. \A n \in 1 .. Len(ix) : n \in 0 .. Len(ix) /\ n # 0
    BY <1>3
  <2>. QED  BY <2>1, BlockBounds
<1>6. ASSUME NEW n \in 0 .. Len(ix)
      PROVE  BlockSigs(q, n) = IF n = Len(ix) /\ l.kind = "SG" THEN Append(BlockSigs(p, n), l)
                               ELSE BlockSigs(p, n)
  <2>1. Block(p, ix, n) \in Seq(Lines)
    BY BlockType
  <2>. HIDE DEF ix, q
  <2>2. OfKind(Append(Block(p, ix, n), l), "SG") =
           IF l.kind = "SG" THEN Append(OfKind(Block(p, ix, n), "SG"), l)
           ELSE OfKind(Block(p, ix, n), "SG")
    BY <2>1, OfKindAppend
  <2>3. BlockSigs(p, n) = OfKind(Block(p, ix, n), "SG")
        /\ BlockSigs(q, n) = OfKind(Block(q, ix, n), "SG")
    BY <1>1 DEF BlockSigs, ix
  <2>. QED  BY <1>2, <2>2, <2>3
<1>. HIDE DEF ix, q
<1>7. 0 \in 0 .. Len(ix)
  BY <1>3
<1>8. \A n : Wrote(q, n) =
          (IF q[ix[n]].address = 0 THEN BlockSigs(q, 0) ELSE << >>) \o BlockSigs(q, n)
  BY <1>1 DEF Wrote, WrittenFor, BlockSigs
<1>9. \A n : Wrote(p, n) =
          (IF p[ix[n]].address = 0 THEN BlockSigs(p, 0) ELSE << >>) \o BlockSigs(p, n)
  BY DEF Wrote, WrittenFor, BlockSigs, ix
<1>10. ASSUME NEW n \in 1 .. Len(ix)
       PROVE  Wrote(q, n) = IF n = Len(ix) /\ l.kind = "SG" THEN Append(Wrote(p, n), l)
                              ELSE Wrote(p, n)
  <2>. DEFINE before == IF p[ix[n]].address = 0 THEN BlockSigs(p, 0) ELSE << >>
  <2>1. n \in 0 .. Len(ix) /\ Len(ix) # 0 /\ q[ix[n]] = p[ix[n]]
    BY <1>3, <1>4, <1>5
  <2>2. BlockSigs(q, 0) = BlockSigs(p, 0)
    BY <1>6, <1>7, <2>1
  <2>3. Wrote(q, n) = before \o BlockSigs(q, n) /\ Wrote(p, n) = before \o BlockSigs(p, n)
    BY <1>8, <1>9, <2>1, <2>2
  <2>4. before \in Seq(Lines) /\ BlockSigs(p, n) \in Seq(Lines)
    <3>1. LinesOf("SG") \subseteq Lines
      BY DEF LinesOf
    <3>2. BlockSigs(p, 0) \in Seq(LinesOf("SG")) /\ BlockSigs(p, n) \in Seq(LinesOf("SG"))
      BY <1>7, <2>1, WrittenType DEF ix
    <3>3. BlockSigs(p, 0) \in Seq(Lines) /\ BlockSigs(p, n) \in Seq(Lines)
      BY <3>1, <3>2, SeqMonotonic
    <3>. QED  BY <3>3, EmptySeq
  <2>5. before \o Append(BlockSigs(p, n), l) = Append(before \o BlockSigs(p, n), l)
    <3>. HIDE DEF before
    <3>. QED  BY <2>4
  <2>. HIDE DEF before
  <2>. QED  BY <1>6, <2>1, <2>3, <2>5
<1>11. BlockSigs(q, 0) = IF Len(ix) = 0 /\ l.kind = "SG" THEN Append(BlockSigs(p, 0), l)
                         ELSE BlockSigs(p, 0)
  BY <1>6, <1>7
<1>. QED  BY <1>10, <1>11 DEF ix, q

-----------------------------------------------------------------------------
\* The parts of WellFormed.
SgFits(mk, sg) ==
    /\ LayoutFits(mk, sg)
    /\ \/ Beyond(sg) /\ Msb(sg) < MaxBits
       \/ \A lsb \in Lsbs(sg) : InBounds(sg, lsb)

NoneBad(text) == \A i \in DOMAIN text : text[i].kind # "bad"

SgsFit(text, mk) == \A i \in DOMAIN text : text[i].kind = "SG" => SgFits(mk, text[i])

DistinctBos(text, allow) ==
    \A i, j \in DOMAIN BoLines(text) :
        \/ i = j
        \/ /\ text[BoLines(text)[i]].address # text[BoLines(text)[j]].address
           /\ allow \/ text[BoLines(text)[i]].name # text[BoLines(text)[j]].name

DistinctSignals(text) ==
    /\ \A n \in DOMAIN BoLines(text) : DistinctNames(Wrote(text, n))
    /\ DistinctNames(BlockSigs(text, 0))

LEMMA WellFormedParts ==
    ASSUME NEW text, NEW mk, NEW allow
    PROVE  WellFormed(text, mk, allow) <=> /\ NoneBad(text) /\ SgsFit(text, mk)
                                           /\ DistinctBos(text, allow) /\ DistinctSignals(text)
BY DEF WellFormed, NoneBad, SgsFit, SgFits, DistinctBos, DistinctSignals, Wrote, BlockSigs

LEMMA DistinctAppend ==
    ASSUME NEW s \in Seq(Lines), NEW l \in Lines
    PROVE  DistinctNames(Append(s, l)) <=>
              DistinctNames(s) /\ \A i \in DOMAIN s : s[i].name # l.name
<1>. DEFINE t == Append(s, l)
<1>1. /\ DOMAIN t = 1 .. Len(s) + 1 /\ t[Len(s) + 1] = l /\ DOMAIN s = 1 .. Len(s)
      /\ Len(s) \in Nat /\ \A i \in 1 .. Len(s) : t[i] = s[i]
  OBVIOUS
<1>. HIDE DEF t
<1>2. \A i \in DOMAIN t : i = Len(s) + 1 \/ i \in DOMAIN s
  BY <1>1
<1>3. DOMAIN s \subseteq DOMAIN t /\ Len(s) + 1 \in DOMAIN t /\ Len(s) + 1 \notin DOMAIN s
  BY <1>1
<1>4. DistinctNames(t) => DistinctNames(s) /\ \A i \in DOMAIN s : s[i].name # l.name
  BY <1>1, <1>3 DEF DistinctNames
<1>5. ASSUME DistinctNames(s), \A i \in DOMAIN s : s[i].name # l.name
      PROVE  DistinctNames(t)
  BY <1>1, <1>2, <1>5 DEF DistinctNames
<1>. QED  BY <1>4, <1>5 DEF t

LEMMA LinesAppend ==
    ASSUME NEW p \in Seq(Lines), NEW l \in Lines, NEW mk
    PROVE  /\ NoneBad(Append(p, l)) <=> NoneBad(p) /\ l.kind # "bad"
           /\ SgsFit(Append(p, l), mk) <=> SgsFit(p, mk) /\ (l.kind = "SG" => SgFits(mk, l))
<1>. DEFINE q == Append(p, l)
<1>1. /\ DOMAIN q = 1 .. Len(p) + 1 /\ q[Len(p) + 1] = l /\ DOMAIN p = 1 .. Len(p)
      /\ Len(p) \in Nat /\ \A i \in 1 .. Len(p) : q[i] = p[i]
  OBVIOUS
<1>. HIDE DEF q
<1>2. DOMAIN q = DOMAIN p \cup {Len(p) + 1} /\ \A i \in DOMAIN p : q[i] = p[i]
  BY <1>1
<1>. QED  BY <1>1, <1>2 DEF NoneBad, SgsFit, q

LEMMA WellFormedQuiet ==
    ASSUME NEW p \in Seq(Lines), NEW l \in Lines, l.kind \in {"VAL", "other"}, NEW mk, NEW allow
    PROVE  WellFormed(Append(p, l), mk, allow) <=> WellFormed(p, mk, allow)
<1>. DEFINE ix == BoLines(p)
            q  == Append(p, l)
<1>1. BoLines(q) = ix /\ DOMAIN ix = 1 .. Len(ix) /\ \A n \in 1 .. Len(ix) : q[ix[n]] = p[ix[n]]
  BY PositionsStay
<1>2. BlockSigs(q, 0) = BlockSigs(p, 0) /\ \A n \in 1 .. Len(ix) : Wrote(q, n) = Wrote(p, n)
  BY WrittenGrows
<1>. HIDE DEF ix, q
<1>3. DistinctBos(q, allow) <=> DistinctBos(p, allow)
  BY <1>1 DEF DistinctBos, ix
<1>4. DistinctSignals(q) <=> DistinctSignals(p)
  BY <1>1, <1>2 DEF DistinctSignals, ix
<1>5. /\ NoneBad(q) <=> NoneBad(p)
      /\ SgsFit(q, mk) <=> SgsFit(p, mk)
  BY LinesAppend DEF q
<1>. QED  BY <1>3, <1>4, <1>5, WellFormedParts DEF q

LEMMA WellFormedBO ==
    ASSUME NEW p \in Seq(Lines), NEW l \in Lines, l.kind = "BO", NEW mk, NEW allow
    PROVE  WellFormed(Append(p, l), mk, allow) <=>
              /\ WellFormed(p, mk, allow)
              /\ \A n \in DOMAIN BoLines(p) :
                    /\ p[BoLines(p)[n]].address # l.address
                    /\ allow \/ p[BoLines(p)[n]].name # l.name
<1>. DEFINE ix    == BoLines(p)
            q     == Append(p, l)
            later == BoLines(q)
            last  == Len(ix) + 1
<1>1. /\ DOMAIN ix = 1 .. Len(ix) /\ DOMAIN later = 1 .. last /\ Len(ix) \in Nat
      /\ \A n \in 1 .. Len(ix) : q[later[n]] = p[ix[n]]
      /\ q[later[last]] = l
  BY PositionsOpen
<1>2. /\ BlockSigs(q, 0) = BlockSigs(p, 0)
      /\ \A n \in 1 .. Len(ix) : Wrote(q, n) = Wrote(p, n)
      /\ Wrote(q, last) = IF l.address = 0 THEN BlockSigs(p, 0) ELSE << >>
  BY WrittenOpens
<1>. HIDE DEF ix, q, later, last
<1>3. DOMAIN later = DOMAIN ix \cup {last} /\ last \notin DOMAIN ix
  BY <1>1 DEF last
<1>4. DistinctBos(q, allow) <=>
         /\ DistinctBos(p, allow)
         /\ \A n \in DOMAIN ix :
               p[ix[n]].address # l.address /\ (allow \/ p[ix[n]].name # l.name)
  <2>1. DistinctBos(q, allow) <=>
           \A i, j \in DOMAIN later :
              \/ i = j
              \/ /\ q[later[i]].address # q[later[j]].address
                 /\ allow \/ q[later[i]].name # q[later[j]].name
    BY DEF DistinctBos, later
  <2>2. DistinctBos(p, allow) <=>
           \A i, j \in DOMAIN ix :
              \/ i = j
              \/ /\ p[ix[i]].address # p[ix[j]].address
                 /\ allow \/ p[ix[i]].name # p[ix[j]].name
    BY DEF DistinctBos, ix
  <2>3. ASSUME DistinctBos(q, allow)
        PROVE  /\ DistinctBos(p, allow)
               /\ \A n \in DOMAIN ix :
                     p[ix[n]].address # l.address /\ (allow \/ p[ix[n]].name # l.name)
    <3>1. \A n \in DOMAIN ix : n \in DOMAIN later /\ n # last /\ q[later[n]] = p[ix[n]]
      BY <1>1, <1>3
    <3>2. last \in DOMAIN later /\ q[later[last]] = l
      BY <1>1, <1>3
    <3>3. DistinctBos(p, allow)
      BY <2>1, <2>2, <2>3, <3>1
    <3>. QED  BY <2>1, <2>3, <3>1, <3>2, <3>3
  <2>4. ASSUME DistinctBos(p, allow),
               \A n \in DOMAIN ix :
                  p[ix[n]].address # l.address /\ (allow \/ p[ix[n]].name # l.name),
               NEW i \in DOMAIN later, NEW j \in DOMAIN later, i # j
        PROVE  /\ q[later[i]].address # q[later[j]].address
               /\ allow \/ q[later[i]].name # q[later[j]].name
    <3>1. CASE i = last
      <4>1. j \in DOMAIN ix
        BY <1>3, <2>4, <3>1
      <4>. QED  BY <1>1, <2>4, <3>1, <4>1
    <3>2. CASE j = last
      <4>1. i \in DOMAIN ix
        BY <1>3, <2>4, <3>2
      <4>. QED  BY <1>1, <2>4, <3>2, <4>1
    <3>3. CASE i # last /\ j # last
      <4>1. i \in DOMAIN ix /\ j \in DOMAIN ix
        BY <1>3, <3>3
      <4>2. q[later[i]] = p[ix[i]] /\ q[later[j]] = p[ix[j]]
        BY <1>1, <4>1
      <4>. QED  BY <2>2, <2>4, <4>1, <4>2
    <3>. QED  BY <3>1, <3>2, <3>3
  <2>. QED  BY <2>1, <2>3, <2>4
<1>5. DistinctSignals(q) <=> DistinctSignals(p)
  <2>1. DistinctNames(<< >>)
    BY DEF DistinctNames
  <2>2. DistinctSignals(q) <=> /\ \A n \in DOMAIN later : DistinctNames(Wrote(q, n))
                               /\ DistinctNames(BlockSigs(q, 0))
    BY DEF DistinctSignals, later
  <2>3. DistinctSignals(p) <=> /\ \A n \in DOMAIN ix : DistinctNames(Wrote(p, n))
                               /\ DistinctNames(BlockSigs(p, 0))
    BY DEF DistinctSignals, ix
  <2>. QED  BY <1>1, <1>2, <1>3, <2>1, <2>2, <2>3
<1>6. /\ NoneBad(q) <=> NoneBad(p)
      /\ SgsFit(q, mk) <=> SgsFit(p, mk)
  BY LinesAppend DEF q
<1>. QED  BY <1>4, <1>5, <1>6, WellFormedParts DEF q, ix

\* The signals of the message that is read, or those before the first one.
Current(text) == LET n == Len(BoLines(text)) IN IF n = 0 THEN BlockSigs(text, 0) ELSE Wrote(text, n)

LEMMA WellFormedSG ==
    ASSUME NEW p \in Seq(Lines), NEW l \in Lines, l.kind = "SG", NEW mk, NEW allow
    PROVE  WellFormed(Append(p, l), mk, allow) <=>
              /\ WellFormed(p, mk, allow)
              /\ SgFits(mk, l)
              /\ \A i \in DOMAIN Current(p) : Current(p)[i].name # l.name
<1>. DEFINE ix == BoLines(p)
            q  == Append(p, l)
<1>1. /\ BoLines(q) = ix /\ DOMAIN ix = 1 .. Len(ix) /\ Len(ix) \in Nat
      /\ \A n \in 1 .. Len(ix) : q[ix[n]] = p[ix[n]]
  BY PositionsStay
<1>2. /\ BlockSigs(q, 0) = IF Len(ix) = 0 THEN Append(BlockSigs(p, 0), l) ELSE BlockSigs(p, 0)
      /\ \A n \in 1 .. Len(ix) :
            Wrote(q, n) = IF n = Len(ix) THEN Append(Wrote(p, n), l) ELSE Wrote(p, n)
  BY WrittenGrows
<1>3. Current(p) \in Seq(Lines)
  <2>1. LinesOf("SG") \subseteq Lines
    BY DEF LinesOf
  <2>2. Current(p) \in Seq(LinesOf("SG"))
    BY <1>1, WrittenType DEF Current
  <2>. QED  BY <2>1, <2>2, SeqMonotonic
<1>4. DistinctNames(Append(Current(p), l)) <=>
         DistinctNames(Current(p)) /\ \A i \in DOMAIN Current(p) : Current(p)[i].name # l.name
  BY <1>3, DistinctAppend
<1>5. Current(p) = IF Len(ix) = 0 THEN BlockSigs(p, 0) ELSE Wrote(p, Len(ix))
  BY DEF Current
<1>. HIDE DEF ix, q
<1>6. DistinctBos(q, allow) <=> DistinctBos(p, allow)
  BY <1>1 DEF DistinctBos, ix
<1>7. DistinctSignals(q) <=>
         DistinctSignals(p) /\ \A i \in DOMAIN Current(p) : Current(p)[i].name # l.name
  <2>1. DistinctSignals(q) <=> /\ \A n \in 1 .. Len(ix) : DistinctNames(Wrote(q, n))
                               /\ DistinctNames(BlockSigs(q, 0))
    BY <1>1 DEF DistinctSignals
  <2>2. DistinctSignals(p) <=> /\ \A n \in 1 .. Len(ix) : DistinctNames(Wrote(p, n))
                               /\ DistinctNames(BlockSigs(p, 0))
    BY <1>1 DEF DistinctSignals, ix
  <2>3. CASE Len(ix) = 0
    <3>1. \A n \in 1 .. Len(ix) : FALSE
      BY <2>3
    <3>. QED  BY <1>2, <1>4, <1>5, <2>1, <2>2, <2>3, <3>1
  <2>4. CASE Len(ix) # 0
    <3>1. Len(ix) \in 1 .. Len(ix)
      BY <1>1, <2>4
    <3>. QED  BY <1>2, <1>4, <1>5, <2>1, <2>2, <2>4, <3>1
  <2>. QED  BY <2>3, <2>4
<1>8. /\ NoneBad(q) <=> NoneBad(p)
      /\ SgsFit(q, mk) <=> SgsFit(p, mk) /\ SgFits(mk, l)
  BY LinesAppend DEF q
<1>. QED  BY <1>6, <1>7, <1>8, WellFormedParts DEF q

LEMMA PrefixGrows ==
    ASSUME NEW text \in Seq(Lines), NEW k \in 0 .. Len(text) - 1
    PROVE  /\ SubSeq(text, 1, k) \in Seq(Lines) /\ Len(SubSeq(text, 1, k)) = k
           /\ text[k + 1] \in Lines
           /\ SubSeq(text, 1, k + 1) = Append(SubSeq(text, 1, k), text[k + 1])
<1>1. Len(text) \in Nat /\ k + 1 \in 1 .. Len(text)
  OBVIOUS
<1>2. SubSeq(text, 1, k) \in Seq(Lines) /\ Len(SubSeq(text, 1, k)) = k
  <2>1. \A i \in 1 .. k : text[i] \in Lines
    BY <1>1
  <2>. QED  BY <1>1, <2>1
<1>. QED  BY <1>1, <1>2

\* What is wrong with a text cannot be mended by going on with it.
LEMMA WellFormedShorter ==
    ASSUME NEW p \in Seq(Lines), NEW l \in Lines, NEW mk, NEW allow,
           WellFormed(Append(p, l), mk, allow)
    PROVE  WellFormed(p, mk, allow)
<1>1. l.kind \in {"BO", "SG", "VAL", "bad", "other"}
  BY DEF Lines, Bad, Other
<1>2. l.kind # "bad"
  BY WellFormedParts, LinesAppend
<1>. QED  BY <1>1, <1>2, WellFormedQuiet, WellFormedBO, WellFormedSG

LEMMA WellFormedPrefix ==
    ASSUME NEW text \in Seq(Lines), NEW mk, NEW allow, WellFormed(text, mk, allow),
           NEW k \in 0 .. Len(text)
    PROVE  WellFormed(SubSeq(text, 1, k), mk, allow)
<1>. DEFINE n == Len(text)
            S == {m \in 0 .. n : \E i \in 0 .. n :
                     i + m = n /\ WellFormed(SubSeq(text, 1, i), mk, allow)}
<1>1. n \in Nat
  OBVIOUS
<1>2. 0 \in S
  <2>1. SubSeq(text, 1, n) = text
    OBVIOUS
  <2>2. WellFormed(SubSeq(text, 1, n), mk, allow)
    BY <2>1
  <2>. HIDE DEF n
  <2>. QED  BY <1>1, <2>2
<1>3. ASSUME NEW m \in 0 .. n - 1, m \in S
      PROVE  m + 1 \in S
  <2>1. PICK j \in 0 .. n : j + m = n /\ WellFormed(SubSeq(text, 1, j), mk, allow)
    BY <1>3
  <2>2. PICK i \in 0 .. Len(text) - 1 : j = i + 1
    <3>1. j - 1 \in 0 .. Len(text) - 1 /\ j = j - 1 + 1
      BY <1>1, <2>1
    <3>. QED  BY <3>1
  <2>3. /\ SubSeq(text, 1, i) \in Seq(Lines) /\ text[i + 1] \in Lines
        /\ SubSeq(text, 1, j) = Append(SubSeq(text, 1, i), text[i + 1])
    BY <2>2, PrefixGrows
  <2>4. WellFormed(SubSeq(text, 1, i), mk, allow)
    BY <2>1, <2>3, WellFormedShorter
  <2>5. i \in 0 .. n /\ i + (m + 1) = n /\ m + 1 \in 0 .. n
    BY <1>1, <2>1, <2>2
  <2>. HIDE DEF n
  <2>. QED  BY <2>4, <2>5
<1>4. \A m \in 0 .. n : m \in S
  <2>. HIDE DEF S, n
  <2>. QED  BY <1>1, <1>2, <1>3, UpTo
<1>5. n - k \in 0 .. n
  BY <1>1
<1>6. PICK i \in 0 .. n : i + (n - k) = n /\ WellFormed(SubSeq(text, 1, i), mk, allow)
  BY <1>4, <1>5
<1>7. i = k
  BY <1>1, <1>6
<1>. QED  BY <1>6, <1>7

LEMMA WellFormedEmpty ==
    ASSUME NEW p \in Seq(Lines), Len(p) = 0, NEW mk, NEW allow
    PROVE  WellFormed(p, mk, allow)
<1>1. DOMAIN p = {} /\ BoLines(p) = << >> /\ DOMAIN BoLines(p) = {} /\ Len(BoLines(p)) = 0
  <2>1. DOMAIN p = {}
    OBVIOUS
  <2>2. BoLines(p) = << >>
    BY BoLinesEmpty
  <2>3. DOMAIN << >> = {} /\ Len(<< >>) = 0
    OBVIOUS
  <2>. QED  BY <2>1, <2>2, <2>3
<1>2. BlockSigs(p, 0) = << >>
  <2>1. Block(p, BoLines(p), 0) = SubSeq(p, 1, Len(p))
    BY <1>1 DEF Block
  <2>2. SubSeq(p, 1, Len(p)) = p
    OBVIOUS
  <2>. QED  BY <2>1, <2>2, OfKindEmpty DEF BlockSigs
<1>3. DistinctNames(BlockSigs(p, 0))
  BY <1>2 DEF DistinctNames
<1>. QED  BY <1>1, <1>3, WellFormedParts DEF NoneBad, SgsFit, DistinctBos, DistinctSignals
-----------------------------------------------------------------------------
(* The tokens of a VAL_ line. *)

\* The values and the descriptions in turn, empty ones included.
Both(defs) == [i \in 1 .. 2 * Len(defs) |->
                  IF i % 2 = 1 THEN <<"value", defs[(i + 1) \div 2][1]>> ELSE defs[i \div 2][2]]

AnyToken == ({"value"} \X Nat) \cup Descriptions

LEMMA BothType ==
    ASSUME NEW defs \in Seq(Nat \X Descriptions)
    PROVE  /\ Both(defs) \in Seq(AnyToken) /\ Len(Both(defs)) = 2 * Len(defs)
           /\ << >> \o Both(defs) = Both(defs)
<1>1. ASSUME NEW i \in 1 .. 2 * Len(defs)
      PROVE  Both(defs)[i] \in AnyToken
  <2>1. CASE i % 2 = 1
    <3>1. (i + 1) \div 2 \in 1 .. Len(defs)
      BY <2>1
    <3>2. defs[(i + 1) \div 2][1] \in Nat
      BY <3>1
    <3>. QED  BY <2>1, <3>2 DEF Both, AnyToken
  <2>2. CASE i % 2 # 1
    <3>1. i \div 2 \in 1 .. Len(defs)
      BY <2>2
    <3>2. defs[i \div 2][2] \in Descriptions
      BY <3>1
    <3>. QED  BY <2>2, <3>2 DEF Both, AnyToken
  <2>. QED  BY <2>1, <2>2
<1>2. 2 * Len(defs) \in Nat
  OBVIOUS
<1>3. Both(defs) \in [1 .. 2 * Len(defs) -> AnyToken]
  BY <1>1 DEF Both
<1>4. Both(defs) \in Seq(AnyToken) /\ Len(Both(defs)) = 2 * Len(defs)
  <2>. DEFINE n == 2 * Len(defs)
  <2>1. n \in Nat /\ Both(defs) \in [1 .. n -> AnyToken]
    BY <1>2, <1>3
  <2>2. Both(defs) \in Seq(AnyToken) /\ Len(Both(defs)) = n
    <3>. HIDE DEF n
    <3>. QED  BY <2>1
  <2>. QED  BY <2>2
<1>. QED  BY <1>4, ConcatEmptySeq

LEMMA TokensAre ==
    ASSUME NEW defs \in Seq(Nat \X Descriptions)
    PROVE  Tokens(defs) = Kept(Both(defs), {i \in DOMAIN Both(defs) : Both(defs)[i] # NoText})
<1>1. << >> \o Both(defs) = Both(defs)
  BY BothType
<1>2. Tokens(defs) = Kept(<< >> \o Both(defs),
                          {i \in DOMAIN (<< >> \o Both(defs)) : (<< >> \o Both(defs))[i] # NoText})
  BY DEF Tokens, Both
<1>. QED  BY <1>1, <1>2

LEMMA TokensType ==
    ASSUME NEW defs \in Seq(Nat \X Descriptions)
    PROVE  Tokens(defs) \in Seq(TokenRecords)
<1>. DEFINE s  == Both(defs)
            ix == {i \in DOMAIN s : s[i] # NoText}
<1>1. s \in Seq(AnyToken)
  BY BothType
<1>2. AnyToken \subseteq TokenRecords \cup {NoText}
  BY DEF AnyToken, TokenRecords, Descriptions
<1>. HIDE DEF s
<1>3. \A i \in 1 .. Len(s) : i \in ix => s[i] \in TokenRecords
  <2>1. \A i \in 1 .. Len(s) : s[i] \in AnyToken
    BY <1>1
  <2>. QED  BY <1>2, <2>1
<1>4. Kept(s, ix) \in Seq(TokenRecords)
  <2>. HIDE DEF ix
  <2>. QED  BY <1>1, <1>3, KeptSeq
<1>. QED  BY <1>4, TokensAre DEF s

-----------------------------------------------------------------------------
(***************************************************************************)
(* 2. The reader's locals and maps                                         *)
(***************************************************************************)
\* No two messages have the same address, nor the same name unless the
\* caller allows it.
DistinctMessages ==
    \A i, j \in DOMAIN msgs :
        /\ msgs[i].address = msgs[j].address => i = j
        /\ ~allow_duplicate_msg_name /\ msgs[i].name = msgs[j].name => i = j

\* Between two calls there is nothing to be found.
IdleInv == state = "idle" => line_num = 0 /\ msgs = << >>

\* The maps are about the messages and about nothing else.
MapsCover ==
    state = "parsed" => DOMAIN addr_to_msg = address_set /\ DOMAIN name_to_msg = msg_name_set

MessageRecords == [address : Nat, name : Names, size : Nat, sigs : Seq(SignalRecords)]
ValRecords     == [address : Nat, name : Names, def_val : Seq(TokenRecords),
                   sigs : Seq(SignalRecords)]

ValsTyped == vals \in Seq(ValRecords)

ReaderInv ==
    /\ LocalsTyped /\ MessagesTyped /\ SignalsBounded /\ ValsTyped
    /\ DistinctMessages /\ IdleInv /\ LookupsAgree /\ MapsCover
-----------------------------------------------------------------------------
\* A set of positions that is not empty has a last one.
LEMMA LastExists ==
    ASSUME NEW n \in Nat, NEW S, S \subseteq 1 .. n, S # {}
    PROVE  \E x \in S : \A y \in S : y <= x
<1>. DEFINE Less == {p \in Nat \X Nat : p[1] < p[2]}
            T    == {n - x : x \in S}
<1>1. IsWellFoundedOn(Less, Nat)
  BY NatLessThanWellFounded DEF OpToRel
<1>2. T \subseteq Nat /\ T # {}
  <2>1. \A x \in S : n - x \in Nat
    OBVIOUS
  <2>2. T \subseteq Nat
    BY <2>1
  <2>3. \E x \in S : n - x \in T
    OBVIOUS
  <2>. QED  BY <2>2, <2>3
<1>3. \E z \in T : \A w \in T : ~ (<<w, z>> \in Less)
  <2>. HIDE DEF Less, T
  <2>. QED  BY <1>1, <1>2, WFMin
<1>4. PICK z \in T : \A w \in T : ~ (<<w, z>> \in Less)
  BY <1>3
<1>5. \A w \in T : z <= w
  <2>. SUFFICES ASSUME NEW w \in T PROVE z <= w
    OBVIOUS
  <2>1. w \in Nat /\ z \in Nat
    BY <1>2
  <2>2. ~ (<<w, z>> \in Less)
    BY <1>4
  <2>. HIDE DEF T
  <2>. QED  BY <2>1, <2>2
<1>6. PICK x \in S : z = n - x
  BY <1>4
<1>7. \A y \in S : n - x <= n - y
  BY <1>5, <1>6
<1>. QED  BY <1>7

\* The line that is next is one of Lines, told by its kind.
LEMMA LineType ==
    ASSUME LocalsTyped, More
    PROVE  /\ Line \in Lines
           /\ line_num + 1 \in 0 .. Len(stream)
           /\ Line.kind = "BO" => Line.address \in Nat /\ Line.name \in Names /\ Line.size \in Nat
           /\ Line.kind = "SG" => /\ Line.name \in Names /\ Line.start_bit \in Nat
                                  /\ Line.size \in Nat /\ Line.is_little_endian \in BOOLEAN
           /\ Line.kind = "VAL" => /\ Line.address \in Nat /\ Line.name \in Names
                                   /\ Line.defs \in Seq(Nat \X Descriptions)
<1>1. line_num + 1 \in DOMAIN stream /\ stream \in Seq(Lines)
  BY DEF LocalsTyped, More
<1>2. Line \in Lines
  BY <1>1 DEF Line
<1>. QED  BY <1>1, <1>2 DEF Lines, Bad, Other, LocalsTyped

LEMMA LsbType ==
    ASSUME NEW sg, sg.start_bit \in Nat, sg.size \in Nat, NEW lsb \in Lsbs(sg)
    PROVE  lsb \in Int
<1>1. CASE sg.is_little_endian
  BY <1>1 DEF Lsbs
<1>2. CASE ~sg.is_little_endian
  <2>1. MaxBits \in Nat
    BY DEF MaxBits
  <2>2. BePosition(sg.start_bit) \in Int
    BY <2>1 DEF BePosition, BeBit
  <2>3. BeIndex(sg) \in Int
    BY <2>2 DEF BeIndex
  <2>4. BeBit(BeIndex(sg)) \in Int
    BY <2>3 DEF BeBit
  <2>. QED  BY <1>2, <2>4, GarbageAssumption DEF Lsbs
<1>. QED  BY <1>1, <1>2

LEMMA SignalTyped ==
    ASSUME NEW sg, sg.name \in Names, sg.start_bit \in Nat, sg.size \in Nat,
           sg.is_little_endian \in BOOLEAN, NEW lsb \in Int
    PROVE  Signal(sg, lsb) \in SignalRecords
<1>1. Msb(sg) \in Int
  BY DEF Msb
<1>2. SignalType(make, sg) \in SignalTypes
  BY DEF SignalType, SignalTypes
<1>. QED  BY <1>1, <1>2 DEF Signal, SignalRecords

LEMMA SignalsOfType ==
    ASSUME SignalsBounded, NEW a
    PROVE  SignalsOf(a) \in Seq(SignalRecords)
BY DEF SignalsBounded, SignalsOf
-----------------------------------------------------------------------------
LEMMA InitInv == ReaderInit => ReaderInv
<1>. SUFFICES ASSUME ReaderInit PROVE ReaderInv
  OBVIOUS
<1>1. allow_duplicate_msg_name \in BOOLEAN
  BY Zenon DEF ReaderInit
<1>2. LocalsTyped
  BY <1>1 DEF ReaderInit, LocalsTyped, Makes, NoChecksum
<1>3. MessagesTyped /\ SignalsBounded /\ ValsTyped
  BY DEF ReaderInit, MessagesTyped, SignalsBounded, ValsTyped, Empty
<1>. QED  BY <1>2, <1>3 DEF ReaderInit, ReaderInv, DistinctMessages, IdleInv, LookupsAgree, MapsCover

LEMMA OpenStep ==
    ASSUME ReaderInv, NEW mk \in Makes, NEW text \in Seq(Lines), NEW allow \in BOOLEAN,
           Open(mk, text, allow)
    PROVE  ReaderInv'
<1>1. LocalsTyped'
  <2>1. allow_duplicate_msg_name' \in BOOLEAN
    BY Zenon DEF Open
  <2>2. line_num = 0
    BY DEF Open, ReaderInv, IdleInv
  <2>. QED  BY <2>1, <2>2 DEF Open, ReaderInv, LocalsTyped
<1>2. msgs = << >> /\ UNCHANGED dbcVars
  BY DEF Open, ReaderInv, IdleInv
<1>. QED
  BY <1>1, <1>2 DEF Open, ReaderInv, MessagesTyped, SignalsBounded, ValsTyped, DistinctMessages,
     IdleInv, LookupsAgree, MapsCover, dbcVars

\* The lines that add no message and no signal.
LEMMA QuietStep ==
    ASSUME ReaderInv, PassOver \/ ReadVal \/ Refuse
    PROVE  ReaderInv'
<1>1. LocalsTyped' /\ state' # "idle" /\ state' # "parsed"
      /\ UNCHANGED <<allow_duplicate_msg_name, msgs, signals, addr_to_msg, name_to_msg>>
  <2>1. line_num' \in 0 .. Len(stream)
    BY LineType DEF PassOver, ReadVal, Refuse, Took, ReaderInv, LocalsTyped
  <2>. QED  BY <2>1 DEF PassOver, ReadVal, Refuse, Took, More, argVars, dbcVars, ReaderInv, LocalsTyped
<1>2. ValsTyped'
  <2>1. vals \in Seq(ValRecords)
    BY DEF ReaderInv, ValsTyped
  <2>2. CASE ReadVal
    <3>. DEFINE v == [address |-> Line.address, name |-> Line.name,
                      def_val |-> Tokens(Line.defs), sigs |-> << >>]
    <3>1. /\ Line.address \in Nat /\ Line.name \in Names
          /\ Line.defs \in Seq(Nat \X Descriptions)
      BY <2>2, LineType DEF ReadVal, ReaderInv
    <3>2. Tokens(Line.defs) \in Seq(TokenRecords) /\ << >> \in Seq(SignalRecords)
      BY <3>1, TokensType, EmptySeq
    <3>3. v \in ValRecords
      BY <3>1, <3>2 DEF ValRecords
    <3>4. vals' = Append(vals, v)
      BY <2>2 DEF ReadVal
    <3>. HIDE DEF v
    <3>5. Append(vals, v) \in Seq(ValRecords)
      BY <2>1, <3>3, AppendProperties
    <3>. QED  BY <3>4, <3>5 DEF ValsTyped
  <2>3. CASE PassOver \/ Refuse
    BY <2>1, <2>3 DEF PassOver, Refuse, dbcVars, ValsTyped
  <2>. QED  BY <2>2, <2>3
<1>. QED
  BY <1>1, <1>2 DEF ReaderInv, MessagesTyped, SignalsBounded, DistinctMessages, IdleInv, LookupsAgree, MapsCover

LEMMA ReadMessageStep ==
    ASSUME ReaderInv, ReadMessage
    PROVE  ReaderInv'
<1>. DEFINE m == [address |-> Line.address, name |-> Line.name, size |-> Line.size, sigs |-> << >>]
<1>1. /\ Line.kind = "BO" /\ Line.address \in Nat /\ Line.name \in Names /\ Line.size \in Nat
      /\ line_num + 1 \in 0 .. Len(stream)
  BY LineType DEF ReadMessage, ReaderInv
<1>2. m \in MessageRecords
  <2>1. << >> \in Seq(SignalRecords)
    OBVIOUS
  <2>. QED  BY <1>1, <2>1 DEF MessageRecords
<1>3. msgs \in Seq(MessageRecords) /\ msgs' = Append(msgs, m)
      /\ UNCHANGED <<signals, vals, addr_to_msg, name_to_msg>>
  BY DEF ReadMessage, ReaderInv, MessagesTyped, MessageRecords
<1>4. LocalsTyped' /\ state' = "reading" /\ UNCHANGED allow_duplicate_msg_name
  BY <1>1 DEF ReadMessage, Took, More, argVars, ReaderInv, LocalsTyped
<1>. HIDE DEF m
<1>5. /\ msgs' \in Seq(MessageRecords) /\ DOMAIN msgs \subseteq DOMAIN msgs'
      /\ DOMAIN msgs' = DOMAIN msgs \cup {Len(msgs) + 1}
      /\ msgs'[Len(msgs) + 1] = m /\ \A i \in DOMAIN msgs : msgs'[i] = msgs[i]
  BY <1>2, <1>3
<1>6. MessagesTyped' /\ SignalsBounded'
  BY <1>3, <1>5 DEF ReaderInv, MessagesTyped, SignalsBounded, MessageRecords
<1>7. \A i \in DOMAIN msgs : /\ msgs[i].address # m.address
                             /\ allow_duplicate_msg_name \/ msgs[i].name # m.name
  BY DEF ReadMessage, IsDuplicate, address_set, msg_name_set, m
<1>8. DistinctMessages'
  BY <1>4, <1>5, <1>7 DEF ReaderInv, DistinctMessages
<1>. QED  BY <1>3, <1>4, <1>6, <1>8 DEF ReaderInv, ValsTyped, IdleInv, LookupsAgree, MapsCover

LEMMA BeBitInFrame ==
    ASSUME NEW k \in 0 .. MaxBits - 1
    PROVE  BeBit(k) \in 0 .. MaxBits - 1
<1>1. k \in 0 .. 511
  BY DEF MaxBits
<1>2. k \div 8 \in 0 .. 63 /\ k % 8 \in 0 .. 7
  BY <1>1
<1>3. BeBit(k) \in 0 .. 511
  BY <1>2 DEF BeBit
<1>. QED  BY <1>3 DEF MaxBits

\* Which signals pass the check of the bounds.
LEMMA AcceptedBounded ==
    ASSUME NEW sg, sg.start_bit \in Nat, sg.size \in Nat, NEW lsb \in Lsbs(sg), lsb \in Int,
           InBounds(sg, lsb)
    PROVE  Bounded(Signal(sg, lsb))
<1>0. PICK sig : sig = Signal(sg, lsb)
  OBVIOUS
<1>1. /\ sig.lsb = lsb /\ sig.msb = Msb(sg) /\ sig.size = sg.size
      /\ sig.start_bit = sg.start_bit /\ sig.is_little_endian = sg.is_little_endian
  BY <1>0 DEF Signal
<1>. SUFFICES Bounded(sig)
  BY <1>0
<1>2. Beyond(sig) <=> Beyond(sg)
  BY <1>1, Zenon DEF Beyond, BeIndex
<1>3. lsb < MaxBits /\ Msb(sg) < MaxBits /\ MaxBits \in Nat
  BY DEF InBounds, MaxBits
<1>4. CASE sg.is_little_endian /\ sg.size # 0
  <2>1. lsb = sg.start_bit /\ Msb(sg) = sg.start_bit + sg.size - 1
    BY <1>4 DEF Lsbs, Msb
  <2>2. lsb \in 0 .. MaxBits - 1 /\ Msb(sg) \in 0 .. MaxBits - 1
    BY <1>3, <1>4, <2>1
  <2>. QED  BY <1>1, <1>3, <2>2 DEF Bounded, WithinFrame
<1>5. CASE ~sg.is_little_endian /\ ~Beyond(sg)
  <2>1. BeIndex(sg) \in 0 .. MaxBits - 1 /\ lsb = BeBit(BeIndex(sg))
    BY <1>5 DEF Beyond, Lsbs
  <2>2. lsb \in 0 .. MaxBits - 1
    BY <2>1, BeBitInFrame
  <2>3. Msb(sg) \in 0 .. MaxBits - 1
    BY <1>3, <1>5 DEF Msb
  <2>. QED  BY <1>1, <1>3, <2>2, <2>3 DEF Bounded, WithinFrame
<1>6. CASE sg.size = 0 \/ Beyond(sg)
  BY <1>1, <1>2, <1>3, <1>6 DEF Bounded
<1>. QED  BY <1>4, <1>5, <1>6

LEMMA ReadSignalStep ==
    ASSUME ReaderInv, ReadSignal
    PROVE  ReaderInv'
<1>. DEFINE sg == Line
<1>1. /\ sg.name \in Names /\ sg.start_bit \in Nat /\ sg.size \in Nat
      /\ sg.is_little_endian \in BOOLEAN /\ line_num + 1 \in 0 .. Len(stream) /\ address \in Nat
  BY LineType DEF ReadSignal, ReaderInv, LocalsTyped
<1>2. PICK lsb \in Lsbs(sg) : InBounds(sg, lsb) /\ AddSignal(sg, lsb)
  BY DEF ReadSignal
<1>. HIDE DEF sg
<1>. DEFINE sig == Signal(sg, lsb)
<1>3. sig \in SignalRecords /\ Bounded(sig)
  BY <1>1, <1>2, LsbType, SignalTyped, AcceptedBounded
<1>4. SignalsOf(address) \in Seq(SignalRecords)
      /\ \A i \in DOMAIN SignalsOf(address) : Bounded(SignalsOf(address)[i])
  BY SignalsOfType DEF ReaderInv, SignalsBounded, SignalsOf
<1>. DEFINE longer == Append(SignalsOf(address), sig)
<1>5. signals' = [a \in DOMAIN signals \cup {address} |-> IF a = address THEN longer ELSE signals[a]]
  BY <1>2 DEF AddSignal
<1>. HIDE DEF sig
<1>6. longer \in Seq(SignalRecords)
      /\ \A i \in DOMAIN longer : Bounded(longer[i])
  BY <1>3, <1>4
<1>. HIDE DEF longer
<1>7. SignalsBounded'
  BY <1>1, <1>5, <1>6 DEF ReaderInv, SignalsBounded
<1>8. /\ LocalsTyped' /\ state' = "reading"
      /\ UNCHANGED <<allow_duplicate_msg_name, msgs, vals, addr_to_msg, name_to_msg>>
  BY <1>1 DEF ReadSignal, Took, More, argVars, ReaderInv, LocalsTyped
<1>. QED
  BY <1>7, <1>8 DEF ReaderInv, MessagesTyped, ValsTyped, DistinctMessages, IdleInv, LookupsAgree, MapsCover

\* The maps made at the end: the position of a message under its address, and
\* the last position of its name.
LEMMA LastAtIs ==
    ASSUME DistinctMessages, NEW i \in DOMAIN msgs
    PROVE  LastAt(msgs[i].address) = i
<1>1. \A j \in DOMAIN msgs : msgs[j].address = msgs[i].address => j = i
  BY DEF DistinctMessages
<1>. QED  BY <1>1 DEF LastAt

LEMMA LastNamedIs ==
    ASSUME MessagesTyped, NEW i \in DOMAIN msgs
    PROVE  LET k == LastNamed(msgs[i].name)
           IN /\ k \in DOMAIN msgs /\ msgs[k].name = msgs[i].name
              /\ i <= k
<1>. DEFINE S == {j \in DOMAIN msgs : msgs[j].name = msgs[i].name}
<1>1. Len(msgs) \in Nat /\ DOMAIN msgs = 1 .. Len(msgs)
  BY DEF MessagesTyped
<1>2. S \subseteq 1 .. Len(msgs) /\ i \in S
  BY <1>1
<1>3. \E x \in S : \A y \in S : y <= x
  <2>. HIDE DEF S
  <2>. QED  BY <1>1, <1>2, LastExists
<1>4. \E k \in DOMAIN msgs :
         msgs[k].name = msgs[i].name
         /\ \A j \in DOMAIN msgs : msgs[j].name = msgs[i].name => j <= k
  BY <1>3
<1>. QED  BY <1>4 DEF LastNamed

LEMMA FinishStep ==
    ASSUME ReaderInv, Finish
    PROVE  ReaderInv'
<1>. DEFINE done == [i \in DOMAIN msgs |-> [msgs[i] EXCEPT !.sigs = SignalsOf(msgs[i].address)]]
<1>1. /\ msgs' = done /\ state' = "parsed"
      /\ addr_to_msg' = [a \in address_set |-> LastAt(a)]
      /\ name_to_msg' = [n \in msg_name_set |-> LastNamed(n)]
      /\ UNCHANGED <<signals, allow_duplicate_msg_name>>
  BY DEF Finish, MapAddresses, MapNames, argVars
<1>2. msgs \in Seq(MessageRecords) /\ Len(msgs) \in Nat /\ DOMAIN msgs = 1 .. Len(msgs)
  BY DEF ReaderInv, MessagesTyped, MessageRecords
<1>3. ASSUME NEW i \in DOMAIN msgs
      PROVE  /\ msgs'[i] \in MessageRecords
             /\ msgs'[i].address = msgs[i].address /\ msgs'[i].name = msgs[i].name
  <2>1. msgs[i] \in MessageRecords
    BY <1>2
  <2>2. SignalsOf(msgs[i].address) \in Seq(SignalRecords)
    BY SignalsOfType DEF ReaderInv
  <2>3. msgs'[i] = [msgs[i] EXCEPT !.sigs = SignalsOf(msgs[i].address)]
    BY <1>1
  <2>. QED  BY <2>1, <2>2, <2>3 DEF MessageRecords
<1>4. msgs' \in Seq(MessageRecords) /\ DOMAIN msgs' = DOMAIN msgs
  <2>1. DOMAIN msgs' = 1 .. Len(msgs)
    BY <1>1, <1>2
  <2>2. \A i \in 1 .. Len(msgs) : msgs'[i] \in MessageRecords
    BY <1>2, <1>3
  <2>3. msgs' = [i \in 1 .. Len(msgs) |-> msgs'[i]]
    BY <1>1, <1>2
  <2>4. msgs' \in [1 .. Len(msgs) -> MessageRecords]
    BY <2>2, <2>3
  <2>. QED  BY <1>2, <2>1, <2>4
<1>5. \A i \in DOMAIN msgs : LastAt(msgs[i].address) = i
  BY LastAtIs DEF ReaderInv
<1>6. \A i \in DOMAIN msgs : /\ LastNamed(msgs[i].name) \in DOMAIN msgs
                             /\ msgs[LastNamed(msgs[i].name)].name = msgs[i].name
                             /\ i <= LastNamed(msgs[i].name)
  BY LastNamedIs DEF ReaderInv
<1>. DEFINE byAddress == addr_to_msg'
            byName    == name_to_msg'
<1>11. /\ byAddress = [a \in address_set |-> LastAt(a)]
       /\ byName = [n \in msg_name_set |-> LastNamed(n)]
       /\ allow_duplicate_msg_name' = allow_duplicate_msg_name
  BY <1>1
<1>. HIDE DEF done, byAddress, byName
<1>12. \A i \in DOMAIN msgs : msgs[i].address \in Nat /\ msgs[i].name \in Names
  <2>1. \A i \in DOMAIN msgs : msgs[i] \in MessageRecords
    BY <1>2
  <2>2. \A m \in MessageRecords : m.address \in Nat /\ m.name \in Names
    BY DEF MessageRecords
  <2>. QED  BY <2>1, <2>2
<1>7. MessagesTyped'
  <2>1. /\ DOMAIN addr_to_msg' \subseteq Nat
        /\ \A a \in DOMAIN addr_to_msg' : addr_to_msg'[a] \in DOMAIN msgs
    BY <1>11, <1>12, <1>5 DEF address_set, byAddress
  <2>2. /\ DOMAIN name_to_msg' \subseteq Names
        /\ \A n \in DOMAIN name_to_msg' : name_to_msg'[n] \in DOMAIN msgs
    BY <1>11, <1>12, <1>6 DEF msg_name_set, byName
  <2>. QED  BY <1>4, <2>1, <2>2 DEF MessagesTyped, MessageRecords
<1>8. DistinctMessages'
  BY <1>11, <1>3, <1>4 DEF ReaderInv, DistinctMessages
<1>9. LookupsAgree'
  <2>1. ASSUME NEW i \in DOMAIN msgs
        PROVE  byAddress[msgs[i].address] = i
    BY <1>11, <1>5 DEF address_set
  <2>2. ASSUME NEW i \in DOMAIN msgs
        PROVE  /\ byName[msgs[i].name] = LastNamed(msgs[i].name)
               /\ byName[msgs[i].name] \in DOMAIN msgs
               /\ msgs[byName[msgs[i].name]].name = msgs[i].name
               /\ i <= byName[msgs[i].name]
    BY <1>11, <1>6 DEF msg_name_set
  <2>3. ASSUME NEW i \in DOMAIN msgs
        PROVE  \/ byName[msgs[i].name] = i
               \/ allow_duplicate_msg_name /\ byName[msgs[i].name] > i
    <3>1. byName[msgs[i].name] \in Int /\ i \in Int
      BY <1>2, <2>2
    <3>2. CASE allow_duplicate_msg_name
      BY <2>2, <3>1, <3>2
    <3>3. CASE ~allow_duplicate_msg_name
      BY <2>2, <3>3 DEF ReaderInv, DistinctMessages
    <3>. QED  BY <3>2, <3>3
  <2>4. ASSUME NEW i \in DOMAIN msgs'
        PROVE  /\ byAddress[msgs'[i].address] = i
               /\ \/ byName[msgs'[i].name] = i
                  \/ /\ allow_duplicate_msg_name'
                     /\ byName[msgs'[i].name] > i
                     /\ msgs'[byName[msgs'[i].name]].name = msgs'[i].name
    <3>1. i \in DOMAIN msgs /\ msgs'[i].address = msgs[i].address /\ msgs'[i].name = msgs[i].name
      BY <1>3, <1>4
    <3>2. msgs'[byName[msgs[i].name]].name = msgs[i].name
      BY <1>3, <2>2, <3>1
    <3>. QED  BY <1>11, <2>1, <2>3, <3>1, <3>2
  <2>. QED  BY <2>4 DEF LookupsAgree, byAddress, byName
<1>10. LocalsTyped' /\ SignalsBounded' /\ IdleInv'
  BY <1>1 DEF Finish, argVars, ReaderInv, LocalsTyped, SignalsBounded, IdleInv
<1>13. ValsTyped'
  <2>1. vals \in Seq(ValRecords) /\ Len(vals) \in Nat /\ DOMAIN vals = 1 .. Len(vals)
    BY DEF ReaderInv, ValsTyped
  <2>2. vals' = [i \in 1 .. Len(vals) |-> [vals[i] EXCEPT !.sigs = SignalsOf(vals[i].address)]]
    BY <2>1 DEF Finish
  <2>3. ASSUME NEW i \in 1 .. Len(vals)
        PROVE  vals'[i] \in ValRecords
    <3>1. vals[i] \in ValRecords
      BY <2>1
    <3>2. SignalsOf(vals[i].address) \in Seq(SignalRecords)
      BY SignalsOfType DEF ReaderInv
    <3>3. vals'[i] = [vals[i] EXCEPT !.sigs = SignalsOf(vals[i].address)]
      BY <2>2
    <3>. QED  BY <3>1, <3>2, <3>3 DEF ValRecords
  <2>4. vals' \in [1 .. Len(vals) -> ValRecords]
    <3>1. vals' = [i \in 1 .. Len(vals) |-> vals'[i]]
      BY <2>2
    <3>. QED  BY <2>3, <3>1
  <2>. QED  BY <2>1, <2>4 DEF ValsTyped
<1>14. MapsCover'
  <2>1. address_set' = address_set /\ msg_name_set' = msg_name_set
    BY <1>3, <1>4 DEF address_set, msg_name_set
  <2>. QED  BY <1>11, <2>1 DEF MapsCover, byAddress, byName
<1>. QED  BY <1>7, <1>8, <1>9, <1>10, <1>13, <1>14 DEF ReaderInv

LEMMA CloseStep ==
    ASSUME ReaderInv, Close
    PROVE  ReaderInv'
<1>1. allow_duplicate_msg_name' \in BOOLEAN
  BY Zenon DEF Close
<1>2. LocalsTyped'
  BY <1>1 DEF Close, LocalsTyped, Makes, NoChecksum
<1>3. MessagesTyped' /\ SignalsBounded' /\ ValsTyped'
  BY DEF Close, MessagesTyped, SignalsBounded, ValsTyped, Empty
<1>. QED  BY <1>2, <1>3 DEF Close, ReaderInv, DistinctMessages, IdleInv, LookupsAgree, MapsCover

LEMMA ReaderStep == ReaderInv /\ [ReaderNext]_readerVars => ReaderInv'
<1>. SUFFICES ASSUME ReaderInv, [ReaderNext]_readerVars PROVE ReaderInv'
  OBVIOUS
<1>1. CASE UNCHANGED readerVars
  <2>1. MapsCover'
    BY <1>1 DEF readerVars, argVars, dbcVars, ReaderInv, MapsCover, address_set, msg_name_set
  <2>. QED
    BY <1>1, <2>1 DEF readerVars, argVars, dbcVars, ReaderInv, LocalsTyped, MessagesTyped,
       SignalsBounded, ValsTyped, DistinctMessages, IdleInv, LookupsAgree
<1>2. Texts \subseteq Seq(Lines)
  BY TextsAssumption
<1>. QED
  BY <1>1, <1>2, OpenStep, QuietStep, ReadMessageStep, ReadSignalStep, FinishStep, CloseStep
  DEF ReaderNext, ReadLine

(***************************************************************************)
(* ReaderInv holds: the locals of dbc_parse_from_stream and its maps agree *)
(* with the messages and values parsed so far, for every text.             *)
(***************************************************************************)
THEOREM ReaderInvariant == ReaderSpec => []ReaderInv
BY InitInv, ReaderStep, PTL DEF ReaderSpec
-----------------------------------------------------------------------------
LEMMA InvTypes == ReaderInv => ReaderTypeOK
BY DEF ReaderInv, ReaderTypeOK, ValsTyped, ValRecords

(***************************************************************************)
(* The locals of dbc_parse_from_stream keep their types, the maps point    *)
(* into msgs, and every signal it accepts lies within a 64 byte frame,     *)
(* both ends of it, unless it is empty or its lsb was read beyond be_bits: *)
(* such a one ends no higher than the frame, whatever was read.            *)
(***************************************************************************)
THEOREM ReaderTypes == ReaderSpec => []ReaderTypeOK
BY InvTypes, ReaderInvariant, PTL

(***************************************************************************)
(* Every message of a parsed DBC is found by its address, and by its name  *)
(* unless the caller allows a later message to take it.                    *)
(***************************************************************************)
THEOREM LookupsAgreeHolds == ReaderSpec => []LookupsAgree
<1>1. ReaderInv => LookupsAgree
  BY DEF ReaderInv
<1>. QED  BY <1>1, ReaderInvariant, PTL

-----------------------------------------------------------------------------
(***************************************************************************)
(* 3. What was read so far is what the lines so far say: an invariant      *)
(*    about every prefix of the text, of which ReadsAsWritten and          *)
(*    RefusesExactlyIllFormed are the last case.                           *)
(***************************************************************************)
Read == SubSeq(stream, 1, line_num)

AsWritten(sigs, written) ==
    /\ Len(sigs) = Len(written)
    /\ \A i \in DOMAIN written : IsWritten(sigs[i], written[i])

MessagesRead(text) ==
    LET ix == BoLines(text) IN
    /\ Len(msgs) = Len(ix)
    /\ \A n \in DOMAIN ix :
          /\ msgs[n].address = text[ix[n]].address
          /\ msgs[n].name = text[ix[n]].name
          /\ msgs[n].size = text[ix[n]].size

\* Signals are added under the address of the last message.
AddressRead == address = IF Len(msgs) = 0 THEN 0 ELSE msgs[Len(msgs)].address

SignalsRead(text) ==
    /\ \A n \in DOMAIN msgs : AsWritten(SignalsOf(msgs[n].address), Wrote(text, n))
    /\ 0 \notin address_set => AsWritten(SignalsOf(0), BlockSigs(text, 0))
    /\ DOMAIN signals \subseteq {0} \cup address_set

ValsRead(text) ==
    LET values == OfKind(text, "VAL") IN
    /\ Len(vals) = Len(values)
    /\ \A i \in DOMAIN values :
          /\ vals[i].address = values[i].address
          /\ vals[i].name = values[i].name
          /\ vals[i].def_val = Tokens(values[i].defs)

PrefixRead(text) ==
    /\ MessagesRead(text) /\ AddressRead /\ SignalsRead(text) /\ ValsRead(text)
    /\ WellFormed(text, make, allow_duplicate_msg_name)

ReadInv ==
    /\ state = "reading" => PrefixRead(Read)
    /\ state = "parsed" => ValsRead(stream)
    /\ ReadsAsWritten /\ RefusesExactlyIllFormed
    /\ state = "idle" => address = 0 /\ signals = Empty /\ vals = << >>

\* be_bits is its own inverse.
LEMMA BePositionOfBit ==
    ASSUME NEW k \in 0 .. MaxBits - 1
    PROVE  BeBit(k) \in 0 .. MaxBits - 1 /\ BePosition(BeBit(k)) = k
<1>1. k \in 0 .. 511
  BY DEF MaxBits
<1>. DEFINE c == k \div 8
            r == k % 8
<1>2. c \in 0 .. 63 /\ r \in 0 .. 7 /\ k = 8 * c + r
  BY <1>1
<1>3. BeBit(k) = 8 * c + 7 - r
  BY DEF BeBit
<1>. HIDE DEF c, r
<1>4. BeBit(k) \in 0 .. 511
  <2>1. BeBit(k) \in 0 .. MaxBits - 1
    BY BeBitInFrame
  <2>. QED  BY <2>1 DEF MaxBits
<1>5. (8 * c + 7 - r) \div 8 = c /\ (8 * c + 7 - r) % 8 = 7 - r
  BY <1>2
<1>6. BeBit(BeBit(k)) = k
  <2>1. BeBit(8 * c + 7 - r) = 8 * c + 7 - (7 - r)
    BY <1>5 DEF BeBit
  <2>. QED  BY <1>2, <1>3, <2>1
<1>7. BeBit(k) < MaxBits /\ MaxBits - 1 = 511
  BY <1>4 DEF MaxBits
<1>. QED  BY <1>4, <1>6, <1>7 DEF BePosition

\* The signal that is made of a line is where the line says.
LEMMA SignalIsWritten ==
    ASSUME NEW sg, sg.start_bit \in Nat, sg.size \in Nat, NEW lsb \in Lsbs(sg), InBounds(sg, lsb)
    PROVE  IsWritten(Signal(sg, lsb), sg)
<1>1. CASE sg.is_little_endian
  BY <1>1 DEF IsWritten, Signal, Lsbs, Msb
<1>2. CASE ~sg.is_little_endian /\ Beyond(sg)
  BY <1>2 DEF IsWritten, Signal, Msb
<1>3. CASE ~sg.is_little_endian /\ ~Beyond(sg)
  <2>1. lsb = BeBit(BeIndex(sg)) /\ BeIndex(sg) \in 0 .. MaxBits - 1
    BY <1>3 DEF Lsbs, Beyond
  <2>2. BePosition(lsb) = BeIndex(sg)
    BY <2>1, BePositionOfBit
  <2>3. BePosition(sg.start_bit) \in Int
    <3>1. MaxBits \in Nat
      BY DEF MaxBits
    <3>. QED  BY <3>1 DEF BePosition, BeBit
  <2>4. BeIndex(sg) - BePosition(sg.start_bit) = sg.size - 1
    BY <2>3 DEF BeIndex
  <2>. QED  BY <1>3, <2>2, <2>4 DEF IsWritten, Signal, Msb
<1>. QED  BY <1>1, <1>2, <1>3

\* One more line of the text.
LEMMA NextLine ==
    ASSUME ReaderInv, More
    PROVE  /\ Read \in Seq(Lines) /\ Line \in Lines
           /\ SubSeq(stream, 1, line_num + 1) = Append(Read, Line)
<1>1. stream \in Seq(Lines) /\ line_num \in 0 .. Len(stream) - 1
  BY DEF ReaderInv, LocalsTyped, More
<1>. QED  BY <1>1, PrefixGrows DEF Read, Line

LEMMA ValsReadStep ==
    ASSUME NEW p \in Seq(Lines), NEW l \in Lines, l.kind # "VAL", ValsRead(p), UNCHANGED vals
    PROVE  ValsRead(Append(p, l))'
<1>1. OfKind(Append(p, l), "VAL") = OfKind(p, "VAL")
  BY OfKindAppend
<1>. QED  BY <1>1 DEF ValsRead

LEMMA PassesOver ==
    ASSUME NEW p \in Seq(Lines), NEW l \in Lines, l.kind \in {"VAL", "other"}, PrefixRead(p),
           UNCHANGED <<address, msgs, signals, make, allow_duplicate_msg_name>>,
           ValsRead(Append(p, l))'
    PROVE  PrefixRead(Append(p, l))'
<1>. DEFINE ix == BoLines(p)
            q  == Append(p, l)
<1>1. /\ BoLines(q) = ix /\ DOMAIN ix = 1 .. Len(ix) /\ Len(ix) \in Nat
      /\ \A n \in 1 .. Len(ix) : q[ix[n]] = p[ix[n]]
  BY PositionsStay
<1>2. BlockSigs(q, 0) = BlockSigs(p, 0) /\ \A n \in 1 .. Len(ix) : Wrote(q, n) = Wrote(p, n)
  BY WrittenGrows
<1>3. WellFormed(q, make, allow_duplicate_msg_name)
  BY WellFormedQuiet DEF PrefixRead
<1>4. MessagesRead(p) /\ AddressRead /\ SignalsRead(p)
  BY DEF PrefixRead
<1>. HIDE DEF ix, q
<1>5. MessagesRead(q)'
  BY <1>1, <1>4 DEF MessagesRead, ix
<1>6. AddressRead'
  BY <1>4 DEF AddressRead
<1>7. SignalsRead(q)'
  <2>1. DOMAIN msgs = 1 .. Len(ix)
    BY <1>1, <1>4 DEF MessagesRead, ix
  <2>2. SignalsRead(q)
    BY <1>2, <1>4, <2>1 DEF SignalsRead
  <2>. QED  BY <2>2 DEF SignalsRead, SignalsOf, address_set
<1>8. WellFormed(q, make, allow_duplicate_msg_name)'
  BY <1>3
<1>. QED  BY <1>5, <1>6, <1>7, <1>8 DEF PrefixRead, q

LEMMA ValRead ==
    ASSUME ReaderInv, NEW p \in Seq(Lines), NEW l \in Lines, l = Line, PrefixRead(p), ReadVal
    PROVE  PrefixRead(Append(p, l))'
<1>. DEFINE v      == [address |-> l.address, name |-> l.name, def_val |-> Tokens(l.defs),
                       sigs |-> << >>]
            values == OfKind(p, "VAL")
<1>1. /\ l.kind = "VAL" /\ vals' = Append(vals, v)
      /\ UNCHANGED <<address, msgs, signals, make, allow_duplicate_msg_name>>
  BY DEF ReadVal, Took, argVars
<1>2. OfKind(Append(p, l), "VAL") = Append(values, l)
  BY <1>1, OfKindAppend
<1>3. values \in Seq(LinesOf("VAL")) /\ vals \in Seq(ValRecords)
  BY OfKindType DEF ReaderInv, ValsTyped
<1>4. /\ Len(vals) = Len(values)
      /\ \A i \in DOMAIN values :
            /\ vals[i].address = values[i].address
            /\ vals[i].name = values[i].name
            /\ vals[i].def_val = Tokens(values[i].defs)
  BY DEF PrefixRead, ValsRead
<1>. DEFINE more == Append(values, l)
<1>5. /\ DOMAIN more = 1 .. Len(values) + 1 /\ Len(more) = Len(values) + 1
      /\ more[Len(values) + 1] = l /\ Len(values) \in Nat
      /\ \A i \in 1 .. Len(values) : more[i] = values[i] /\ i \in DOMAIN values
  <2>. HIDE DEF values
  <2>. QED  BY <1>3
<1>6. /\ Len(vals') = Len(values) + 1 /\ vals'[Len(values) + 1] = v
      /\ \A i \in 1 .. Len(values) : vals'[i] = vals[i]
  <2>. HIDE DEF values, v
  <2>. QED  BY <1>1, <1>3, <1>4
<1>. HIDE DEF values, more
<1>7. ASSUME NEW i \in DOMAIN more
      PROVE  /\ vals'[i].address = more[i].address
             /\ vals'[i].name = more[i].name
             /\ vals'[i].def_val = Tokens(more[i].defs)
  <2>1. CASE i = Len(values) + 1
    BY <1>5, <1>6, <2>1
  <2>2. CASE i # Len(values) + 1
    <3>1. i \in 1 .. Len(values)
      BY <1>5, <2>2
    <3>. QED  BY <1>4, <1>5, <1>6, <3>1
  <2>. QED  BY <2>1, <2>2
<1>8. ValsRead(Append(p, l))'
  BY <1>2, <1>5, <1>6, <1>7 DEF ValsRead, more
<1>. QED  BY <1>1, <1>8, PassesOver

LEMMA MessageRead ==
    ASSUME ReaderInv, NEW p \in Seq(Lines), NEW l \in Lines, l = Line, PrefixRead(p), ReadMessage
    PROVE  PrefixRead(Append(p, l))'
<1>. DEFINE m     == [address |-> l.address, name |-> l.name, size |-> l.size, sigs |-> << >>]
            ix    == BoLines(p)
            q     == Append(p, l)
            later == BoLines(q)
            last  == Len(ix) + 1
<1>1. /\ l.kind = "BO" /\ ~IsDuplicate(l) /\ address' = l.address /\ msgs' = Append(msgs, m)
      /\ UNCHANGED <<signals, vals, make, allow_duplicate_msg_name>>
  BY DEF ReadMessage, Took, argVars
<1>2. /\ DOMAIN ix = 1 .. Len(ix) /\ Len(ix) \in Nat
      /\ DOMAIN later = 1 .. last /\ Len(later) = last
      /\ \A n \in 1 .. Len(ix) : q[later[n]] = p[ix[n]]
      /\ q[later[last]] = l
  BY <1>1, PositionsOpen
<1>3. /\ BlockSigs(q, 0) = BlockSigs(p, 0)
      /\ \A n \in 1 .. Len(ix) : Wrote(q, n) = Wrote(p, n)
      /\ Wrote(q, last) = IF l.address = 0 THEN BlockSigs(p, 0) ELSE << >>
  BY <1>1, WrittenOpens
<1>4. MessagesRead(p) /\ AddressRead /\ SignalsRead(p) /\ ValsRead(p)
      /\ WellFormed(p, make, allow_duplicate_msg_name)
  BY DEF PrefixRead
<1>5. /\ Len(msgs) = Len(ix) /\ DOMAIN msgs = 1 .. Len(ix)
      /\ Len(msgs') = last /\ DOMAIN msgs' = 1 .. last
      /\ msgs'[last] = m /\ \A n \in 1 .. Len(ix) : msgs'[n] = msgs[n]
  <2>1. msgs \in Seq(MessageRecords) /\ Len(msgs) = Len(ix)
    BY <1>4 DEF ReaderInv, MessagesTyped, MessageRecords, MessagesRead
  <2>. HIDE DEF ix, m
  <2>. QED  BY <1>1, <2>1
<1>6. \A n \in 1 .. last : n = last \/ n \in 1 .. Len(ix)
  BY <1>2
<1>7. m.address = l.address /\ m.name = l.name /\ m.size = l.size
  OBVIOUS
<1>8. \A n \in 1 .. Len(ix) : /\ msgs[n].address # l.address
                              /\ allow_duplicate_msg_name \/ msgs[n].name # l.name
  BY <1>1, <1>5 DEF IsDuplicate, address_set, msg_name_set
<1>. HIDE DEF ix, q, later, last, m
<1>9. MessagesRead(q)'
  <2>1. \A n \in DOMAIN ix : /\ msgs[n].address = p[ix[n]].address
                             /\ msgs[n].name = p[ix[n]].name
                             /\ msgs[n].size = p[ix[n]].size
    BY <1>4 DEF MessagesRead, ix
  <2>2. \A n \in DOMAIN later : /\ msgs'[n].address = q[later[n]].address
                                /\ msgs'[n].name = q[later[n]].name
                                /\ msgs'[n].size = q[later[n]].size
    BY <1>2, <1>5, <1>6, <1>7, <2>1
  <2>. QED  BY <1>2, <1>5, <2>2 DEF MessagesRead, later
<1>10. AddressRead'
  <2>1. last # 0
    BY <1>2 DEF last
  <2>. QED  BY <1>1, <1>5, <1>7, <2>1 DEF AddressRead
<1>11. address_set' = address_set \cup {l.address}
  <2>1. address_set' = {msgs'[i].address : i \in 1 .. last}
    BY <1>5 DEF address_set
  <2>2. address_set = {msgs[i].address : i \in 1 .. Len(ix)}
    BY <1>5 DEF address_set
  <2>3. last \in 1 .. last /\ 1 .. Len(ix) \subseteq 1 .. last
    BY <1>2 DEF last
  <2>. QED  BY <1>5, <1>6, <1>7, <2>1, <2>2, <2>3
<1>12. \A a : SignalsOf(a)' = SignalsOf(a)
  BY <1>1 DEF SignalsOf
<1>13. AsWritten(SignalsOf(l.address), Wrote(q, last))
  <2>1. l.address \notin address_set
    BY <1>5, <1>8 DEF address_set
  <2>2. CASE l.address = 0
    BY <1>3, <1>4, <2>1, <2>2 DEF SignalsRead
  <2>3. CASE l.address # 0
    <3>1. l.address \notin DOMAIN signals
      BY <1>4, <2>1, <2>3 DEF SignalsRead
    <3>2. SignalsOf(l.address) = << >> /\ Wrote(q, last) = << >>
      BY <1>3, <2>3, <3>1 DEF SignalsOf
    <3>. QED  BY <3>2 DEF AsWritten
  <2>. QED  BY <2>2, <2>3
<1>14. SignalsRead(q)'
  <2>1. \A n \in 1 .. last : AsWritten(SignalsOf(msgs'[n].address), Wrote(q, n))
    BY <1>3, <1>4, <1>5, <1>6, <1>7, <1>13 DEF SignalsRead
  <2>2. 0 \notin address_set' => AsWritten(SignalsOf(0), BlockSigs(q, 0))
    BY <1>3, <1>4, <1>11 DEF SignalsRead
  <2>3. DOMAIN signals \subseteq {0} \cup address_set'
    BY <1>4, <1>11 DEF SignalsRead
  <2>. QED  BY <1>1, <1>5, <1>12, <2>1, <2>2, <2>3 DEF SignalsRead, AsWritten
<1>15. ValsRead(q)'
  BY <1>1, <1>4, ValsReadStep DEF q
<1>16. WellFormed(q, make, allow_duplicate_msg_name)'
  <2>1. \A n \in DOMAIN ix :
           /\ p[ix[n]].address # l.address
           /\ allow_duplicate_msg_name \/ p[ix[n]].name # l.name
    BY <1>2, <1>4, <1>8 DEF MessagesRead, ix
  <2>2. WellFormed(q, make, allow_duplicate_msg_name)
    BY <1>1, <1>4, <2>1, WellFormedBO DEF q, ix
  <2>. QED  BY <1>1, <2>2
<1>. QED  BY <1>9, <1>10, <1>14, <1>15, <1>16 DEF PrefixRead, q

\* The signals under the address read last are those of the block it is in.
LEMMA CurrentRead ==
    ASSUME ReaderInv, NEW p \in Seq(Lines), PrefixRead(p)
    PROVE  AsWritten(SignalsOf(address), Current(p))
<1>1. msgs \in Seq(MessageRecords) /\ Len(msgs) = Len(BoLines(p)) /\ AddressRead /\ SignalsRead(p)
  BY DEF ReaderInv, MessagesTyped, MessageRecords, PrefixRead, MessagesRead
<1>2. CASE Len(msgs) = 0
  <2>1. address = 0 /\ 0 \notin address_set
    BY <1>1, <1>2 DEF AddressRead, address_set
  <2>. QED  BY <1>1, <1>2, <2>1 DEF SignalsRead, Current
<1>3. CASE Len(msgs) # 0
  <2>1. Len(msgs) \in DOMAIN msgs /\ address = msgs[Len(msgs)].address
    BY <1>1, <1>3 DEF AddressRead
  <2>. QED  BY <1>1, <1>3, <2>1 DEF SignalsRead, Current
<1>. QED  BY <1>2, <1>3

LEMMA AsWrittenAppend ==
    ASSUME NEW sigs \in Seq(SignalRecords), NEW written \in Seq(Lines), AsWritten(sigs, written),
           NEW sig \in SignalRecords, NEW sg \in Lines, IsWritten(sig, sg)
    PROVE  AsWritten(Append(sigs, sig), Append(written, sg))
<1>. DEFINE s == Append(sigs, sig)
            w == Append(written, sg)
            n == Len(written) + 1
<1>1. Len(sigs) = Len(written) /\ Len(written) \in Nat
      /\ \A i \in 1 .. Len(written) : IsWritten(sigs[i], written[i])
  BY DEF AsWritten
<1>2. /\ Len(s) = n /\ Len(w) = n /\ DOMAIN w = 1 .. n /\ s[n] = sig /\ w[n] = sg
      /\ \A i \in 1 .. Len(written) : s[i] = sigs[i] /\ w[i] = written[i]
  BY <1>1
<1>3. \A i \in 1 .. n : i = n \/ i \in 1 .. Len(written)
  BY <1>1
<1>. HIDE DEF s, w, n
<1>4. \A i \in DOMAIN w : IsWritten(s[i], w[i])
  BY <1>1, <1>2, <1>3
<1>. QED  BY <1>2, <1>4 DEF AsWritten, s, w

LEMMA SignalRead ==
    ASSUME ReaderInv, NEW p \in Seq(Lines), NEW l \in Lines, l = Line, PrefixRead(p), ReadSignal
    PROVE  PrefixRead(Append(p, l))'
<1>. DEFINE ix == BoLines(p)
            q  == Append(p, l)
<1>1. /\ l.kind = "SG" /\ LayoutFits(make, l) /\ l.name \notin signal_name_sets(address) /\ More
      /\ UNCHANGED <<address, msgs, vals, make, allow_duplicate_msg_name>>
  BY DEF ReadSignal, Took, argVars
<1>2. /\ l.name \in Names /\ l.start_bit \in Nat /\ l.size \in Nat
      /\ l.is_little_endian \in BOOLEAN
  BY <1>1, LineType DEF ReaderInv
<1>3. PICK lsb \in Lsbs(l) : InBounds(l, lsb) /\ AddSignal(l, lsb)
  BY DEF ReadSignal
<1>4. MessagesRead(p) /\ AddressRead /\ SignalsRead(p) /\ ValsRead(p)
      /\ WellFormed(p, make, allow_duplicate_msg_name)
  BY DEF PrefixRead
<1>5. /\ BoLines(q) = ix /\ DOMAIN ix = 1 .. Len(ix) /\ Len(ix) \in Nat
      /\ \A n \in 1 .. Len(ix) : q[ix[n]] = p[ix[n]]
  BY <1>1, PositionsStay
<1>6. /\ BlockSigs(q, 0) = IF Len(ix) = 0 THEN Append(BlockSigs(p, 0), l) ELSE BlockSigs(p, 0)
      /\ \A n \in 1 .. Len(ix) :
            Wrote(q, n) = IF n = Len(ix) THEN Append(Wrote(p, n), l) ELSE Wrote(p, n)
  BY <1>1, WrittenGrows
<1>7. Current(p) = IF Len(ix) = 0 THEN BlockSigs(p, 0) ELSE Wrote(p, Len(ix))
  BY DEF Current
<1>8. Current(p) \in Seq(Lines)
  <2>1. LinesOf("SG") \subseteq Lines
    BY DEF LinesOf
  <2>2. Current(p) \in Seq(LinesOf("SG"))
    BY <1>5, WrittenType DEF Current
  <2>. QED  BY <2>1, <2>2, SeqMonotonic
<1>9. DOMAIN msgs = 1 .. Len(ix) /\ Len(msgs) = Len(ix)
  BY <1>4 DEF ReaderInv, MessagesTyped, MessagesRead
<1>. HIDE DEF ix, q
<1>. DEFINE sig  == Signal(l, lsb)
            sigs == SignalsOf(address)
<1>10. sig \in SignalRecords /\ IsWritten(sig, l)
  BY <1>2, <1>3, LsbType, SignalTyped, SignalIsWritten
<1>11. sigs \in Seq(SignalRecords) /\ AsWritten(sigs, Current(p))
  BY SignalsOfType, CurrentRead DEF ReaderInv
<1>12. signals' = [a \in DOMAIN signals \cup {address} |->
                      IF a = address THEN Append(sigs, sig) ELSE signals[a]]
  BY <1>3 DEF AddSignal
<1>. HIDE DEF sig, sigs
<1>13. AsWritten(Append(sigs, sig), Append(Current(p), l))
  BY <1>8, <1>10, <1>11, AsWrittenAppend
<1>. DEFINE Later(a) == IF a \in DOMAIN signals' THEN signals'[a] ELSE << >>
<1>14. /\ Later(address) = Append(sigs, sig)
       /\ \A a : a # address => Later(a) = SignalsOf(a)
  BY <1>12 DEF SignalsOf
<1>. HIDE DEF Later
<1>15. MessagesRead(q)' /\ AddressRead'
  BY <1>1, <1>4, <1>5 DEF MessagesRead, AddressRead, ix
<1>16. ASSUME NEW n \in 1 .. Len(ix)
       PROVE  AsWritten(Later(msgs[n].address), Wrote(q, n))
  <2>1. address = msgs[Len(ix)].address /\ Len(ix) \in DOMAIN msgs /\ Len(ix) # 0
    BY <1>4, <1>5, <1>9 DEF AddressRead
  <2>2. CASE n = Len(ix)
    <3>1. Later(msgs[n].address) = Append(sigs, sig)
      BY <1>14, <2>1, <2>2
    <3>2. Wrote(q, n) = Append(Current(p), l)
      BY <1>6, <1>7, <2>1, <2>2
    <3>. QED  BY <1>13, <3>1, <3>2
  <2>3. CASE n # Len(ix)
    <3>1. msgs[n].address # address
      BY <1>9, <2>1, <2>3 DEF ReaderInv, DistinctMessages
    <3>2. Later(msgs[n].address) = SignalsOf(msgs[n].address)
      BY <1>14, <3>1
    <3>3. AsWritten(SignalsOf(msgs[n].address), Wrote(p, n))
      BY <1>4, <1>9 DEF SignalsRead
    <3>. QED  BY <1>6, <2>3, <3>2, <3>3
  <2>. QED  BY <2>2, <2>3
<1>17. ASSUME 0 \notin address_set
       PROVE  AsWritten(Later(0), BlockSigs(q, 0))
  <2>1. CASE Len(ix) = 0
    <3>1. address = 0
      BY <1>4, <1>9, <2>1 DEF AddressRead
    <3>. QED  BY <1>6, <1>7, <1>13, <1>14, <2>1, <3>1
  <2>2. CASE Len(ix) # 0
    <3>1. Len(ix) \in DOMAIN msgs /\ address = msgs[Len(ix)].address
      BY <1>4, <1>5, <1>9, <2>2 DEF AddressRead
    <3>2. address # 0
      BY <1>17, <3>1 DEF address_set
    <3>3. Later(0) = SignalsOf(0)
      BY <1>14, <3>2
    <3>4. AsWritten(SignalsOf(0), BlockSigs(p, 0))
      BY <1>4, <1>17 DEF SignalsRead
    <3>. QED  BY <1>6, <2>2, <3>3, <3>4
  <2>. QED  BY <2>1, <2>2
<1>18. address \in {0} \cup address_set
  <2>1. CASE Len(msgs) = 0
    BY <1>4, <2>1 DEF AddressRead
  <2>2. CASE Len(msgs) # 0
    <3>1. Len(msgs) \in DOMAIN msgs /\ address = msgs[Len(msgs)].address
      BY <1>4, <1>5, <1>9, <2>2 DEF AddressRead
    <3>. QED  BY <3>1 DEF address_set
  <2>. QED  BY <2>1, <2>2
<1>19. SignalsRead(q)'
  <2>1. address_set' = address_set /\ msgs' = msgs
    BY <1>1 DEF address_set
  <2>2. DOMAIN signals' \subseteq {0} \cup address_set'
    BY <1>4, <1>12, <1>18, <2>1 DEF SignalsRead
  <2>3. \A n \in DOMAIN msgs' : AsWritten(Later(msgs[n].address), Wrote(q, n))
    BY <1>9, <1>16, <2>1
  <2>4. 0 \notin address_set' => AsWritten(Later(0), BlockSigs(q, 0))
    BY <1>17, <2>1
  <2>. QED  BY <2>1, <2>2, <2>3, <2>4 DEF SignalsRead, AsWritten, SignalsOf, Later
<1>20. ValsRead(q)'
  BY <1>1, <1>4, ValsReadStep DEF q
<1>21. WellFormed(q, make, allow_duplicate_msg_name)'
  <2>1. SgFits(make, l)
    BY <1>1, <1>3 DEF SgFits, Lsbs, InBounds
  <2>2. ASSUME NEW i \in DOMAIN Current(p)
        PROVE  Current(p)[i].name # l.name
    <3>1. i \in DOMAIN sigs /\ sigs[i].name = Current(p)[i].name
      BY <1>8, <1>11 DEF AsWritten, IsWritten
    <3>. QED  BY <1>1, <3>1 DEF signal_name_sets, sigs
  <2>3. WellFormed(q, make, allow_duplicate_msg_name)
    BY <1>1, <1>4, <2>1, <2>2, WellFormedSG DEF q
  <2>. QED  BY <1>1, <2>3
<1>. QED  BY <1>15, <1>19, <1>20, <1>21 DEF PrefixRead, q

\* Nothing is refused but a line that makes the text ill formed.
LEMMA RefuseRight ==
    ASSUME ReaderInv, state = "reading" => PrefixRead(Read), Refuse
    PROVE  ~WellFormed(stream, make, allow_duplicate_msg_name) \/ ReadsBeyond(stream)
<1>. SUFFICES ASSUME WellFormed(stream, make, allow_duplicate_msg_name), ~ReadsBeyond(stream)
              PROVE  FALSE
  OBVIOUS
<1>. DEFINE p  == Read
            l  == Line
            ix == BoLines(p)
<1>1. More /\ Refused /\ PrefixRead(p)
  BY DEF Refuse, More
<1>2. p \in Seq(Lines) /\ l \in Lines /\ SubSeq(stream, 1, line_num + 1) = Append(p, l)
  BY <1>1, NextLine
<1>3. stream \in Seq(Lines) /\ line_num + 1 \in 0 .. Len(stream)
      /\ line_num + 1 \in DOMAIN stream /\ l = stream[line_num + 1]
  BY <1>1 DEF ReaderInv, LocalsTyped, More, Line
<1>4. WellFormed(Append(p, l), make, allow_duplicate_msg_name)
  BY <1>2, <1>3, WellFormedPrefix
<1>. HIDE DEF p, l
<1>5. l.kind # "bad"
  BY <1>2, <1>4, WellFormedParts, LinesAppend
<1>6. CASE l.kind = "BO" /\ IsDuplicate(l)
  <2>1. \A n \in DOMAIN ix : /\ p[ix[n]].address # l.address
                             /\ allow_duplicate_msg_name \/ p[ix[n]].name # l.name
    BY <1>2, <1>4, <1>6, WellFormedBO
  <2>2. /\ DOMAIN msgs = DOMAIN ix
        /\ \A n \in DOMAIN ix : msgs[n].address = p[ix[n]].address /\ msgs[n].name = p[ix[n]].name
    <3>1. ix \in Seq({i \in 1 .. Len(p) : p[i].kind = "BO"})
      BY <1>2, BoLinesType
    <3>. HIDE DEF ix
    <3>. QED  BY <1>1, <3>1 DEF ReaderInv, MessagesTyped, PrefixRead, MessagesRead, ix
  <2>. HIDE DEF ix
  <2>. QED  BY <1>6, <2>1, <2>2 DEF IsDuplicate, address_set, msg_name_set
<1>7. CASE l.kind = "SG"
  <2>1. SgFits(make, l) /\ \A i \in DOMAIN Current(p) : Current(p)[i].name # l.name
    BY <1>2, <1>4, <1>7, WellFormedSG
  <2>2. LayoutFits(make, l)
    BY <2>1 DEF SgFits
  <2>3. ~Beyond(l)
    BY <1>3, <1>7 DEF ReadsBeyond
  <2>4. \A lsb \in Lsbs(l) : InBounds(l, lsb)
    BY <2>1, <2>3 DEF SgFits
  <2>5. l.name \in signal_name_sets(address)
    BY <1>1, <1>7, <2>2, <2>4 DEF Refused, l
  <2>. DEFINE sigs == SignalsOf(address)
  <2>6. sigs \in Seq(SignalRecords) /\ AsWritten(sigs, Current(p))
    BY <1>1, <1>2, SignalsOfType, CurrentRead DEF ReaderInv
  <2>7. PICK i \in DOMAIN sigs : sigs[i].name = l.name
    BY <2>5 DEF signal_name_sets
  <2>8. Current(p) \in Seq(LinesOf("SG"))
    <3>1. Len(BoLines(p)) \in 0 .. Len(BoLines(p)) /\ 0 \in 0 .. Len(BoLines(p))
      BY <1>2, BoLinesType
    <3>. QED  BY <1>2, <3>1, WrittenType DEF Current
  <2>. HIDE DEF sigs
  <2>9. i \in DOMAIN Current(p) /\ Current(p)[i].name = sigs[i].name
    BY <2>6, <2>8 DEF AsWritten, IsWritten
  <2>. QED  BY <2>1, <2>7, <2>9
<1>. QED  BY <1>1, <1>5, <1>6, <1>7 DEF Refused, l

LEMMA FinishRight ==
    ASSUME ReaderInv, state = "reading" => PrefixRead(Read), Finish
    PROVE  ValsRead(stream)' /\ ReadsAsWritten' /\ RefusesExactlyIllFormed'
<1>. DEFINE ix == BoLines(stream)
<1>1. /\ state' = "parsed" /\ UNCHANGED <<make, allow_duplicate_msg_name, stream>>
      /\ msgs' = [i \in DOMAIN msgs |-> [msgs[i] EXCEPT !.sigs = SignalsOf(msgs[i].address)]]
      /\ vals' = [i \in DOMAIN vals |-> [vals[i] EXCEPT !.sigs = SignalsOf(vals[i].address)]]
  BY DEF Finish, argVars
<1>2. stream \in Seq(Lines) /\ PrefixRead(stream)
  <2>1. stream \in Seq(Lines) /\ line_num = Len(stream) /\ state = "reading"
    BY DEF Finish, ReaderInv, LocalsTyped
  <2>2. Read = stream
    BY <2>1 DEF Read
  <2>. QED  BY <2>1, <2>2
<1>3. ix \in Seq({i \in 1 .. Len(stream) : stream[i].kind = "BO"})
  BY <1>2, BoLinesType
<1>4. msgs \in Seq(MessageRecords) /\ vals \in Seq(ValRecords)
  BY DEF ReaderInv, MessagesTyped, MessageRecords, ValsTyped
<1>5. /\ Len(msgs) = Len(ix)
      /\ \A n \in DOMAIN ix : /\ msgs[n].address = stream[ix[n]].address
                              /\ msgs[n].name = stream[ix[n]].name
                              /\ msgs[n].size = stream[ix[n]].size
      /\ \A n \in DOMAIN msgs : AsWritten(SignalsOf(msgs[n].address), WrittenFor(stream, ix, n))
  BY <1>2 DEF PrefixRead, MessagesRead, SignalsRead, Wrote
<1>. DEFINE values == OfKind(stream, "VAL")
<1>6. /\ Len(vals) = Len(values)
      /\ \A i \in DOMAIN values : /\ vals[i].address = values[i].address
                                  /\ vals[i].name = values[i].name
                                  /\ vals[i].def_val = Tokens(values[i].defs)
  BY <1>2 DEF PrefixRead, ValsRead
<1>7. values \in Seq(LinesOf("VAL"))
  BY <1>2, OfKindType
<1>8. WellFormed(stream, make, allow_duplicate_msg_name)
  BY <1>2 DEF PrefixRead
<1>. HIDE DEF ix, values
<1>9. /\ Len(msgs') = Len(ix) /\ DOMAIN ix = DOMAIN msgs
      /\ \A n \in DOMAIN msgs :
            /\ msgs'[n].address = msgs[n].address /\ msgs'[n].name = msgs[n].name
            /\ msgs'[n].size = msgs[n].size /\ msgs'[n].sigs = SignalsOf(msgs[n].address)
  <2>1. Len(msgs) = Len(ix) /\ DOMAIN ix = DOMAIN msgs /\ DOMAIN msgs = 1 .. Len(msgs)
        /\ Len(msgs) \in Nat
    BY <1>3, <1>4, <1>5
  <2>2. Len(msgs') = Len(msgs)
    BY <1>1, <2>1
  <2>3. \A n \in DOMAIN msgs : msgs[n] \in MessageRecords
    BY <1>4
  <2>. QED  BY <1>1, <2>1, <2>2, <2>3 DEF MessageRecords
<1>10. /\ Len(vals') = Len(values)
       /\ \A i \in DOMAIN values : /\ vals'[i].address = values[i].address
                                   /\ vals'[i].name = values[i].name
                                   /\ vals'[i].def_val = Tokens(values[i].defs)
  <2>1. Len(vals) = Len(values) /\ DOMAIN values = DOMAIN vals /\ DOMAIN vals = 1 .. Len(vals)
        /\ Len(vals) \in Nat
    BY <1>4, <1>6, <1>7
  <2>2. Len(vals') = Len(vals)
    BY <1>1, <2>1
  <2>3. \A i \in DOMAIN vals : vals[i] \in ValRecords
    BY <1>4
  <2>4. \A i \in DOMAIN vals : /\ vals'[i].address = vals[i].address
                               /\ vals'[i].name = vals[i].name
                               /\ vals'[i].def_val = vals[i].def_val
    BY <1>1, <2>3 DEF ValRecords
  <2>. QED  BY <1>6, <2>1, <2>2, <2>4
<1>11. ValsRead(stream)'
  BY <1>1, <1>10 DEF ValsRead, values
<1>12. ReadsAsWritten'
  <2>1. ASSUME NEW n \in DOMAIN ix
        PROVE  LET written == WrittenFor(stream, ix, n) IN
               /\ <<msgs'[n].address, msgs'[n].name, msgs'[n].size>>
                    = <<stream[ix[n]].address, stream[ix[n]].name, stream[ix[n]].size>>
               /\ Len(msgs'[n].sigs) = Len(written)
               /\ \A i \in DOMAIN written : IsWritten(msgs'[n].sigs[i], written[i])
    BY <1>5, <1>9 DEF AsWritten
  <2>2. /\ Len(msgs') = Len(BoLines(stream'))
        /\ \A n \in DOMAIN BoLines(stream') :
              LET written == WrittenFor(stream', BoLines(stream'), n) IN
              /\ <<msgs'[n].address, msgs'[n].name, msgs'[n].size>>
                   = <<stream'[BoLines(stream')[n]].address, stream'[BoLines(stream')[n]].name,
                       stream'[BoLines(stream')[n]].size>>
              /\ Len(msgs'[n].sigs) = Len(written)
              /\ \A i \in DOMAIN written : IsWritten(msgs'[n].sigs[i], written[i])
    BY <1>1, <1>9, <2>1, Zenon DEF ix
  <2>3. /\ Len(vals') = Len(OfKind(stream', "VAL"))
        /\ \A i \in DOMAIN OfKind(stream', "VAL") :
              /\ vals'[i].address = OfKind(stream', "VAL")[i].address
              /\ vals'[i].name = OfKind(stream', "VAL")[i].name
    BY <1>1, <1>10, Zenon DEF values
  <2>. QED  BY <2>2, <2>3, Zenon DEF ReadsAsWritten
<1>13. RefusesExactlyIllFormed'
  BY <1>1, <1>8 DEF RefusesExactlyIllFormed
<1>. QED  BY <1>11, <1>12, <1>13

\* An empty prefix has been read when nothing has.
LEMMA NothingRead ==
    ASSUME ReaderInv, ReadInv, NEW mk \in Makes, NEW text \in Seq(Lines), NEW allow \in BOOLEAN,
           Open(mk, text, allow)
    PROVE  PrefixRead(Read)'
<1>. DEFINE p == SubSeq(text, 1, 0)
<1>1. /\ stream' = text /\ line_num' = 0 /\ msgs' = << >> /\ address' = 0
      /\ signals' = Empty /\ vals' = << >>
  BY DEF Open, ReaderInv, IdleInv, ReadInv, dbcVars
<1>2. p \in Seq(Lines) /\ Len(p) = 0
  OBVIOUS
<1>3. Read' = p
  BY <1>1 DEF Read
<1>. HIDE DEF p
<1>4. BoLines(p) = << >> /\ OfKind(p, "VAL") = << >> /\ Block(p, BoLines(p), 0) = p
  <2>1. BoLines(p) = << >>
    BY <1>2, BoLinesEmpty
  <2>2. OfKind(p, "VAL") = << >>
    BY <1>2, OfKindEmpty
  <2>3. Block(p, << >>, 0) = SubSeq(p, 1, Len(p))
    <3>1. Len(<< >>) = 0
      OBVIOUS
    <3>. QED  BY <3>1 DEF Block
  <2>4. SubSeq(p, 1, Len(p)) = p
    BY <1>2
  <2>. QED  BY <2>1, <2>2, <2>3, <2>4
<1>5. BlockSigs(p, 0) = << >>
  BY <1>2, <1>4, OfKindEmpty DEF BlockSigs
<1>6. DOMAIN << >> = {} /\ Len(<< >>) = 0
  OBVIOUS
<1>7. MessagesRead(p)' /\ AddressRead' /\ ValsRead(p)'
  BY <1>1, <1>4, <1>6 DEF MessagesRead, AddressRead, ValsRead
<1>8. SignalsRead(p)'
  <2>1. DOMAIN Empty = {}
    BY DEF Empty
  <2>2. SignalsOf(0)' = << >>
    BY <1>1, <2>1 DEF SignalsOf
  <2>3. AsWritten(SignalsOf(0), BlockSigs(p, 0))'
    BY <1>5, <1>6, <2>2 DEF AsWritten
  <2>. QED  BY <1>1, <1>6, <2>1, <2>3 DEF SignalsRead
<1>9. WellFormed(p, make, allow_duplicate_msg_name)'
  BY <1>2, WellFormedEmpty
<1>. QED  BY <1>3, <1>7, <1>8, <1>9 DEF PrefixRead

LEMMA ReadInit == ReaderInit => ReadInv
BY DEF ReaderInit, ReadInv, ReadsAsWritten, RefusesExactlyIllFormed

LEMMA ReadOpenStep ==
    ASSUME ReaderInv, ReadInv, NEW mk \in Makes, NEW text \in Seq(Lines), NEW allow \in BOOLEAN,
           Open(mk, text, allow)
    PROVE  ReadInv'
<1>1. state' = "reading"
  BY DEF Open
<1>. QED  BY <1>1, NothingRead DEF ReadInv, ReadsAsWritten, RefusesExactlyIllFormed

\* A line that is taken goes to the end of what was read.
LEMMA ReadTookStep ==
    ASSUME ReaderInv, ReadInv, PassOver \/ ReadMessage \/ ReadSignal \/ ReadVal
    PROVE  ReadInv'
<1>1. /\ More /\ state' = "reading" /\ stream' = stream /\ line_num' = line_num + 1
      /\ UNCHANGED <<make, allow_duplicate_msg_name>>
  BY DEF PassOver, ReadMessage, ReadSignal, ReadVal, Took, More, argVars
<1>2. PICK p \in Seq(Lines), l \in Lines : p = Read /\ l = Line
  BY <1>1, NextLine
<1>3. PrefixRead(p)
  BY <1>1, <1>2 DEF ReadInv, More
<1>4. Read' = Append(p, l)
  BY <1>1, <1>2, NextLine DEF Read
<1>5. CASE PassOver
  <2>1. /\ l.kind = "other"
        /\ UNCHANGED <<address, msgs, signals, vals, make, allow_duplicate_msg_name>>
    BY <1>2, <1>5 DEF PassOver, Took, argVars, dbcVars
  <2>2. ValsRead(Append(p, l))'
    BY <1>3, <2>1, ValsReadStep DEF PrefixRead
  <2>. QED  BY <1>1, <1>3, <1>4, <2>1, <2>2, PassesOver
            DEF ReadInv, ReadsAsWritten, RefusesExactlyIllFormed
<1>6. PrefixRead(Append(p, l))' \/ PassOver
  BY <1>2, <1>3, ValRead, MessageRead, SignalRead
<1>. QED  BY <1>1, <1>4, <1>5, <1>6 DEF ReadInv, ReadsAsWritten, RefusesExactlyIllFormed

LEMMA ReadEndStep ==
    ASSUME ReaderInv, ReadInv, Refuse \/ Finish \/ Close
    PROVE  ReadInv'
<1>1. CASE Refuse
  <2>1. state' = "threw" /\ UNCHANGED <<stream, make, allow_duplicate_msg_name>>
    BY <1>1 DEF Refuse, argVars
  <2>2. ~WellFormed(stream, make, allow_duplicate_msg_name) \/ ReadsBeyond(stream)
    BY <1>1, RefuseRight DEF ReadInv
  <2>. QED  BY <2>1, <2>2 DEF ReadInv, ReadsAsWritten, RefusesExactlyIllFormed
<1>2. CASE Finish
  <2>1. state' = "parsed"
    BY <1>2 DEF Finish
  <2>. QED  BY <1>2, <2>1, FinishRight DEF ReadInv
<1>3. CASE Close
  BY <1>3 DEF Close, ReadInv, ReadsAsWritten, RefusesExactlyIllFormed
<1>. QED  BY <1>1, <1>2, <1>3

LEMMA ReadStutter ==
    ASSUME ReadInv, UNCHANGED readerVars
    PROVE  ReadInv'
<1>1. UNCHANGED <<state, make, allow_duplicate_msg_name, stream, line_num, address, msgs, signals,
                  vals, addr_to_msg, name_to_msg>>
  BY DEF readerVars, argVars, dbcVars
<1>2. ReadsAsWritten' /\ RefusesExactlyIllFormed'
  BY <1>1 DEF ReadInv, ReadsAsWritten, RefusesExactlyIllFormed
<1>3. (state = "reading" => PrefixRead(Read))'
  <2>. SUFFICES ASSUME NEW p, p = Read, PrefixRead(p) PROVE PrefixRead(p)' /\ Read' = Read
    BY <1>1 DEF ReadInv
  <2>1. MessagesRead(p)' /\ AddressRead' /\ ValsRead(p)'
    BY <1>1 DEF PrefixRead, MessagesRead, AddressRead, ValsRead
  <2>2. SignalsRead(p)'
    BY <1>1 DEF PrefixRead, SignalsRead, SignalsOf, address_set
  <2>3. WellFormed(p, make, allow_duplicate_msg_name)'
    BY <1>1 DEF PrefixRead
  <2>. QED  BY <1>1, <2>1, <2>2, <2>3 DEF PrefixRead, Read
<1>4. (state = "parsed" => ValsRead(stream))'
  BY <1>1 DEF ReadInv, ValsRead
<1>. QED  BY <1>1, <1>2, <1>3, <1>4 DEF ReadInv

LEMMA ReadStep == ReaderInv /\ ReadInv /\ [ReaderNext]_readerVars => ReadInv'
<1>1. Texts \subseteq Seq(Lines)
  BY TextsAssumption
<1>. QED  BY <1>1, ReadOpenStep, ReadTookStep, ReadEndStep, ReadStutter DEF ReaderNext, ReadLine

(***************************************************************************)
(* After each line of dbc_parse_from_stream, what is parsed is what the    *)
(* lines so far mean.                                                      *)
(***************************************************************************)
THEOREM ReadInvariant == ReaderSpec => [](ReaderInv /\ ReadInv)
BY InitInv, ReaderStep, ReadInit, ReadStep, PTL DEF ReaderSpec

(***************************************************************************)
(* Whatever lines a text has and in whatever order, a DBC that was parsed  *)
(* has its messages, with their own signals, and its values: nothing is    *)
(* attached to a neighbour, lost or reordered by the reader's one address  *)
(* and its maps of signals.                                                *)
(***************************************************************************)
THEOREM ReadsAsWrittenHolds == ReaderSpec => []ReadsAsWritten
<1>1. ReadInv => ReadsAsWritten
  BY DEF ReadInv
<1>. QED  BY <1>1, ReadInvariant, PTL

(***************************************************************************)
(* The checks dbc_parse_from_stream makes line by line add up to one about *)
(* the whole text: no ill-formed text is parsed and no other is refused,   *)
(* reads beyond be_bits aside.                                             *)
(***************************************************************************)
THEOREM RefusesExactly == ReaderSpec => []RefusesExactlyIllFormed
<1>1. ReadInv => RefusesExactlyIllFormed
  BY DEF ReadInv
<1>. QED  BY <1>1, ReadInvariant, PTL

-----------------------------------------------------------------------------
(*****************************************************************************)
(* 4. The generator                                                          *)
(*****************************************************************************)

\* The script has left all its outputs in the tree, whole and of this revision.
MadeWhole(f) == f \in DOMAIN made /\ made[f] = Chunk(f, rev, TRUE)
Ran(s)       == \A i \in DOMAIN Outputs[s] : MadeWhole(Outputs[s][i])

\* What create_dbc makes of a file of the tree.
Source(f, i) == IF i <= Len(Imports[f]) THEN Imports[f][i] ELSE f
Built(f) ==
    /\ f \in DOMAIN out
    /\ Len(out[f]) = Len(Imports[f]) + 1
    /\ \A i \in 1 .. Len(Imports[f]) + 1 :
          Source(f, i) \in Tree /\ out[f][i] = Content(Source(f, i))

NamedInv   == \A f \in DOMAIN made : made[f].file = f
ClearInv   == pc = "clearing" => DOMAIN out \subseteq pending
ScriptsInv == pc = "scripts" =>
                 /\ DOMAIN out = {}
                 /\ \A s \in Scripts[rev] \ pending : Ran(s)
                 /\ job # None => \A i \in 1 .. at - 1 : MadeWhole(Outputs[job][i])
WalkInv    == pc \in {"walking", "done"} =>
                 /\ \A s \in Scripts[rev] : Ran(s)
                 /\ pending \subseteq Tree \ Private
                 /\ DOMAIN out \subseteq Tree \ Private
                 /\ \A f \in (Tree \ Private) \ pending : Built(f)
BufferInv  == pc = "walking" /\ job # None =>
                 /\ Len(buffer) = at - 1
                 /\ \A i \in 1 .. at - 1 : /\ Imports[job][i] \in Tree
                                           /\ buffer[i] = Content(Imports[job][i])
DoneInv    == pc = "done" => pending = {} /\ job = None

GenInv == GeneratorTypeOK /\ NamedInv /\ ClearInv /\ ScriptsInv /\ WalkInv /\ BufferInv /\ DoneInv
-----------------------------------------------------------------------------
LEMMA TreeFiles ==
    ASSUME GeneratorTypeOK
    PROVE  Tree \subseteq Files
BY SourcesAssumption DEF GeneratorTypeOK, JobOK, Tree

LEMMA ChunkType ==
    ASSUME NEW f \in Files, NEW r \in Revisions, NEW whole \in BOOLEAN
    PROVE  Chunk(f, r, whole) \in Chunks
BY DEF Chunk, Chunks

LEMMA ContentType ==
    ASSUME GeneratorTypeOK, NEW f \in Tree
    PROVE  Content(f) \in Chunks
BY SourcesAssumption, TreeFiles, ChunkType DEF GeneratorTypeOK, JobOK, Tree, Content

\* Changing one entry of a function.
LEMMA SetIs ==
    ASSUME NEW g, NEW f, NEW x
    PROVE  /\ DOMAIN Set(g, f, x) = DOMAIN g \cup {f}
           /\ Set(g, f, x)[f] = x
           /\ \A h \in DOMAIN g : h # f => Set(g, f, x)[h] = g[h]
BY DEF Set

LEMMA TornType ==
    ASSUME NEW c \in Chunks
    PROVE  Torn(c) \in Chunks
BY DEF Torn, Chunks

\* What a kill leaves of a file are chunks.
LEMMA FlushedType ==
    ASSUME NEW b \in Seq(Chunks), NEW c \in Flushed(b)
    PROVE  c \in Seq(Chunks)
<1>1. ASSUME NEW n \in 0 .. Len(b)
      PROVE  SubSeq(b, 1, n) \in Seq(Chunks)
  <2>1. \A i \in 1 .. n : b[i] \in Chunks
    BY <1>1
  <2>. QED  BY <2>1, <1>1
<1>2. CASE \E n \in 0 .. Len(b) : c = SubSeq(b, 1, n)
  BY <1>1, <1>2
<1>3. CASE \E n \in 1 .. Len(b) : c = Append(SubSeq(b, 1, n - 1), Torn(b[n]))
  <2>1. PICK n \in 1 .. Len(b) : c = Append(SubSeq(b, 1, n - 1), Torn(b[n]))
    BY <1>3
  <2>2. SubSeq(b, 1, n - 1) \in Seq(Chunks)
    BY <1>1, n - 1 \in 0 .. Len(b)
  <2>3. Torn(b[n]) \in Chunks
    BY TornType, b[n] \in Chunks
  <2>. QED  BY <2>1, <2>2, <2>3
<1>. QED  BY <1>2, <1>3 DEF Flushed
-----------------------------------------------------------------------------
\* Nothing is under way once the file or script it was at is left.
LEMMA NoJobOK ==
    ASSUME NoJob
    PROVE  JobOK'
<1>1. job' = None /\ at' = 1 /\ buffer' = << >> /\ << >> \in Seq(Chunks)
  BY DEF NoJob
<1>2. ~opened' /\ opened' \in BOOLEAN
  BY Zenon DEF NoJob
<1>. QED  BY <1>1, <1>2 DEF JobOK

LEMMA TypeInit == GenInit => GeneratorTypeOK
<1>. SUFFICES ASSUME GenInit PROVE GeneratorTypeOK
  OBVIOUS
<1>1. DOMAIN NoFiles = {}
  BY DEF NoFiles
<1>2. << >> \in Seq(Chunks)
  OBVIOUS
<1>3. ~opened /\ opened \in BOOLEAN
  BY Zenon DEF GenInit
<1>4. JobOK
  BY <1>2, <1>3 DEF GenInit, JobOK
<1>. QED  BY <1>1, <1>4, BoundsAssumption DEF GenInit, GeneratorTypeOK

LEMMA TypeStart == GeneratorTypeOK /\ Start => GeneratorTypeOK'
BY DEF GeneratorTypeOK, JobOK, Start, Running, jobVars

LEMMA TypeRemove ==
    ASSUME NEW f \in Files, GeneratorTypeOK, Remove(f)
    PROVE  GeneratorTypeOK'
BY DEF GeneratorTypeOK, JobOK, Remove, Without, jobVars

LEMMA TypeGlobScripts == GeneratorTypeOK /\ GlobScripts => GeneratorTypeOK'
BY SourcesAssumption DEF GeneratorTypeOK, JobOK, GlobScripts, jobVars

LEMMA TypeCallScript ==
    ASSUME NEW s \in ScriptNames, GeneratorTypeOK, CallScript(s)
    PROVE  GeneratorTypeOK'
<1>1. 1 \in DOMAIN Outputs[s] /\ s # None
  BY SourcesAssumption, OutputsAssumption
<1>. QED  BY <1>1 DEF GeneratorTypeOK, JobOK, CallScript

\* The file a script is at.
LEMMA OutputIsFile ==
    ASSUME GeneratorTypeOK, pc = "scripts", job # None
    PROVE  /\ job \in ScriptNames
           /\ at \in DOMAIN Outputs[job] /\ at \in Nat \ {0} /\ at <= Len(Outputs[job])
           /\ Outputs[job][at] \in Files
BY SourcesAssumption DEF GeneratorTypeOK, JobOK

LEMMA MadeType ==
    ASSUME GeneratorTypeOK, pc = "scripts", job # None, NEW whole \in BOOLEAN,
           made' = Set(made, Outputs[job][at], Chunk(Outputs[job][at], rev, whole))
    PROVE  DOMAIN made' \subseteq Files /\ \A f \in DOMAIN made' : made'[f] \in Chunks
<1>1. Chunk(Outputs[job][at], rev, whole) \in Chunks
  BY OutputIsFile, ChunkType DEF GeneratorTypeOK, JobOK
<1>. QED  BY <1>1, OutputIsFile DEF GeneratorTypeOK, JobOK, Set

LEMMA TypeOpenOutput == GeneratorTypeOK /\ OpenOutput => GeneratorTypeOK'
<1>. SUFFICES ASSUME GeneratorTypeOK, OpenOutput
              PROVE  GeneratorTypeOK'
  OBVIOUS
<1>1. DOMAIN made' \subseteq Files /\ \A f \in DOMAIN made' : made'[f] \in Chunks
  BY MadeType DEF OpenOutput
<1>. QED  BY <1>1 DEF GeneratorTypeOK, JobOK, OpenOutput

LEMMA TypeWriteOutput == GeneratorTypeOK /\ WriteOutput => GeneratorTypeOK'
<1>. SUFFICES ASSUME GeneratorTypeOK, WriteOutput
              PROVE  GeneratorTypeOK'
  OBVIOUS
<1>1. DOMAIN made' \subseteq Files /\ \A f \in DOMAIN made' : made'[f] \in Chunks
  BY MadeType DEF WriteOutput
<1>2. CASE at < Len(Outputs[job])
  <2>1. at + 1 \in DOMAIN Outputs[job]
    BY <1>2, OutputIsFile, SourcesAssumption DEF WriteOutput
  <2>2. ~opened' /\ opened' \in BOOLEAN
    BY <1>2, Zenon DEF WriteOutput
  <2>3. JobOK'
    BY <1>2, <2>1, <2>2 DEF GeneratorTypeOK, JobOK, WriteOutput
  <2>. QED  BY <1>1, <1>2, <2>3 DEF GeneratorTypeOK, WriteOutput
<1>3. CASE ~(at < Len(Outputs[job]))
  BY <1>1, <1>3, NoJobOK DEF GeneratorTypeOK, WriteOutput
<1>. QED  BY <1>2, <1>3

LEMMA TypeScriptFails == GeneratorTypeOK /\ ScriptFails => GeneratorTypeOK'
<1>. SUFFICES ASSUME GeneratorTypeOK, ScriptFails
              PROVE  GeneratorTypeOK'
  OBVIOUS
<1>1. DOMAIN made' \subseteq Files /\ \A f \in DOMAIN made' : made'[f] \in Chunks
  BY MadeType DEF ScriptFails
<1>. QED  BY <1>1, NoJobOK DEF GeneratorTypeOK, ScriptFails

LEMMA TypeWalk == GeneratorTypeOK /\ Walk => GeneratorTypeOK'
BY TreeFiles DEF GeneratorTypeOK, JobOK, Walk, jobVars

LEMMA TypeCreateDbc ==
    ASSUME NEW f \in Files, GeneratorTypeOK, CreateDbc(f)
    PROVE  GeneratorTypeOK'
<1>1. Len(Imports[f]) \in Nat /\ f # None /\ << >> \in Seq(Chunks)
  BY SourcesAssumption
<1>2. DOMAIN out' \subseteq Files /\ \A g \in DOMAIN out' : out'[g] \in Seq(Chunks)
  BY <1>1 DEF GeneratorTypeOK, JobOK, CreateDbc, Set
<1>. QED  BY <1>1, <1>2 DEF GeneratorTypeOK, JobOK, CreateDbc

LEMMA TypeInclude == GeneratorTypeOK /\ Include => GeneratorTypeOK'
<1>. SUFFICES ASSUME GeneratorTypeOK, Include
              PROVE  GeneratorTypeOK'
  OBVIOUS
<1>1. Append(buffer, Content(Imports[job][at])) \in Seq(Chunks)
  BY ContentType DEF Include, GeneratorTypeOK, JobOK, JobOK
<1>2. Len(Imports[job]) \in Nat
  BY SourcesAssumption DEF GeneratorTypeOK, JobOK, Include, Including
<1>. QED  BY <1>1, <1>2 DEF GeneratorTypeOK, JobOK, Include, Including

LEMMA OutType ==
    ASSUME GeneratorTypeOK, pc = "walking", job # None, NEW b \in Seq(Chunks),
           out' = Set(out, job, b)
    PROVE  DOMAIN out' \subseteq Files /\ \A g \in DOMAIN out' : out'[g] \in Seq(Chunks)
<1>1. job \in Files
  BY DEF GeneratorTypeOK, JobOK
<1>. QED  BY <1>1 DEF GeneratorTypeOK, JobOK, Set

LEMMA TypeIncludeMissing == GeneratorTypeOK /\ IncludeMissing => GeneratorTypeOK'
<1>. SUFFICES ASSUME GeneratorTypeOK, IncludeMissing
              PROVE  GeneratorTypeOK'
  OBVIOUS
<1>1. DOMAIN out' \subseteq Files /\ \A g \in DOMAIN out' : out'[g] \in Seq(Chunks)
  BY OutType DEF GeneratorTypeOK, JobOK, IncludeMissing, Including
<1>. QED  BY <1>1, NoJobOK DEF GeneratorTypeOK, IncludeMissing

\* The core of the file create_dbc is at; pending files are in the tree.
LEMMA CoreWritten ==
    ASSUME GeneratorTypeOK, WalkInv, AtCore
    PROVE  job \in Tree /\ Append(buffer, Content(job)) \in Seq(Chunks)
<1>1. job \in Tree
  BY DEF AtCore, WalkInv, GeneratorTypeOK, JobOK, JobOK
<1>. QED  BY <1>1, ContentType DEF GeneratorTypeOK, JobOK

LEMMA TypeWriteCore == GeneratorTypeOK /\ WalkInv /\ WriteCore => GeneratorTypeOK'
<1>. SUFFICES ASSUME GeneratorTypeOK, WalkInv, WriteCore
              PROVE  GeneratorTypeOK'
  OBVIOUS
<1>1. DOMAIN out' \subseteq Files /\ \A g \in DOMAIN out' : out'[g] \in Seq(Chunks)
  BY OutType, CoreWritten DEF WriteCore, AtCore
<1>. QED  BY <1>1, NoJobOK DEF GeneratorTypeOK, WriteCore, AtCore

LEMMA TypeEnd == GeneratorTypeOK /\ End => GeneratorTypeOK'
BY DEF GeneratorTypeOK, JobOK, End, jobVars

LEMMA TypeKill == GeneratorTypeOK /\ WalkInv /\ Kill => GeneratorTypeOK'
<1>. SUFFICES ASSUME GeneratorTypeOK, WalkInv, Kill
              PROVE  GeneratorTypeOK'
  OBVIOUS
<1>1. Written \in Seq(Chunks)
  BY CoreWritten DEF Written, GeneratorTypeOK, JobOK, JobOK
<1>2. DOMAIN out' \subseteq Files /\ \A g \in DOMAIN out' : out'[g] \in Seq(Chunks)
  <2>1. CASE pc = "walking" /\ job # None
    <3>1. PICK b \in Flushed(Written) : out' = Set(out, job, b)
      BY <2>1 DEF Kill
    <3>. QED  BY <1>1, <2>1, <3>1, FlushedType, OutType
  <2>2. CASE ~(pc = "walking" /\ job # None)
    BY <2>2 DEF Kill, GeneratorTypeOK, JobOK, JobOK
  <2>. QED  BY <2>1, <2>2
<1>. QED  BY <1>2, NoJobOK, BoundsAssumption DEF GeneratorTypeOK, Kill, Running

LEMMA TypeCheckOut ==
    ASSUME NEW r \in Revisions, GeneratorTypeOK, CheckOut(r)
    PROVE  GeneratorTypeOK'
BY BoundsAssumption DEF GeneratorTypeOK, JobOK, CheckOut, Running, jobVars

LEMMA TypeStep == GeneratorTypeOK /\ WalkInv /\ [GenNext]_genVars => GeneratorTypeOK'
<1>. SUFFICES ASSUME GeneratorTypeOK, WalkInv, [GenNext]_genVars
              PROVE  GeneratorTypeOK'
  OBVIOUS
<1>1. CASE GenStep
  BY <1>1, TypeStart, TypeRemove, TypeGlobScripts, TypeCallScript, TypeOpenOutput,
     TypeWriteOutput, TypeScriptFails, TypeWalk, TypeCreateDbc, TypeInclude,
     TypeIncludeMissing, TypeWriteCore, TypeEnd DEF GenStep
<1>2. CASE UNCHANGED genVars
  BY <1>2 DEF genVars, jobVars, GeneratorTypeOK, JobOK, JobOK
<1>. QED  BY <1>1, <1>2, TypeKill, TypeCheckOut DEF GenNext
-----------------------------------------------------------------------------
LEMMA NamedStep == GeneratorTypeOK /\ NamedInv /\ [GenNext]_genVars => NamedInv'
<1>. SUFFICES ASSUME GeneratorTypeOK, NamedInv, [GenNext]_genVars
              PROVE  NamedInv'
  OBVIOUS
<1>1. CASE \E f, whole : made' = Set(made, f, Chunk(f, rev, whole))
  BY <1>1 DEF NamedInv, Set, Chunk
<1>2. CASE UNCHANGED made
  BY <1>2 DEF NamedInv
<1>3. OpenOutput \/ WriteOutput \/ ScriptFails => \E f, whole : made' = Set(made, f, Chunk(f, rev, whole))
  BY DEF OpenOutput, WriteOutput, ScriptFails
<1>4. OpenOutput \/ WriteOutput \/ ScriptFails \/ UNCHANGED made
  BY DEF GenNext, GenStep, genVars, Start, Remove, CreateDbc, CallScript, GlobScripts, Walk,
         Include, IncludeMissing, WriteCore, End, Kill, CheckOut
<1>. QED  BY <1>1, <1>2, <1>3, <1>4

LEMMA ClearStep == GeneratorTypeOK /\ ClearInv /\ [GenNext]_genVars => ClearInv'
<1>. SUFFICES ASSUME GeneratorTypeOK, ClearInv, [GenNext]_genVars, pc' = "clearing"
              PROVE  DOMAIN out' \subseteq pending'
  BY DEF ClearInv
<1>1. CASE Start
  BY <1>1 DEF Start
<1>2. ASSUME NEW f \in Files, Remove(f)
      PROVE  DOMAIN out' \subseteq pending'
  BY <1>2 DEF Remove, Without, ClearInv
<1>3. CASE UNCHANGED genVars
  BY <1>3 DEF genVars, ClearInv
<1>. QED
  BY <1>1, <1>2, <1>3 DEF GenNext, GenStep, CreateDbc, CallScript, GlobScripts, OpenOutput,
     WriteOutput, ScriptFails, Walk, Include, Including, IncludeMissing, WriteCore, AtCore, End,
     Kill, CheckOut

LEMMA DoneStep == GeneratorTypeOK /\ DoneInv /\ [GenNext]_genVars => DoneInv'
<1>. SUFFICES ASSUME GeneratorTypeOK, DoneInv, [GenNext]_genVars, pc' = "done"
              PROVE  pending' = {} /\ job' = None
  BY DEF DoneInv
<1>1. CASE End
  BY <1>1 DEF End, jobVars
<1>2. CASE UNCHANGED genVars
  BY <1>2 DEF genVars, jobVars, DoneInv
<1>. QED
  BY <1>1, <1>2 DEF GenNext, GenStep, Start, Remove, CreateDbc, CallScript, GlobScripts,
     OpenOutput, WriteOutput, ScriptFails, Walk, Include, Including, IncludeMissing, WriteCore,
     AtCore, Kill, CheckOut
-----------------------------------------------------------------------------
(* The scripts *)

\* A script that writes an output disturbs no output that is current.
LEMMA CurrentStays ==
    ASSUME GeneratorTypeOK, pc = "scripts", job # None, UNCHANGED rev,
           NEW whole, made' = Set(made, Outputs[job][at], Chunk(Outputs[job][at], rev, whole)),
           NEW s \in ScriptNames, NEW i \in DOMAIN Outputs[s],
           s # job \/ i # at, MadeWhole(Outputs[s][i])
    PROVE  MadeWhole(Outputs[s][i])'
<1>1. Outputs[s][i] # Outputs[job][at]
  BY OutputIsFile, OutputsAssumption
<1>. QED  BY <1>1 DEF MadeWhole, Set

LEMMA RanStays ==
    ASSUME GeneratorTypeOK, pc = "scripts", job # None, UNCHANGED rev,
           NEW whole, made' = Set(made, Outputs[job][at], Chunk(Outputs[job][at], rev, whole)),
           NEW s \in ScriptNames, s # job, Ran(s)
    PROVE  Ran(s)'
BY CurrentStays DEF Ran

\* Those before the one it is at stay current as well.
LEMMA EarlierStay ==
    ASSUME GeneratorTypeOK, ScriptsInv, pc = "scripts", job # None, UNCHANGED rev,
           NEW whole, made' = Set(made, Outputs[job][at], Chunk(Outputs[job][at], rev, whole)),
           NEW s, s = job, NEW i \in 1 .. at - 1
    PROVE  MadeWhole(Outputs[s][i])'
<1>1. s \in ScriptNames /\ i \in DOMAIN Outputs[s] /\ i # at
  BY OutputIsFile, SourcesAssumption
<1>2. MadeWhole(Outputs[s][i])
  BY DEF ScriptsInv
<1>. QED  BY <1>1, <1>2, CurrentStays

LEMMA ScriptsStep == GeneratorTypeOK /\ ClearInv /\ ScriptsInv /\ [GenNext]_genVars => ScriptsInv'
<1>. SUFFICES ASSUME GeneratorTypeOK, ClearInv, ScriptsInv, [GenNext]_genVars, pc' = "scripts"
              PROVE  ScriptsInv'
  BY DEF ScriptsInv
<1>0. Scripts[rev] \subseteq ScriptNames
  BY SourcesAssumption DEF GeneratorTypeOK
<1>1. CASE GlobScripts
  BY <1>1 DEF GlobScripts, ClearInv, ScriptsInv, GeneratorTypeOK, JobOK, jobVars
<1>2. ASSUME NEW s \in ScriptNames, CallScript(s)
      PROVE  ScriptsInv'
  <2>1. at' = 1 /\ pending' = pending /\ UNCHANGED <<rev, made, out>>
    BY <1>2 DEF CallScript, GeneratorTypeOK, JobOK
  <2>2. 1 .. at' - 1 = {}
    BY <2>1
  <2>. QED  BY <1>2, <2>1, <2>2 DEF CallScript, ScriptsInv, Ran, MadeWhole
<1>3. CASE OpenOutput
  <2>1. PICK s \in ScriptNames : s = job /\ s \in pending
    BY <1>3, OutputIsFile DEF OpenOutput, GeneratorTypeOK, JobOK
  <2>2. \A t \in Scripts[rev] \ pending : Ran(t)'
    BY <1>0, <1>3, <2>1, RanStays DEF OpenOutput, ScriptsInv
  <2>3. \A i \in 1 .. at - 1 : MadeWhole(Outputs[s][i])'
    BY <1>3, <2>1, EarlierStay DEF OpenOutput
  <2>. QED  BY <1>3, <2>1, <2>2, <2>3 DEF OpenOutput, ScriptsInv
<1>4. CASE WriteOutput
  <2>1. PICK s \in ScriptNames, n \in Nat : s = job /\ n = at /\ s \in pending /\ n \in DOMAIN Outputs[s]
    BY <1>4, OutputIsFile DEF WriteOutput, GeneratorTypeOK, JobOK
  <2>2. \A t \in Scripts[rev] \ pending : Ran(t)'
    BY <1>0, <1>4, <2>1, RanStays DEF WriteOutput, ScriptsInv
  <2>3. \A i \in 1 .. n - 1 : MadeWhole(Outputs[s][i])'
    BY <1>4, <2>1, EarlierStay DEF WriteOutput
  <2>4. MadeWhole(Outputs[s][n])'
    BY <1>4, <2>1 DEF WriteOutput, MadeWhole, Set
  <2>5. \A i \in 1 .. n : MadeWhole(Outputs[s][i])'
    BY <2>1, <2>3, <2>4
  <2>6. CASE at < Len(Outputs[job])
    <3>1. at' - 1 = n /\ job' = s /\ pending' = pending /\ UNCHANGED <<rev, out>>
      BY <1>4, <2>1, <2>6 DEF WriteOutput
    <3>. QED  BY <1>4, <2>2, <2>5, <3>1 DEF WriteOutput, ScriptsInv
  <2>7. CASE ~(at < Len(Outputs[job]))
    <3>1. pending' = pending \ {s} /\ job' = None /\ UNCHANGED <<rev, out>>
      BY <1>4, <2>1, <2>7 DEF WriteOutput, NoJob
    <3>2. DOMAIN Outputs[s] = 1 .. n
      BY <1>4, <2>1, <2>7, OutputIsFile, SourcesAssumption DEF WriteOutput
    <3>3. Ran(s)'
      BY <2>5, <3>2 DEF Ran
    <3>. QED  BY <1>4, <2>2, <3>1, <3>3 DEF WriteOutput, ScriptsInv
  <2>. QED  BY <2>6, <2>7
<1>5. CASE UNCHANGED genVars
  BY <1>5 DEF genVars, jobVars, ScriptsInv, Ran, MadeWhole
<1>. QED
  BY <1>1, <1>2, <1>3, <1>4, <1>5 DEF GenNext, GenStep, Start, Remove, CreateDbc, ScriptFails,
     Walk, Include, Including, IncludeMissing, WriteCore, AtCore, End, Kill, CheckOut
-----------------------------------------------------------------------------
(* The walk *)

\* While the tree stays as it is, so do the DBCs that are not written.
LEMMA BuiltStays ==
    ASSUME UNCHANGED <<rev, made>>, NEW f, Built(f), f \in DOMAIN out', out'[f] = out[f]
    PROVE  Built(f)'
BY DEF Built, Tree, Content

\* create_dbc has written a file once it has written the core.
LEMMA CoreBuilds ==
    ASSUME GeneratorTypeOK, WalkInv, BufferInv, WriteCore, NEW f, f = job
    PROVE  Built(f)'
<1>1. f \in Files /\ Len(Imports[f]) \in Nat /\ at = Len(Imports[f]) + 1
  BY SourcesAssumption DEF WriteCore, AtCore, GeneratorTypeOK, JobOK
<1>2. f \in Tree /\ Len(buffer) = Len(Imports[f]) /\ buffer \in Seq(Chunks)
  BY <1>1, CoreWritten DEF WriteCore, AtCore, BufferInv, GeneratorTypeOK, JobOK
<1>. DEFINE text == Append(buffer, Content(f))
<1>3. \A i \in 1 .. Len(Imports[f]) : Source(f, i) \in Tree /\ buffer[i] = Content(Source(f, i))
  BY <1>1 DEF WriteCore, AtCore, BufferInv, Source
<1>4. Source(f, Len(Imports[f]) + 1) = f
  BY <1>1 DEF Source
<1>5. Len(text) = Len(Imports[f]) + 1
  BY <1>1, <1>2
<1>6. text[Len(Imports[f]) + 1] = Content(f)
  BY <1>1, <1>2
<1>7. \A i \in 1 .. Len(Imports[f]) : text[i] = buffer[i]
  BY <1>1, <1>2
<1>8. \A i \in 1 .. Len(Imports[f]) + 1 : Source(f, i) \in Tree /\ text[i] = Content(Source(f, i))
  BY <1>1, <1>2, <1>3, <1>4, <1>6, <1>7
<1>9. f \in DOMAIN out' /\ out'[f] = text
  BY DEF WriteCore, Set
<1>10. Tree' = Tree /\ \A g : Content(g)' = Content(g)
  BY DEF WriteCore, Tree, Content
<1>. QED  BY <1>5, <1>8, <1>9, <1>10 DEF Built

LEMMA WalkStep ==
    GeneratorTypeOK /\ ScriptsInv /\ WalkInv /\ BufferInv /\ [GenNext]_genVars => WalkInv'
<1>. SUFFICES ASSUME GeneratorTypeOK, ScriptsInv, WalkInv, BufferInv, [GenNext]_genVars,
                     pc' \in {"walking", "done"}
              PROVE  WalkInv'
  BY DEF WalkInv
<1>1. CASE Walk
  BY <1>1 DEF Walk, ScriptsInv, WalkInv, Ran, MadeWhole, Tree
<1>2. ASSUME UNCHANGED <<rev, made>>, pc \in {"walking", "done"},
             pending' \subseteq pending, DOMAIN out' \subseteq Tree \ Private,
             \A f \in (Tree \ Private) \ pending' : Built(f)'
      PROVE  WalkInv'
  BY <1>2 DEF WalkInv, Ran, MadeWhole, Tree
<1>3. ASSUME NEW f \in Files, CreateDbc(f)
      PROVE  WalkInv'
  <2>1. \A g \in DOMAIN out : g # f => g \in DOMAIN out' /\ out'[g] = out[g]
    BY <1>3 DEF CreateDbc, Set
  <2>2. \A g \in (Tree \ Private) \ pending : Built(g)'
    BY <1>3, <2>1, BuiltStays DEF CreateDbc, WalkInv, Built
  <2>. QED  BY <1>2, <1>3, <2>2 DEF CreateDbc, WalkInv, Set
<1>4. ASSUME UNCHANGED <<rev, made, out, pending>>, pc \in {"walking", "done"}
      PROVE  WalkInv'
  <2>1. \A g \in (Tree \ Private) \ pending : Built(g)'
    BY <1>4, BuiltStays DEF WalkInv, Built
  <2>. QED  BY <1>2, <1>4, <2>1 DEF WalkInv
<1>5. CASE WriteCore
  <2>1. PICK f : f = job
    OBVIOUS
  <2>2. f \in pending /\ pending' = pending \ {f} /\ f \in Tree \ Private
    BY <1>5, <2>1 DEF WriteCore, AtCore, GeneratorTypeOK, JobOK, WalkInv
  <2>3. \A g \in DOMAIN out : g # f => g \in DOMAIN out' /\ out'[g] = out[g]
    BY <1>5, <2>1 DEF WriteCore, Set
  <2>4. \A g \in (Tree \ Private) \ pending : Built(g)'
    BY <1>5, <2>2, <2>3, BuiltStays DEF WriteCore, AtCore, WalkInv, Built
  <2>5. Built(f)'
    BY <1>5, <2>1, CoreBuilds
  <2>6. DOMAIN out' \subseteq Tree \ Private
    BY <1>5, <2>1, <2>2 DEF WriteCore, AtCore, WalkInv, Set
  <2>. QED  BY <1>2, <1>5, <2>2, <2>4, <2>5, <2>6 DEF WriteCore, AtCore
<1>6. CASE End
  BY <1>4, <1>6 DEF End
<1>7. CASE Include
  BY <1>4, <1>7 DEF Include, Including
<1>8. CASE UNCHANGED genVars
  BY <1>4, <1>8 DEF genVars
<1>. QED
  BY <1>1, <1>3, <1>5, <1>6, <1>7, <1>8 DEF GenNext, GenStep, Start, Remove, CallScript,
     GlobScripts, OpenOutput, WriteOutput, ScriptFails, IncludeMissing, Kill, CheckOut

LEMMA BufferStep ==
    GeneratorTypeOK /\ BufferInv /\ [GenNext]_genVars => BufferInv'
<1>. SUFFICES ASSUME GeneratorTypeOK, BufferInv, [GenNext]_genVars, pc' = "walking", job' # None
              PROVE  BufferInv'
  BY DEF BufferInv
<1>1. ASSUME NEW f \in Files, CreateDbc(f)
      PROVE  BufferInv'
  <2>1. at' = 1 /\ buffer' = << >>
    BY <1>1 DEF CreateDbc, GeneratorTypeOK, JobOK
  <2>2. 1 .. at' - 1 = {} /\ Len(buffer') = 0
    BY <2>1
  <2>. QED  BY <2>1, <2>2 DEF BufferInv
<1>2. CASE Include
  <2>1. at \in Nat \ {0} /\ buffer \in Seq(Chunks) /\ Len(buffer) = at - 1
    BY <1>2, SourcesAssumption DEF Include, Including, BufferInv, GeneratorTypeOK, JobOK
  <2>2. PICK n, f : n \in Nat /\ n = at /\ f = job
    BY <2>1
  <2>. DEFINE c == Content(Imports[f][n])
  <2>3. buffer' = Append(buffer, c) /\ at' = n + 1 /\ job' = f /\ Imports[f][n] \in Tree
    BY <1>2, <2>2 DEF Include
  <2>4. Len(buffer') = at' - 1 /\ buffer'[n] = c /\ \A i \in 1 .. n - 1 : buffer'[i] = buffer[i]
    BY <2>1, <2>2, <2>3
  <2>5. Tree' = Tree /\ \A g : Content(g)' = Content(g)
    BY <1>2 DEF Include, Tree, Content
  <2>6. \A i \in 1 .. n - 1 : Imports[f][i] \in Tree /\ buffer[i] = Content(Imports[f][i])
    BY <1>2, <2>2 DEF Include, Including, BufferInv
  <2>7. \A i \in 1 .. n : Imports[f][i] \in Tree /\ buffer'[i] = Content(Imports[f][i])
    BY <2>1, <2>2, <2>3, <2>4, <2>6
  <2>8. at' - 1 = n
    BY <2>2, <2>3
  <2>. QED  BY <2>3, <2>4, <2>5, <2>7, <2>8 DEF BufferInv
<1>3. CASE UNCHANGED genVars
  BY <1>3 DEF genVars, jobVars, BufferInv, Tree, Content
<1>. QED
  BY <1>1, <1>2, <1>3 DEF GenNext, GenStep, Start, Remove, CallScript, GlobScripts, OpenOutput,
     WriteOutput, ScriptFails, Walk, jobVars, IncludeMissing, WriteCore, NoJob, End, Kill, CheckOut
-----------------------------------------------------------------------------
LEMMA InvInit == GenInit => GenInv
<1>1. GenInit => NamedInv /\ ClearInv /\ ScriptsInv /\ WalkInv /\ BufferInv /\ DoneInv
  BY DEF GenInit, NoFiles, NamedInv, ClearInv, ScriptsInv, WalkInv, BufferInv, DoneInv
<1>. QED  BY <1>1, TypeInit DEF GenInv

LEMMA InvStep == GenInv /\ [GenNext]_genVars => GenInv'
BY TypeStep, NamedStep, ClearStep, ScriptsStep, WalkStep, BufferStep, DoneStep DEF GenInv

(***************************************************************************)
(* After any kills and changes of revision, whatever generator.py has left *)
(* to do is still ahead of it (pending, job, buffer), and what it has      *)
(* built is made of the current tree.                                      *)
(***************************************************************************)
THEOREM GeneratorInv == GenSpec => []GenInv
BY InvInit, InvStep, PTL DEF GenSpec

(***************************************************************************)
(* The phases of create_all, for any revisions, scripts and imports.       *)
(***************************************************************************)
THEOREM GeneratorTypeCorrect == GenSpec => []GeneratorTypeOK
<1>1. GenInv => GeneratorTypeOK
  BY DEF GenInv
<1>. QED  BY <1>1, GeneratorInv, PTL
-----------------------------------------------------------------------------
\* Once the scripts have run the tree has every source of the revision.
LEMMA SourcesThere ==
    ASSUME GeneratorTypeOK, \A s \in Scripts[rev] : Ran(s), NEW f \in SourcesOf(rev)
    PROVE  f \in Tree /\ Content(f) = Chunk(f, rev, TRUE)
<1>1. CASE f \in Handwritten[rev]
  BY <1>1 DEF Tree, Content
<1>2. CASE f \in MadeBy(rev)
  <2>1. PICK s \in Scripts[rev] : f \in ScriptOutputs(s)
    BY <1>2 DEF MadeBy
  <2>2. MadeWhole(f)
    BY <2>1 DEF Ran, ScriptOutputs
  <2>. QED  BY <2>2 DEF MadeWhole, Tree, Content
<1>. QED  BY <1>1, <1>2 DEF SourcesOf

LEMMA InvCurrent == GenInv => CompleteIsCurrent
<1>. SUFFICES ASSUME GenInv, pc = "done", Buildable(rev), NEW f \in PublicOf(rev)
              PROVE  f \in DOMAIN out /\ out[f] = Expected(rev, f)
  BY DEF CompleteIsCurrent
<1>1. GeneratorTypeOK /\ \A s \in Scripts[rev] : Ran(s)
  BY DEF GenInv, WalkInv
<1>2. f \in Tree \ Private
  BY <1>1, SourcesThere DEF PublicOf
<1>3. Built(f)
  BY <1>2 DEF GenInv, WalkInv, DoneInv
<1>4. f \in Files /\ Imports[f] \in Seq(Files) /\ Len(Imports[f]) \in Nat
  BY <1>1, <1>2, TreeFiles, SourcesAssumption
<1>5. \A i \in 1 .. Len(Imports[f]) + 1 : Source(f, i) \in SourcesOf(rev)
  BY <1>4 DEF Source, Buildable, PublicOf
<1>6. \A i \in 1 .. Len(Imports[f]) + 1 : out[f][i] = Chunk(Source(f, i), rev, TRUE)
  BY <1>1, <1>3, <1>5, SourcesThere DEF Built
<1>7. f \in DOMAIN out /\ out[f] \in Seq(Chunks) /\ Len(out[f]) = Len(Imports[f]) + 1
  BY <1>1, <1>3 DEF Built, GeneratorTypeOK
<1>8. out[f] = [i \in 1 .. Len(Imports[f]) + 1 |-> out[f][i]]
  BY <1>7
<1>9. out[f] = [i \in 1 .. Len(Imports[f]) + 1 |-> Chunk(Source(f, i), rev, TRUE)]
  BY <1>6, <1>8
<1>. QED  BY <1>7, <1>9 DEF Expected, Source

(***************************************************************************)
(* What a completed run leaves is current, whatever was killed, edited or  *)
(* left over before it.                                                    *)
(***************************************************************************)
THEOREM CurrentWhenComplete == GenSpec => []CompleteIsCurrent
BY InvCurrent, GeneratorInv, PTL

LEMMA InvNotStale == GenInv => NothingStale
<1>. SUFFICES ASSUME GenInv, pc = "done"
              PROVE  /\ DOMAIN out \subseteq PublicOf(rev) \cup Leftover
                     /\ \A f \in DOMAIN out : \A i \in DOMAIN out[f] :
                           out[f][i].rev = rev \/ out[f][i].file \in Leftover
  BY DEF NothingStale
<1>1. GeneratorTypeOK /\ NamedInv /\ \A s \in Scripts[rev] : Ran(s)
  BY DEF GenInv, WalkInv
<1>2. Tree \subseteq SourcesOf(rev) \cup Leftover
  BY DEF Tree, SourcesOf, Leftover
<1>3. DOMAIN out \subseteq Tree \ Private /\ \A f \in DOMAIN out : Built(f)
  BY DEF GenInv, WalkInv, DoneInv
<1>4. ASSUME NEW f \in DOMAIN out, NEW i \in DOMAIN out[f]
      PROVE  out[f][i].rev = rev \/ out[f][i].file \in Leftover
  <2>1. out[f][i] = Content(Source(f, i)) /\ Source(f, i) \in Tree
    BY <1>1, <1>3 DEF Built, GeneratorTypeOK
  <2>2. CASE Source(f, i) \in SourcesOf(rev)
    BY <1>1, <2>1, <2>2, SourcesThere DEF Chunk
  <2>3. CASE Source(f, i) \in Leftover
    BY <1>1, <2>1, <2>3 DEF Leftover, Content, NamedInv, Chunk
  <2>. QED  BY <1>2, <2>1, <2>2, <2>3
<1>. QED  BY <1>2, <1>3, <1>4 DEF PublicOf

(***************************************************************************)
(* No generated DBC outlives its source, and none is made of another       *)
(* revision, but for what leftover intermediates account for.              *)
(***************************************************************************)
THEOREM NothingStaleWhenComplete == GenSpec => []NothingStale
BY InvNotStale, GeneratorInv, PTL
-----------------------------------------------------------------------------
(*****************************************************************************)
(* 5. The Python classes                                                     *)
(*****************************************************************************)

\* A key that leads to a message leads to it under its address and its name.
LEMMA KeysLead ==
    ASSUME ReaderInv, Ready \/ (state = "parsed" /\ ~allow_duplicate_msg_name),
           NEW key, Found(key)
    PROVE  \E k \in DOMAIN msgs : /\ MsgOf(key) = msgs[k]
                                  /\ key[1] = "address" => msgs[k].address = key[2]
                                  /\ key[1] # "address" => msgs[k].name = key[2]
<1>1. state = "parsed" /\ ~allow_duplicate_msg_name
  BY DEF Ready
<1>2. /\ DOMAIN addr_to_msg = address_set /\ DOMAIN name_to_msg = msg_name_set
      /\ \A i \in DOMAIN msgs : /\ addr_to_msg[msgs[i].address] = i
                                /\ name_to_msg[msgs[i].name] = i
  BY <1>1 DEF ReaderInv, MapsCover, LookupsAgree
<1>3. CASE key[1] = "address"
  <2>1. key[2] \in address_set
    BY <1>2, <1>3 DEF Found
  <2>2. PICK k \in DOMAIN msgs : msgs[k].address = key[2]
    BY <2>1 DEF address_set
  <2>3. MsgOf(key) = msgs[k]
    BY <1>2, <1>3, <2>2 DEF MsgOf
  <2>. QED  BY <1>3, <2>2, <2>3
<1>4. CASE key[1] # "address"
  <2>1. key[2] \in msg_name_set
    BY <1>2, <1>4 DEF Found
  <2>2. PICK k \in DOMAIN msgs : msgs[k].name = key[2]
    BY <2>1 DEF msg_name_set
  <2>3. MsgOf(key) = msgs[k]
    BY <1>2, <1>4, <2>2 DEF MsgOf
  <2>. QED  BY <1>4, <2>2, <2>3
<1>. QED  BY <1>3, <1>4

LEMMA MsgOfKeys ==
    ASSUME ReaderInv, state = "parsed", ~allow_duplicate_msg_name, NEW k \in DOMAIN msgs
    PROVE  /\ Found(<<"address", msgs[k].address>>)
           /\ \A key \in KeysOf(msgs[k]) : MsgOf(key) = msgs[k]
<1>1. /\ DOMAIN addr_to_msg = address_set
      /\ addr_to_msg[msgs[k].address] = k /\ name_to_msg[msgs[k].name] = k
  BY DEF ReaderInv, MapsCover, LookupsAgree
<1>2. msgs[k].address \in DOMAIN addr_to_msg
  BY <1>1 DEF address_set
<1>3. "name" # "address"
  OBVIOUS
<1>. QED  BY <1>1, <1>2, <1>3 DEF Found, MsgOf, KeysOf
-----------------------------------------------------------------------------
LEMMA ConstructDicts ==
    ASSUME ReaderInv, NEW request \in Requests, Construct(request)
    PROVE  DictsShared'
<1>1. Ready /\ UNCHANGED <<msgs, addr_to_msg, name_to_msg>>
  BY DEF Construct, readerVars, dbcVars
<1>2. state = "parsed" /\ ~allow_duplicate_msg_name
  BY <1>1 DEF Ready
<1>. SUFFICES ASSUME client'.kind = "parser" PROVE DictsShared'
  BY DEF DictsShared
<1>3. /\ \A i \in DOMAIN request : Found(request[i])
      /\ ~DuplicateCheck(Addresses(request))
      /\ client' = [kind |-> "parser", addresses |-> Addresses(request), vl |-> Vl(request)]
  BY DEF Construct, Raised
<1>4. DOMAIN Addresses(request) = DOMAIN request
      /\ \A i \in DOMAIN request : Addresses(request)[i] = MsgOf(request[i]).address
  BY DEF Addresses
<1>. DEFINE keys(i) == KeysOf(MsgOf(request[i]))
<1>5. ASSUME NEW i \in DOMAIN request, NEW j \in DOMAIN request,
             NEW key \in keys(i), key \in keys(j)
      PROVE  j = i
  <2>1. PICK k \in DOMAIN msgs : MsgOf(request[i]) = msgs[k]
    BY <1>1, <1>3, KeysLead
  <2>2. PICK n \in DOMAIN msgs : MsgOf(request[j]) = msgs[n]
    BY <1>1, <1>3, KeysLead
  <2>3. msgs[k].address = msgs[n].address \/ msgs[k].name = msgs[n].name
    BY <1>5, <2>1, <2>2 DEF KeysOf
  <2>4. k = n
    BY <1>2, <2>3 DEF ReaderInv, DistinctMessages
  <2>. QED  BY <1>3, <1>4, <2>1, <2>2, <2>4 DEF DuplicateCheck
<1>6. ASSUME NEW i \in DOMAIN request, NEW key \in keys(i)
      PROVE  Vl(request)[key] = i
  <2>1. key \in UNION {keys(j) : j \in DOMAIN request}
    BY <1>6
  <2>2. Vl(request)[key] =
           CHOOSE j \in DOMAIN request :
              key \in keys(j) /\ \A n \in DOMAIN request : key \in keys(n) => n <= j
    BY <2>1 DEF Vl
  <2>3. request \in Seq(Keys)
    BY RequestsAssumption
  <2>4. i <= i
    BY <2>3
  <2>5. \A n \in DOMAIN request : key \in keys(n) => n <= i
    BY <1>5, <1>6, <2>4
  <2>. QED  BY <1>5, <1>6, <2>2, <2>5
<1>7. ASSUME NEW i \in DOMAIN request
      PROVE  MsgOf(<<"address", Addresses(request)[i]>>) = MsgOf(request[i])
  <2>1. PICK k \in DOMAIN msgs : MsgOf(request[i]) = msgs[k]
    BY <1>1, <1>3, KeysLead
  <2>2. Addresses(request)[i] = msgs[k].address
    BY <1>4, <2>1
  <2>3. <<"address", msgs[k].address>> \in KeysOf(msgs[k])
    BY DEF KeysOf
  <2>. QED  BY <1>2, <2>1, <2>2, <2>3, MsgOfKeys
<1>. DEFINE Later(a) == msgs'[addr_to_msg'[a]]
<1>8. \A a : Later(a) = MsgOf(<<"address", a>>)
  BY <1>1 DEF MsgOf
<1>9. \A i \in DOMAIN client'.addresses :
         \A key \in KeysOf(Later(client'.addresses[i])) : client'.vl[key] = i
  <2>. SUFFICES ASSUME NEW i \in DOMAIN client'.addresses,
                       NEW key \in KeysOf(Later(client'.addresses[i]))
                PROVE  client'.vl[key] = i
    OBVIOUS
  <2>1. client'.addresses = Addresses(request) /\ client'.vl = Vl(request)
    BY <1>3
  <2>2. i \in DOMAIN request
    BY <1>4, <2>1
  <2>3. key \in keys(i)
    BY <1>7, <1>8, <2>1, <2>2
  <2>. QED  BY <1>6, <2>1, <2>2, <2>3
<1>10. \A a : Later(a) = MsgOf(<<"address", a>>)'
  BY DEF MsgOf
<1>. HIDE DEF Later
<1>. QED  BY <1>9, <1>10 DEF DictsShared

-----------------------------------------------------------------------------
\* The pairs of a line, and what CANDefine makes of them when no description
\* is empty: none is dropped, and the k-th value keeps the k-th description.
LEMMA PairsKept ==
    ASSUME NEW defs \in Seq(Nat \X Descriptions), Complete(defs)
    PROVE  /\ Converts(Tokens(defs))
           /\ DefsOf(Tokens(defs)) = [i \in 1 .. Len(defs) |-> defs[i][2]]
           /\ ValuesOf(Tokens(defs)) = [i \in 1 .. Len(defs) |-> <<"value", defs[i][1]>>]
<1>. DEFINE n    == Len(defs)
            both == Both(defs)
            kept   == {i \in DOMAIN both : both[i] # NoText}
<1>1. both \in Seq(AnyToken) /\ Len(both) = 2 * n /\ n \in Nat
  BY BothType
<1>2. \A i \in 1 .. n : /\ defs[i] \in Nat \X Descriptions
                        /\ defs[i][2] # NoText
  BY DEF Complete
<1>3. ASSUME NEW i \in 1 .. n
      PROVE  both[2 * i - 1] = <<"value", defs[i][1]>> /\ both[2 * i] = defs[i][2]
  <2>1. /\ 2 * i - 1 \in 1 .. 2 * n /\ 2 * i \in 1 .. 2 * n
        /\ (2 * i - 1) % 2 = 1 /\ (2 * i) % 2 = 0
        /\ (2 * i - 1 + 1) \div 2 = i /\ (2 * i) \div 2 = i
    BY <1>1, <1>3
  <2>. QED  BY <2>1 DEF Both
<1>4. \A i \in 1 .. 2 * n : i \in kept
  <2>. SUFFICES ASSUME NEW i \in 1 .. 2 * n PROVE both[i] # NoText
    BY <1>1
  <2>1. \A x \in Nat : <<"value", x>> # NoText
    BY DEF NoText
  <2>2. CASE i % 2 = 1
    <3>1. (i + 1) \div 2 \in 1 .. n /\ both[i] = <<"value", defs[(i + 1) \div 2][1]>>
      BY <1>1, <2>2 DEF Both
    <3>2. defs[(i + 1) \div 2][1] \in Nat
      BY <1>2, <3>1
    <3>. QED  BY <2>1, <3>1, <3>2
  <2>3. CASE i % 2 # 1
    <3>1. i \div 2 \in 1 .. n /\ both[i] = defs[i \div 2][2]
      BY <1>1, <2>3 DEF Both
    <3>. QED  BY <1>2, <3>1
  <2>. QED  BY <2>2, <2>3
<1>5. Tokens(defs) = both
  <2>1. Kept(both, kept) = both
    <3>. HIDE DEF both, kept
    <3>. QED  BY <1>1, <1>4, KeptAll
  <2>. QED  BY <2>1, TokensAre
<1>. HIDE DEF both
<1>6. /\ ValuesOf(both) = [i \in 1 .. n |-> both[2 * i - 1]]
      /\ DefsOf(both) = [i \in 1 .. n |-> both[2 * i]]
  <2>1. (Len(both) + 1) \div 2 = n /\ Len(both) \div 2 = n
    BY <1>1
  <2>. QED  BY <2>1 DEF ValuesOf, DefsOf
<1>7. /\ ValuesOf(both) = [i \in 1 .. n |-> <<"value", defs[i][1]>>]
      /\ DefsOf(both) = [i \in 1 .. n |-> defs[i][2]]
  BY <1>3, <1>6
<1>8. Converts(both)
  BY <1>7 DEF Converts
<1>. QED  BY <1>5, <1>7, <1>8

\* What the dict of a complete line shows: each value with its description,
\* unless the line gives the value again.
Shown(dict, defs) ==
    /\ DOMAIN dict = {defs[i][1] : i \in DOMAIN defs}
    /\ \A i \in DOMAIN defs :
          \/ dict[defs[i][1]] = defs[i][2]
          \/ \E j \in DOMAIN defs : j > i /\ defs[j][1] = defs[i][1]

LEMMA DictShows ==
    ASSUME NEW defs \in Seq(Nat \X Descriptions), Complete(defs)
    PROVE  Shown(Dict(Tokens(defs)), defs)
<1>. DEFINE n      == Len(defs)
            values == ValuesOf(Tokens(defs))
            texts  == DefsOf(Tokens(defs))
            Last(v) == CHOOSE i \in DOMAIN texts :
                          values[i][2] = v /\ \A j \in DOMAIN texts : values[j][2] = v => j <= i
            dict   == Dict(Tokens(defs))
<1>1. n \in Nat /\ DOMAIN defs = 1 .. n
  OBVIOUS
<1>2. /\ DOMAIN texts = 1 .. n
      /\ \A i \in 1 .. n : texts[i] = defs[i][2] /\ values[i][2] = defs[i][1]
  BY PairsKept
<1>3. dict = [v \in {values[i][2] : i \in DOMAIN texts} |-> texts[Last(v)]]
  BY DEF Dict
<1>. HIDE DEF dict, values, texts
<1>4. {values[i][2] : i \in DOMAIN texts} = {defs[i][1] : i \in DOMAIN defs}
  BY <1>1, <1>2
<1>5. ASSUME NEW i \in DOMAIN defs, \A j \in DOMAIN defs : j > i => defs[j][1] # defs[i][1]
      PROVE  dict[defs[i][1]] = defs[i][2]
  <2>1. \A j \in 1 .. n : defs[j][1] = defs[i][1] => j <= i
    BY <1>1, <1>5
  <2>2. \A k \in 1 .. n : k <= i /\ i <= k => k = i
    BY <1>1
  <2>3. Last(defs[i][1]) = i
    BY <1>1, <1>2, <2>1, <2>2
  <2>4. dict[defs[i][1]] = texts[Last(defs[i][1])]
    BY <1>3, <1>4
  <2>. QED  BY <1>1, <1>2, <2>3, <2>4
<1>6. DOMAIN dict = {defs[i][1] : i \in DOMAIN defs}
  BY <1>3, <1>4
<1>7. \A i \in DOMAIN defs :
         \/ dict[defs[i][1]] = defs[i][2]
         \/ \E j \in DOMAIN defs : j > i /\ defs[j][1] = defs[i][1]
  BY <1>5
<1>. QED  BY <1>6, <1>7 DEF Shown, dict

-----------------------------------------------------------------------------
\* The line of a signal that no later one replaces is the one CANDefine uses.
LEMMA FinalValUsed ==
    ASSUME ReaderInv, ReadInv, state = "parsed", NEW l \in FinalVals, Complete(l.defs)
    PROVE  \E i \in DOMAIN vals : /\ vals[i].address = l.address
                                  /\ vals[i].name = l.name
                                  /\ LastVal(l.address, l.name) = i
                                  /\ Shown(Dict(vals[i].def_val), l.defs)
<1>. DEFINE values == OfKind(stream, "VAL")
<1>1. /\ Len(vals) = Len(values)
      /\ \A i \in DOMAIN values : /\ vals[i].address = values[i].address
                                  /\ vals[i].name = values[i].name
                                  /\ vals[i].def_val = Tokens(values[i].defs)
  BY DEF ReadInv, ValsRead
<1>2. values \in Seq(LinesOf("VAL")) /\ vals \in Seq(ValRecords)
  BY OfKindType DEF ReaderInv, LocalsTyped, ValsTyped
<1>3. PICK i \in DOMAIN values :
         /\ l = values[i]
         /\ ~\E j \in DOMAIN values : /\ j > i
                                      /\ values[j].address = values[i].address
                                      /\ values[j].name = values[i].name
  BY DEF FinalVals
<1>. HIDE DEF values
<1>4. DOMAIN vals = DOMAIN values /\ DOMAIN values = 1 .. Len(values) /\ Len(values) \in Nat
  BY <1>1, <1>2
<1>5. LastVal(l.address, l.name) = i
  <2>1. \A j \in DOMAIN vals : vals[j].address = l.address /\ vals[j].name = l.name => j <= i
    BY <1>1, <1>3, <1>4
  <2>2. \A k \in DOMAIN vals : k <= i /\ i <= k => k = i
    BY <1>3, <1>4
  <2>. QED  BY <1>1, <1>3, <1>4, <2>1, <2>2 DEF LastVal
<1>6. l.defs \in Seq(Nat \X Descriptions)
  <2>1. l \in LinesOf("VAL")
    BY <1>2, <1>3
  <2>2. \A v \in LinesOf("VAL") : v.defs \in Seq(Nat \X Descriptions)
    BY DEF LinesOf, Lines, Bad, Other
  <2>. QED  BY <2>1, <2>2
<1>. QED  BY <1>1, <1>3, <1>4, <1>5, <1>6, DictShows

\* A line CANDefine cannot take is about an unknown message, or incomplete.
LEMMA FailsOnlyThen ==
    ASSUME ReaderInv, ReadInv, Ready, NEW i \in DOMAIN vals,
           ~Found(<<"address", vals[i].address>>) \/ ~Converts(vals[i].def_val)
    PROVE  \E j \in DOMAIN stream : /\ stream[j].kind = "VAL"
                                    /\ \/ stream[j].address \notin address_set
                                       \/ ~Complete(stream[j].defs)
<1>. DEFINE values == OfKind(stream, "VAL")
<1>1. /\ Len(vals) = Len(values)
      /\ \A k \in DOMAIN values : /\ vals[k].address = values[k].address
                                  /\ vals[k].def_val = Tokens(values[k].defs)
  BY DEF ReadInv, ValsRead, Ready
<1>2. stream \in Seq(Lines) /\ values \in Seq(LinesOf("VAL")) /\ vals \in Seq(ValRecords)
  BY OfKindType DEF ReaderInv, LocalsTyped, ValsTyped
<1>3. i \in DOMAIN values
  <2>. HIDE DEF values
  <2>. QED  BY <1>1, <1>2
<1>4. PICK j \in DOMAIN stream : values[i] = stream[j] /\ stream[j].kind = "VAL"
  BY <1>2, <1>3, OfKindFrom
<1>5. values[i].defs \in Seq(Nat \X Descriptions)
  <2>1. values[i] \in LinesOf("VAL")
    <3>. HIDE DEF values
    <3>. QED  BY <1>2, <1>3
  <2>2. \A v \in LinesOf("VAL") : v.defs \in Seq(Nat \X Descriptions)
    BY DEF LinesOf, Lines, Bad, Other
  <2>. QED  BY <2>1, <2>2
<1>. HIDE DEF values
<1>6. CASE ~Found(<<"address", vals[i].address>>)
  <2>1. DOMAIN addr_to_msg = address_set
    BY DEF ReaderInv, MapsCover, Ready
  <2>2. vals[i].address \notin address_set
    BY <1>6, <2>1 DEF Found
  <2>. QED  BY <1>1, <1>3, <1>4, <2>2
<1>7. CASE ~Converts(vals[i].def_val)
  <2>1. ~Complete(values[i].defs)
    BY <1>1, <1>3, <1>5, <1>7, PairsKept
  <2>. QED  BY <1>4, <2>1
<1>. QED  BY <1>6, <1>7

LEMMA DefineShows ==
    ASSUME ReaderInv, ReadInv, Define
    PROVE  DefinitionsAsWritten'
<1>1. Ready /\ UNCHANGED <<stream, msgs, addr_to_msg, name_to_msg>>
  BY DEF Define, readerVars, argVars, dbcVars
<1>2. state = "parsed" /\ ~allow_duplicate_msg_name
  BY <1>1 DEF Ready
<1>. DEFINE takes == \A i \in DOMAIN vals :
                        Found(<<"address", vals[i].address>>) /\ Converts(vals[i].def_val)
            shows(l, keys) ==
               \A key \in keys :
                  LET dict == client'.dv[key][l.name] IN
                  /\ key \in DOMAIN client'.dv /\ l.name \in DOMAIN client'.dv[key]
                  /\ DOMAIN dict = {l.defs[i][1] : i \in DOMAIN l.defs}
                  /\ \A i \in DOMAIN l.defs :
                        \/ dict[l.defs[i][1]] = l.defs[i][2]
                        \/ \E j \in DOMAIN l.defs : j > i /\ l.defs[j][1] = l.defs[i][1]
<1>3. IF takes
      THEN client' = [kind |-> "define", dv |-> [key \in DvKeys |-> DvOf(MsgOf(key).address)]]
      ELSE client' = Raised("CANDefine")
  BY DEF Define
<1>4. ASSUME client'.kind = "define", NEW l \in FinalVals, Complete(l.defs)
      PROVE  shows(l, KeysOf(MsgOf(<<"address", l.address>>)))
  <2>1. takes /\ client'.dv = [key \in DvKeys |-> DvOf(MsgOf(key).address)]
    BY <1>3, <1>4 DEF Raised
  <2>2. PICK i \in DOMAIN vals : /\ vals[i].address = l.address
                                 /\ vals[i].name = l.name
                                 /\ LastVal(l.address, l.name) = i
                                 /\ Shown(Dict(vals[i].def_val), l.defs)
    BY <1>2, <1>4, FinalValUsed
  <2>3. Found(<<"address", l.address>>)
    BY <2>1, <2>2
  <2>4. PICK k \in DOMAIN msgs : /\ MsgOf(<<"address", l.address>>) = msgs[k]
                                 /\ msgs[k].address = l.address
    BY <1>1, <2>3, KeysLead
  <2>5. SUFFICES ASSUME NEW key \in KeysOf(MsgOf(<<"address", l.address>>))
                 PROVE  /\ key \in DOMAIN client'.dv /\ l.name \in DOMAIN client'.dv[key]
                        /\ Shown(client'.dv[key][l.name], l.defs)
    BY DEF Shown
  <2>6. key \in DvKeys
    BY <2>2 DEF DvKeys
  <2>7. MsgOf(key).address = l.address
    BY <1>2, <2>4, <2>5, MsgOfKeys
  <2>8. client'.dv[key] = DvOf(l.address)
    BY <2>1, <2>6, <2>7
  <2>9. l.name \in SignalsDefined(l.address)
    BY <2>2 DEF SignalsDefined
  <2>10. /\ DOMAIN DvOf(l.address) = SignalsDefined(l.address)
         /\ DvOf(l.address)[l.name] = Dict(vals[i].def_val)
    BY <2>2, <2>9 DEF DvOf
  <2>. QED  BY <2>1, <2>2, <2>6, <2>8, <2>9, <2>10
<1>5. ASSUME client' = Raised("CANDefine")
      PROVE  \E j \in DOMAIN stream : /\ stream[j].kind = "VAL"
                                      /\ \/ stream[j].address \notin address_set
                                         \/ ~Complete(stream[j].defs)
  <2>1. ~takes
    BY <1>3, <1>5 DEF Raised
  <2>. QED  BY <1>1, <2>1, FailsOnlyThen
<1>. DEFINE Later(l) == MsgOf(<<"address", l.address>>)
<1>6. \A l \in FinalVals' : l \in FinalVals /\ Later(l)' = Later(l)
  BY <1>1 DEF FinalVals, MsgOf
<1>. QED  BY <1>1, <1>4, <1>5, <1>6 DEF DefinitionsAsWritten, address_set
-----------------------------------------------------------------------------
\* A client exists only on top of a parsed DBC, whose lookups it went by.
ClientInv ==
    /\ client # NoClient => state = "parsed" /\ ~allow_duplicate_msg_name
    /\ DictsShared
    /\ DefinitionsAsWritten

LEMMA NoClientRight == client' = NoClient => ClientInv'
BY DEF ClientInv, NoClient, Raised, DictsShared, DefinitionsAsWritten

LEMMA DefineStep ==
    ASSUME ReaderInv, ReadInv, Define
    PROVE  ClientInv'
<1>1. state' = "parsed" /\ ~allow_duplicate_msg_name'
  BY DEF Define, Ready, readerVars, argVars
<1>2. client'.kind # "parser"
  BY DEF Define, Raised
<1>. QED  BY <1>1, <1>2, DefineShows DEF ClientInv, DictsShared

LEMMA ConstructStep ==
    ASSUME ReaderInv, NEW request \in Requests, Construct(request)
    PROVE  ClientInv'
<1>1. state' = "parsed" /\ ~allow_duplicate_msg_name'
  BY DEF Construct, Ready, readerVars, argVars
<1>2. client'.kind # "define" /\ client' # Raised("CANDefine")
  BY DEF Construct, Raised
<1>. QED  BY <1>1, <1>2, ConstructDicts DEF ClientInv, DefinitionsAsWritten

LEMMA ClientStutter ==
    ASSUME ClientInv, UNCHANGED clientVars
    PROVE  ClientInv'
<1>1. UNCHANGED <<client, state, allow_duplicate_msg_name, stream, msgs, addr_to_msg, name_to_msg>>
  BY DEF clientVars, readerVars, argVars, dbcVars
<1>. DEFINE Later(a) == MsgOf(<<"address", a>>)
<1>2. \A a : Later(a)' = Later(a)
  BY <1>1 DEF MsgOf
<1>3. DictsShared'
  BY <1>1, <1>2 DEF ClientInv, DictsShared
<1>4. DefinitionsAsWritten'
  BY <1>1, <1>2 DEF ClientInv, DefinitionsAsWritten, FinalVals, address_set
<1>. QED  BY <1>1, <1>3, <1>4 DEF ClientInv
-----------------------------------------------------------------------------
(*****************************************************************************)
(* 6. The composition                                                        *)
(*****************************************************************************)

\* A complete run leaves at least the core of each DBC; the lines of its
\* files make a text.
LEMMA GeneratedTextType ==
    ASSUME GenInv, pc = "done", NEW f \in DOMAIN out
    PROVE  f \in Files /\ GeneratedText(out[f]) \in Seq(Lines)
<1>1. f \in Files /\ out[f] \in Seq(Chunks)
  BY DEF GenInv, GeneratorTypeOK
<1>2. Len(out[f]) \in Nat \ {0}
  <2>1. Built(f)
    BY DEF GenInv, WalkInv, DoneInv
  <2>2. Len(Imports[f]) \in Nat
    BY <1>1, SourcesAssumption
  <2>. QED  BY <2>1, <2>2 DEF Built
<1>. DEFINE texts == [i \in 1 .. Len(out[f]) |-> Comment(TextOf[out[f][i].file])]
<1>3. \A text \in Seq(Lines) : Comment(text) \in Seq(Lines)
  <2>1. Other \in Lines
    BY DEF Lines
  <2>. QED  BY <2>1 DEF Comment
<1>4. \A i \in 1 .. Len(out[f]) : texts[i] \in Seq(Lines)
  <2>1. \A i \in 1 .. Len(out[f]) : out[f][i] \in Chunks
    BY <1>1
  <2>2. \A c \in Chunks : TextOf[c.file] \in Seq(Lines)
    BY ContentAssumption DEF Chunks
  <2>. QED  BY <1>3, <2>1, <2>2
<1>5. GeneratedText(out[f]) =
         Comment(IF Len(out[f]) = 1 THEN texts[1]
                 ELSE IF Len(out[f]) = 2 THEN texts[1] \o texts[2]
                 ELSE texts[1] \o texts[2] \o texts[3])
  BY DEF GeneratedText
<1>. HIDE DEF texts
<1>6. CASE Len(out[f]) = 1
  <2>1. texts[1] \in Seq(Lines)
    BY <1>4, <1>6
  <2>. QED  BY <1>1, <1>3, <1>5, <1>6, <2>1
<1>7. CASE Len(out[f]) = 2
  <2>1. texts[1] \in Seq(Lines) /\ texts[2] \in Seq(Lines)
    BY <1>4, <1>7
  <2>2. texts[1] \o texts[2] \in Seq(Lines)
    BY <2>1
  <2>3. GeneratedText(out[f]) = Comment(texts[1] \o texts[2])
    BY <1>5, <1>7
  <2>. QED  BY <1>1, <1>3, <2>2, <2>3
<1>8. CASE Len(out[f]) >= 3
  <2>1. texts[1] \in Seq(Lines) /\ texts[2] \in Seq(Lines) /\ texts[3] \in Seq(Lines)
    BY <1>2, <1>4, <1>8
  <2>2. texts[1] \o texts[2] \o texts[3] \in Seq(Lines)
    BY <2>1
  <2>3. GeneratedText(out[f]) = Comment(texts[1] \o texts[2] \o texts[3])
    <3>1. \A n \in Nat \ {0} : n >= 3 => n # 1 /\ n # 2
      OBVIOUS
    <3>2. Len(out[f]) # 1 /\ Len(out[f]) # 2
      BY <1>2, <1>8, <3>1
    <3>. QED  BY <1>5, <3>2
  <2>. QED  BY <1>1, <1>3, <2>2, <2>3
<1>9. Len(out[f]) = 1 \/ Len(out[f]) = 2 \/ Len(out[f]) >= 3
  <2>1. \A n \in Nat \ {0} : n = 1 \/ n = 2 \/ n >= 3
    OBVIOUS
  <2>. QED  BY <1>2, <2>1
<1>. QED  BY <1>6, <1>7, <1>8, <1>9

AllInv == GenInv /\ ReaderInv /\ ReadInv /\ ClientInv

\* While a text is opened or read there is no client.
LEMMA ReaderMoves ==
    ASSUME AllInv, UNCHANGED genVars, UNCHANGED client, client = NoClient,
           ReaderInv', ReadInv'
    PROVE  AllInv'
BY InvStep, NoClientRight DEF AllInv

LEMMA AllStep == AllInv /\ [AllNext]_allVars => AllInv'
<1>. SUFFICES ASSUME AllInv, [AllNext]_allVars PROVE AllInv'
  OBVIOUS
<1>0. GenInv /\ ReaderInv /\ ReadInv /\ ClientInv
  BY DEF AllInv
<1>1. UNCHANGED genVars => GenInv'
  BY <1>0, InvStep
<1>2. UNCHANGED readerVars => ReaderInv' /\ ReadInv'
  BY <1>0, ReaderStep, ReadStutter
<1>3. CASE Generating
  BY <1>0, <1>2, <1>3, InvStep, ClientStutter DEF Generating, clientVars, AllInv
<1>4. ASSUME NEW f \in Files, OpenGenerated(f)
      PROVE  AllInv'
  <2>1. MakeOf[f] \in Makes /\ GeneratedText(out[f]) \in Seq(Lines) /\ FALSE \in BOOLEAN
    BY <1>0, <1>4, GeneratedTextType, ContentAssumption DEF OpenGenerated, FirstRun
  <2>2. Open(MakeOf[f], GeneratedText(out[f]), FALSE)
    BY <1>4 DEF OpenGenerated
  <2>3. UNCHANGED genVars /\ UNCHANGED client /\ client = NoClient
    BY <1>4 DEF OpenGenerated, FirstRun
  <2>4. ReaderInv' /\ ReadInv'
    BY <1>0, <2>1, <2>2, OpenStep, ReadOpenStep
  <2>. QED  BY <2>3, <2>4, ReaderMoves
<1>5. CASE OpenHandMade
  <2>1. PICK dbc \in HandMade : Open(dbc.make, dbc.text, dbc.allow)
    BY <1>5 DEF OpenHandMade
  <2>2. dbc.make \in Makes /\ dbc.text \in Seq(Lines) /\ dbc.allow \in BOOLEAN
    BY ContentAssumption
  <2>3. UNCHANGED genVars /\ UNCHANGED client /\ client = NoClient
    BY <1>5 DEF OpenHandMade, FirstRun
  <2>4. ReaderInv' /\ ReadInv'
    BY <1>0, <2>1, <2>2, OpenStep, ReadOpenStep
  <2>. QED  BY <2>3, <2>4, ReaderMoves
<1>6. CASE Reading
  <2>1. state = "reading"
    BY <1>6 DEF Reading, ReadLine, PassOver, ReadMessage, ReadSignal, ReadVal, Refuse, Finish, More
  <2>2. client = NoClient
    BY <1>0, <2>1 DEF ClientInv
  <2>3. ReaderInv' /\ ReadInv'
    BY <1>0, <1>6, ReaderStep, ReadTookStep, ReadEndStep DEF Reading, ReaderNext, ReadLine
  <2>. QED  BY <1>6, <2>2, <2>3, ReaderMoves DEF Reading
<1>7. CASE Closing
  <2>1. ReaderInv' /\ ReadInv'
    BY <1>0, <1>7, ReaderStep, ReadEndStep DEF Closing, ReaderNext
  <2>. QED  BY <1>7, <2>1, ReaderMoves DEF Closing
<1>8. CASE ClientNext /\ UNCHANGED genVars
  <2>1. UNCHANGED readerVars
    BY <1>8 DEF ClientNext, Define, Construct, Drop
  <2>2. ClientInv'
    BY <1>0, <1>8, DefineStep, ConstructStep, NoClientRight DEF ClientNext, Drop
  <2>. QED  BY <1>1, <1>2, <1>8, <2>1, <2>2 DEF AllInv
<1>9. CASE UNCHANGED allVars
  BY <1>0, <1>1, <1>2, <1>9, ClientStutter DEF allVars, clientVars, AllInv
<1>. QED  BY <1>3, <1>4, <1>5, <1>6, <1>7, <1>8, <1>9 DEF AllNext

(***************************************************************************)
(* Generator, reader and Python classes keep their invariants together:    *)
(* none disturbs the state of another.                                     *)
(***************************************************************************)
THEOREM GeneratedInvariant == AllSpec => []AllInv
<1>1. AllInit => AllInv
  <2>. SUFFICES ASSUME AllInit PROVE AllInv
    OBVIOUS
  <2>1. GenInv /\ ReaderInv /\ ReadInv
    BY InvInit, InitInv, ReadInit DEF AllInit
  <2>2. ClientInv
    BY DEF AllInit, ClientInit, ClientInv, NoClient, Raised, DictsShared, DefinitionsAsWritten
  <2>. QED  BY <2>1, <2>2 DEF AllInv
<1>. QED  BY <1>1, AllStep, PTL DEF AllSpec

(***************************************************************************)
(* What create_all leaves, complete and current, is what the reader reads: *)
(* the guarantees of both sides hold when they run together.               *)
(***************************************************************************)
THEOREM GeneratedGuarantees ==
    AllSpec => [](/\ GeneratorTypeOK /\ CompleteIsCurrent /\ NothingStale
                  /\ ReaderTypeOK /\ ReadsAsWritten /\ RefusesExactlyIllFormed /\ LookupsAgree)
<1>1. AllInv => /\ GeneratorTypeOK /\ CompleteIsCurrent /\ NothingStale
                /\ ReaderTypeOK /\ ReadsAsWritten /\ RefusesExactlyIllFormed /\ LookupsAgree
  BY InvCurrent, InvNotStale, InvTypes DEF AllInv, GenInv, ReaderInv, ReadInv
<1>. QED  BY <1>1, GeneratedInvariant, PTL

(***************************************************************************)
(* In a CANParser that was built, for whatever messages of whatever DBC,   *)
(* an update of a message's dict by its address is seen by its name, and   *)
(* no other message is updated with it.                                    *)
(***************************************************************************)
THEOREM DictsSharedHolds == AllSpec => []DictsShared
<1>1. AllInv => DictsShared
  BY DEF AllInv, ClientInv
<1>. QED  BY <1>1, GeneratedInvariant, PTL

(***************************************************************************)
(* CANDefine pairs each value of a complete VAL_ line with its own         *)
(* description, however many lines and values the DBC has and whichever of *)
(* them are given twice, and fails for no other DBC than it must.          *)
(***************************************************************************)
THEOREM DefinitionsAsWrittenHolds == AllSpec => []DefinitionsAsWritten
<1>1. AllInv => DefinitionsAsWritten
  BY DEF AllInv, ClientInv
<1>. QED  BY <1>1, GeneratedInvariant, PTL
=============================================================================
