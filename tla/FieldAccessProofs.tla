-------------------------- MODULE FieldAccessProofs --------------------------
(***************************************************************************)
(* Writing and reading a signal, for every width of the word, length of    *)
(* frame, place, size, byte order, scaling, value and outcome of the       *)
(* undefined shift.  From the bottom up:                                   *)
(*                                                                         *)
(*   numbers   Pow2, division, and a number as its bits (Bit);             *)
(*   a byte    WithField changes the bits of its field and no other;       *)
(*   a signal  Pos(s, k), the position of its bit k in bytes and shifts;   *)
(*   the loops SetInv and GetInv hold after each of their turns, and at    *)
(*             their end give SetValueBits and GetRawValueBits;            *)
(*   placing   Pos is the position the DBC format means (PlacedIs);        *)
(*   scaling   Round and the sign extension;                               *)
(*   states    AccessInv, and the theorems.                                *)
(***************************************************************************)
EXTENDS FieldAccess, WellFoundedInduction, TLAPS

-----------------------------------------------------------------------------
(***************************************************************************)
(* The turns of a loop.                                                    *)
(***************************************************************************)
\* Induction up to n, over a set: the theorems of the library take an operator.
LEMMA UpTo ==
    ASSUME NEW n \in Nat, NEW S, 0 \in S, \A m \in 0 .. n - 1 : m \in S => m + 1 \in S
    PROVE  \A m \in 0 .. n : m \in S
<1>. DEFINE Less == {p \in Nat \X Nat : p[1] < p[2]}
            T    == {m \in 0 .. n : m \notin S}
<1>1. IsWellFoundedOn(Less, Nat)
  BY NatLessThanWellFounded DEF OpToRel
<1>. SUFFICES ASSUME T # {} PROVE FALSE
  OBVIOUS
<1>2. T \subseteq Nat
  OBVIOUS
<1>3. \E z \in T : \A w \in T : ~ (<<w, z>> \in Less)
  <2>. HIDE DEF Less, T
  <2>. QED  BY <1>1, <1>2, WFMin
<1>4. PICK z \in T : \A w \in T : ~ (<<w, z>> \in Less)
  BY <1>3
<1>5. z - 1 \in 0 .. n - 1 /\ z - 1 + 1 = z
  <2>1. z # 0 /\ z \in 0 .. n
    OBVIOUS
  <2>. QED  BY <2>1
<1>6. z - 1 \in T
  BY <1>5
<1>7. <<z - 1, z>> \in Less
  <2>1. z - 1 \in Nat /\ z \in Nat /\ z - 1 < z
    BY <1>2, <1>6
  <2>. QED  BY <2>1
<1>. QED  BY <1>4, <1>6, <1>7

\* N turns F of a loop can be run from any start.
Runs(N, T, start, F) ==
    \E U \in [0 .. N -> T] : U[0] = start /\ \A n \in 1 .. N : U[n] = F[U[n - 1]]

LEMMA RunExists ==
    ASSUME NEW T, NEW start \in T, NEW F \in [T -> T], NEW N \in Nat
    PROVE  Runs(N, T, start, F)
<1>. DEFINE Run(m, U) == U \in [0 .. m -> T] /\ U[0] = start /\ \A n \in 1 .. m : U[n] = F[U[n - 1]]
            S == {m \in 0 .. N : \E U : Run(m, U)}
<1>1. 0 \in S
  <2>. DEFINE U == [n \in 0 .. 0 |-> start]
  <2>1. Run(0, U)
    OBVIOUS
  <2>. HIDE DEF Run, U
  <2>. QED  BY <2>1
<1>2. ASSUME NEW m \in 0 .. N - 1, m \in S
      PROVE  m + 1 \in S
  <2>1. PICK U : Run(m, U)
    BY <1>2
  <2>. DEFINE V == [n \in 0 .. m + 1 |-> IF n = m + 1 THEN F[U[m]] ELSE U[n]]
  <2>2. U[m] \in T /\ F[U[m]] \in T
    BY <2>1
  <2>3. V \in [0 .. m + 1 -> T]
    <3>1. \A n \in 0 .. m + 1 : n # m + 1 => n \in 0 .. m
      OBVIOUS
    <3>. QED  BY <2>1, <2>2, <3>1
  <2>4. V[0] = start
    BY <2>1
  <2>5. ASSUME NEW n \in 1 .. m + 1
        PROVE  V[n] = F[V[n - 1]]
    <3>1. n - 1 \in 0 .. m /\ V[n - 1] = U[n - 1]
      OBVIOUS
    <3>2. CASE n = m + 1
      BY <3>1, <3>2
    <3>3. CASE n # m + 1
      <4>1. n \in 1 .. m /\ V[n] = U[n]
        BY <3>3
      <4>. QED  BY <2>1, <3>1, <4>1
    <3>. QED  BY <3>2, <3>3
  <2>6. Run(m + 1, V)
    <3>. HIDE DEF V
    <3>. QED  BY <2>3, <2>4, <2>5
  <2>7. m + 1 \in 0 .. N
    OBVIOUS
  <2>. HIDE DEF Run, V
  <2>. QED  BY <2>6, <2>7
<1>3. N \in S
  <2>. HIDE DEF S
  <2>. QED  BY <1>1, <1>2, UpTo
<1>. QED  BY <1>3 DEF Runs

\* A run is determined by its start and its turn.
LEMMA RunUnique ==
    ASSUME NEW N \in Nat, NEW F, NEW U, NEW V, U[0] = V[0],
           \A n \in 1 .. N : U[n] = F[U[n - 1]] /\ V[n] = F[V[n - 1]]
    PROVE  \A n \in 0 .. N : U[n] = V[n]
<1>. DEFINE S == {m \in 0 .. N : U[m] = V[m]}
<1>1. 0 \in S
  OBVIOUS
<1>2. ASSUME NEW m \in 0 .. N - 1, m \in S
      PROVE  m + 1 \in S
  <2>1. m + 1 \in 1 .. N /\ m + 1 - 1 = m
    OBVIOUS
  <2>2. U[m + 1] = F[U[m]] /\ V[m + 1] = F[V[m]]
    BY <2>1
  <2>. QED  BY <1>2, <2>1, <2>2
<1>3. \A m \in 0 .. N : m \in S
  <2>. HIDE DEF S
  <2>. QED  BY <1>1, <1>2, UpTo
<1>. QED  BY <1>3
-----------------------------------------------------------------------------
(***************************************************************************)
(* Powers of two.                                                          *)
(***************************************************************************)
IsPow(P) == P = [n \in Nat |-> IF n = 0 THEN 1 ELSE 2 * P[n - 1]]

LEMMA PowExists == \E P : IsPow(P)
<1>. DEFINE F      == [x \in Nat |-> 2 * x]
            Run(m, U) == U \in [0 .. m -> Nat] /\ U[0] = 1 /\ \A n \in 1 .. m : U[n] = F[U[n - 1]]
            U(m)   == CHOOSE V : Run(m, V)
            P      == [n \in Nat |-> U(n)[n]]
<1>1. ASSUME NEW m \in Nat
      PROVE  Run(m, U(m))
  <2>1. 1 \in Nat /\ F \in [Nat -> Nat]
    OBVIOUS
  <2>2. \E V : Run(m, V)
    <3>1. Runs(m, Nat, 1, F)
      <4>. HIDE DEF F
      <4>. QED  BY <2>1, RunExists
    <3>. QED  BY <3>1 DEF Runs
  <2>. HIDE DEF Run
  <2>. QED  BY <2>2
<1>2. ASSUME NEW m \in Nat \ {0}
      PROVE  U(m)[m - 1] = U(m - 1)[m - 1]
  <2>1. m \in Nat /\ m - 1 \in Nat /\ Run(m, U(m)) /\ Run(m - 1, U(m - 1))
    <3>. HIDE DEF Run, U
    <3>. QED  BY <1>1
  <2>. DEFINE A == U(m)  B == U(m - 1)
  <2>2. /\ A[0] = B[0]
        /\ \A n \in 1 .. m - 1 : A[n] = F[A[n - 1]] /\ B[n] = F[B[n - 1]]
    <3>. HIDE DEF A, B, F
    <3>1. Run(m, A) /\ Run(m - 1, B)
      BY <2>1 DEF A, B
    <3>2. \A n \in 1 .. m - 1 : n \in 1 .. m
      OBVIOUS
    <3>. QED  BY <3>1, <3>2
  <2>3. \A n \in 0 .. m - 1 : A[n] = B[n]
    <3>1. m - 1 \in Nat /\ A[0] = B[0]
      BY <2>1, <2>2
    <3>. HIDE DEF A, B, F, Run
    <3>. QED  BY <2>2, <3>1, RunUnique
  <2>4. m - 1 \in 0 .. m - 1
    BY <2>1
  <2>. QED  BY <2>3, <2>4
<1>3. \A n \in Nat : P[n] = IF n = 0 THEN 1 ELSE 2 * P[n - 1]
  <2>. SUFFICES ASSUME NEW n \in Nat PROVE P[n] = IF n = 0 THEN 1 ELSE 2 * P[n - 1]
    OBVIOUS
  <2>1. Run(n, U(n))
    BY <1>1
  <2>2. CASE n = 0
    <3>. HIDE DEF U
    <3>. QED  BY <2>1, <2>2
  <2>3. CASE n # 0
    <3>1. n - 1 \in Nat /\ n \in 1 .. n /\ n - 1 \in 0 .. n
      BY <2>3
    <3>2. U(n)[n - 1] = U(n - 1)[n - 1]
      BY <1>2, <2>3
    <3>. HIDE DEF U
    <3>3. U(n)[n] = F[U(n)[n - 1]] /\ U(n)[n - 1] \in Nat
      <4>. HIDE DEF F
      <4>. QED  BY <2>1, <3>1
    <3>4. P[n] = U(n)[n] /\ P[n - 1] = U(n - 1)[n - 1]
      BY <3>1
    <3>. QED  BY <2>3, <3>2, <3>3, <3>4
  <2>. QED  BY <2>2, <2>3
<1>. HIDE DEF U
<1>4. P = [n \in Nat |-> IF n = 0 THEN 1 ELSE 2 * P[n - 1]]
  <2>. DEFINE Q == [n \in Nat |-> IF n = 0 THEN 1 ELSE 2 * P[n - 1]]
  <2>1. DOMAIN P = Nat /\ P = [n \in Nat |-> P[n]]
    OBVIOUS
  <2>2. \A n \in Nat : P[n] = Q[n]
    <3>. HIDE DEF P
    <3>. QED  BY <1>3
  <2>3. P = Q
    <3>. HIDE DEF Q
    <3>1. Q = [n \in Nat |-> Q[n]]
      BY DEF Q
    <3>. HIDE DEF P
    <3>. QED  BY <2>1, <2>2, <3>1
  <2>. QED  BY <2>3
<1>. QED  BY <1>4, Zenon DEF IsPow

LEMMA PowIs == IsPow(Pow2)
BY PowExists, Zenon DEF IsPow, Pow2

LEMMA PowNext ==
    /\ Pow2[0] = 1
    /\ \A n \in Nat : Pow2[n + 1] = 2 * Pow2[n]
<1>1. \A n \in Nat : Pow2[n] = IF n = 0 THEN 1 ELSE 2 * Pow2[n - 1]
  BY PowIs, Zenon DEF IsPow
<1>2. ASSUME NEW n \in Nat
      PROVE  Pow2[n + 1] = 2 * Pow2[n]
  <2>1. n + 1 \in Nat /\ n + 1 # 0 /\ n + 1 - 1 = n
    OBVIOUS
  <2>2. Pow2[n + 1] = 2 * Pow2[n + 1 - 1]
    BY <1>1, <2>1
  <2>. QED  BY <2>1, <2>2
<1>. QED  BY <1>1, <1>2

LEMMA PowNat == \A n \in Nat : Pow2[n] \in Nat \ {0}
<1>. SUFFICES ASSUME NEW n \in Nat PROVE Pow2[n] \in Nat \ {0}
  OBVIOUS
<1>. DEFINE S == {m \in 0 .. n : Pow2[m] \in Nat \ {0}}
<1>1. 0 \in S
  BY PowNext
<1>2. ASSUME NEW m \in 0 .. n - 1, m \in S
      PROVE  m + 1 \in S
  <2>1. m + 1 \in 0 .. n /\ Pow2[m + 1] = 2 * Pow2[m] /\ Pow2[m] \in Nat \ {0}
    BY <1>2, PowNext
  <2>. QED  BY <2>1
<1>3. \A m \in 0 .. n : m \in S
  <2>. HIDE DEF S
  <2>. QED  BY <1>1, <1>2, UpTo
<1>. QED  BY <1>3

LEMMA PowAdd ==
    ASSUME NEW m \in Nat, NEW n \in Nat
    PROVE  Pow2[m + n] = Pow2[m] * Pow2[n]
<1>. DEFINE S == {k \in 0 .. n : Pow2[m + k] = Pow2[m] * Pow2[k]}
<1>1. 0 \in S
  BY PowNext, PowNat
<1>2. ASSUME NEW k \in 0 .. n - 1, k \in S
      PROVE  k + 1 \in S
  <2>1. /\ Pow2[m + k] = Pow2[m] * Pow2[k]
        /\ Pow2[m + k + 1] = 2 * Pow2[m + k] /\ Pow2[k + 1] = 2 * Pow2[k]
    BY <1>2, PowNext
  <2>2. Pow2[m] \in Nat /\ Pow2[k] \in Nat
    BY PowNat
  <2>3. 2 * (Pow2[m] * Pow2[k]) = Pow2[m] * (2 * Pow2[k])
    BY <2>2
  <2>4. m + k + 1 = m + (k + 1)
    OBVIOUS
  <2>. QED  BY <2>1, <2>3, <2>4
<1>3. n \in S
  <2>. HIDE DEF S
  <2>. QED  BY <1>1, <1>2, UpTo
<1>. QED  BY <1>3

-----------------------------------------------------------------------------
(***************************************************************************)
(* Division, and the bits of a number.                                     *)
(***************************************************************************)
LEMMA DivType ==
    ASSUME NEW a \in Int, NEW b \in Nat, b > 0
    PROVE  a \div b \in Int /\ a % b \in 0 .. b - 1
OBVIOUS

LEMMA ModIs == ASSUME NEW a \in Int, NEW b \in Nat, b # 0 PROVE a % b = a - b * (a \div b)
OBVIOUS

LEMMA DivMod ==
    ASSUME NEW a \in Int, NEW b \in Nat \ {0}
    PROVE  \E q \in Int, r \in 0 .. b - 1 : q = a \div b /\ r = a % b /\ a = b * q + r
<1>1. b \in Nat /\ b > 0 /\ b # 0
  OBVIOUS
<1>2. PICK q \in Int, r \in 0 .. b - 1 : q = a \div b /\ r = a % b
  BY <1>1, DivType
<1>3. r = a - b * (a \div b)
  BY <1>1, <1>2, ModIs
<1>4. r = a - b * q
  BY <1>2, <1>3
<1>5. a = b * q + r
  BY <1>4
<1>. QED  BY <1>2, <1>5

LEMMA DivIs ==
    ASSUME NEW a \in Int, NEW b \in Nat \ {0}, NEW q \in Int, NEW r \in 0 .. b - 1, a = b * q + r
    PROVE  a \div b = q /\ a % b = r
<1>1. PICK d \in Int, m \in 0 .. b - 1 : d = a \div b /\ m = a % b /\ a = b * d + m
  BY DivMod
<1>2. b * (d - q) = r - m
  <2>1. b * (d - q) = b * d - b * q
    BY <1>1
  <2>. QED  BY <1>1, <2>1
<1>3. r - m < b /\ r - m > -b
  BY <1>1
<1>4. d = q
  <2>1. CASE d > q
    <3>1. b * (d - q) >= b * 1
      BY <1>1, <2>1
    <3>. QED  BY <1>1, <1>2, <1>3, <3>1
  <2>2. CASE d < q
    <3>1. b * (d - q) <= b * (-1)
      BY <1>1, <2>2
    <3>. QED  BY <1>1, <1>2, <1>3, <3>1
  <2>. QED  BY <1>1, <2>1, <2>2
<1>5. m = r
  BY <1>1, <1>4
<1>. QED  BY <1>1, <1>4, <1>5

LEMMA DivDiv ==
    ASSUME NEW a \in Int, NEW b \in Nat \ {0}, NEW c \in Nat \ {0}
    PROVE  (a \div b) \div c = a \div (b * c)
<1>1. PICK q \in Int, r \in 0 .. b - 1 : q = a \div b /\ a = b * q + r
  BY DivMod
<1>2. PICK p \in Int, s \in 0 .. c - 1 : p = q \div c /\ q = c * p + s
  BY DivMod
<1>. DEFINE e == b * c
            f == b * s + r
<1>3. e \in Nat \ {0}
  <2>1. b * c >= 1 * c /\ b * c \in Int
    OBVIOUS
  <2>. QED  BY <2>1
<1>4. f \in 0 .. e - 1
  <2>1. b * s \in Int /\ b * s >= 0
    OBVIOUS
  <2>2. b * s <= b * (c - 1)
    OBVIOUS
  <2>3. b * (c - 1) = b * c - b
    OBVIOUS
  <2>. QED  BY <1>3, <2>1, <2>2, <2>3
<1>5. b * q = e * p + b * s
  <2>1. b * (c * p + s) = b * (c * p) + b * s
    OBVIOUS
  <2>2. b * (c * p) = (b * c) * p
    OBVIOUS
  <2>. QED  BY <1>2, <2>1, <2>2
<1>6. b * q \in Int /\ e * p \in Int /\ b * s \in Int
  BY <1>3
<1>7. a = e * p + f
  <2>1. b * q + r = e * p + (b * s + r)
    <3>. HIDE DEF e, f
    <3>. QED  BY <1>5, <1>6
  <2>. QED  BY <1>1, <2>1
<1>8. a \div e = p
  <2>. HIDE DEF e, f
  <2>. QED  BY <1>3, <1>4, <1>7, DivIs
<1>. QED  BY <1>1, <1>2, <1>8

LEMMA BitType ==
    ASSUME NEW x \in Int, NEW k \in Nat
    PROVE  Bit(x, k) \in 0 .. 1
BY PowNat DEF Bit

\* The bits of x without its n lowest ones.
LEMMA BitShift ==
    ASSUME NEW x \in Int, NEW n \in Nat, NEW k \in Nat
    PROVE  Bit(x \div Pow2[n], k) = Bit(x, n + k)
<1>1. Pow2[n] \in Nat \ {0} /\ Pow2[k] \in Nat \ {0} /\ Pow2[n + k] = Pow2[n] * Pow2[k]
  BY PowNat, PowAdd
<1>. QED  BY <1>1, DivDiv DEF Bit

\* The n lowest bits of x.
LEMMA BitLow ==
    ASSUME NEW x \in Int, NEW n \in Nat, NEW k \in 0 .. n - 1
    PROVE  Bit(x % Pow2[n], k) = Bit(x, k)
<1>. DEFINE a == Pow2[k]
            c == Pow2[n - k - 1]
<1>1. a \in Nat \ {0} /\ c \in Nat \ {0} /\ Pow2[n] = a * (2 * c) /\ Pow2[n] \in Nat \ {0}
  <2>1. n - k - 1 \in Nat /\ k \in Nat /\ n - k \in Nat /\ n = k + (n - k) /\ n - k = n - k - 1 + 1
    OBVIOUS
  <2>2. Pow2[n - k] = 2 * c
    BY <2>1, PowNext
  <2>3. Pow2[n] = a * Pow2[n - k]
    BY <2>1, PowAdd
  <2>4. a \in Nat \ {0} /\ c \in Nat \ {0} /\ Pow2[n] \in Nat \ {0}
    BY <2>1, PowNat
  <2>. QED  BY <2>2, <2>3, <2>4
<1>2. PICK q \in Int, r \in 0 .. Pow2[n] - 1 : r = x % Pow2[n] /\ x = Pow2[n] * q + r
  BY <1>1, DivMod
<1>. HIDE DEF a
<1>3. PICK p \in Int, s \in 0 .. a - 1 : p = r \div a /\ r = a * p + s
  <2>1. r \in Int
    BY <1>1
  <2>. QED  BY <1>1, <2>1, DivMod
<1>. HIDE DEF c
<1>4. x = a * (2 * (c * q) + p) + s
  <2>1. (a * (2 * c)) * q = a * (2 * (c * q))
    BY <1>1, <1>2
  <2>2. a * (2 * (c * q) + p) = a * (2 * (c * q)) + a * p
    BY <1>1, <1>2, <1>3
  <2>. QED  BY <1>1, <1>2, <1>3, <2>1, <2>2
<1>5. c * q \in Int
  BY <1>1, <1>2
<1>6. x \div a = 2 * (c * q) + p
  <2>. DEFINE e == 2 * (c * q) + p
  <2>1. e \in Int
    BY <1>3, <1>5
  <2>. HIDE DEF e
  <2>2. a \in Nat \ {0} /\ x = a * e + s
    BY <1>1, <1>4 DEF e
  <2>3. x \div a = e
    BY <1>3, <2>1, <2>2, DivIs
  <2>. QED  BY <2>3 DEF e
<1>7. (2 * (c * q) + p) % 2 = p % 2
  BY <1>3, <1>5
<1>. QED  BY <1>2, <1>3, <1>6, <1>7 DEF Bit, a

\* A number put together of its upper and its n lowest bits.
LEMMA BitJoin ==
    ASSUME NEW q \in Int, NEW n \in Nat, NEW l \in 0 .. Pow2[n] - 1, NEW k \in Nat
    PROVE  Bit(Pow2[n] * q + l, k) = IF k < n THEN Bit(l, k) ELSE Bit(q, k - n)
<1>. DEFINE y == Pow2[n] * q + l
<1>1. Pow2[n] \in Nat \ {0}
  BY PowNat
<1>2. y \in Int
  BY <1>1
<1>3. y \div Pow2[n] = q /\ y % Pow2[n] = l
  BY <1>1, <1>2, DivIs
<1>. HIDE DEF y
<1>4. CASE k < n
  <2>1. k \in 0 .. n - 1
    BY <1>4
  <2>. QED  BY <1>2, <1>3, <1>4, <2>1, BitLow DEF y
<1>5. CASE ~(k < n)
  <2>1. k - n \in Nat /\ n + (k - n) = k
    BY <1>5
  <2>2. Bit(q, k - n) = Bit(y, n + (k - n))
    BY <1>2, <1>3, <2>1, BitShift
  <2>. QED  BY <1>5, <2>1, <2>2 DEF y
<1>. QED  BY <1>4, <1>5

LEMMA BitHigh ==
    ASSUME NEW n \in Nat, NEW x \in 0 .. Pow2[n] - 1, NEW k \in Nat, k >= n
    PROVE  Bit(x, k) = 0
<1>1. Pow2[n] \in Nat \ {0} /\ Pow2[k - n] \in Nat \ {0} /\ k - n \in Nat
  BY PowNat
<1>2. x = Pow2[n] * 0 + x
  BY <1>1
<1>3. Bit(x, k) = Bit(0, k - n)
  BY <1>1, <1>2, BitJoin
<1>4. 0 \div Pow2[k - n] = 0
  BY <1>1, DivIs
<1>. QED  BY <1>3, <1>4 DEF Bit

\* Numbers of n bits are equal if their bits are.
LEMMA BitsEqual ==
    ASSUME NEW n \in Nat, NEW x \in 0 .. Pow2[n] - 1, NEW y \in 0 .. Pow2[n] - 1,
           \A k \in 0 .. n - 1 : Bit(x, k) = Bit(y, k)
    PROVE  x = y
<1>. DEFINE S == {m \in 0 .. n : x \div Pow2[n - m] = y \div Pow2[n - m]}
<1>0. Pow2[n] \in Nat \ {0} /\ x \in Int /\ y \in Int
  BY PowNat
<1>1. 0 \in S
  <2>1. x \div Pow2[n] = 0 /\ y \div Pow2[n] = 0
    <3>1. x = Pow2[n] * 0 + x /\ y = Pow2[n] * 0 + y
      BY <1>0
    <3>. QED  BY <1>0, <3>1, DivIs
  <2>. QED  BY <2>1
<1>2. ASSUME NEW m \in 0 .. n - 1, m \in S
      PROVE  m + 1 \in S
  <2>. DEFINE k == n - (m + 1)
              a == Pow2[k]
  <2>1. k \in 0 .. n - 1 /\ n - m = k + 1 /\ m + 1 \in 0 .. n
    OBVIOUS
  <2>2. a \in Nat \ {0} /\ Pow2[k + 1] = a * 2
    <3>1. k \in Nat
      BY <2>1
    <3>. QED  BY <3>1, PowNat, PowNext
  <2>3. x \div Pow2[k + 1] = y \div Pow2[k + 1]
    BY <1>2, <2>1
  <2>4. (x \div a) \div 2 = (y \div a) \div 2
    BY <1>0, <2>2, <2>3, DivDiv
  <2>5. (x \div a) % 2 = (y \div a) % 2
    BY <2>1 DEF Bit
  <2>6. x \div a \in Int /\ y \div a \in Int
    BY <1>0, <2>2
  <2>. HIDE DEF k, a
  <2>7. x \div a = y \div a
    BY <2>4, <2>5, <2>6
  <2>. QED  BY <2>1, <2>7 DEF k, a
<1>3. \A m \in 0 .. n : m \in S
  <2>. HIDE DEF S
  <2>. QED  BY <1>1, <1>2, UpTo
<1>4. x \div 1 = y \div 1
  <2>1. n \in S /\ n - n = 0
    BY <1>3
  <2>. QED  BY <2>1, PowNext
<1>. QED  BY <1>0, <1>4

-----------------------------------------------------------------------------
(***************************************************************************)
(* One byte: what WithField stores, and what Field reads.                  *)
(***************************************************************************)
LEMMA PowByte == Pow2[8] = 256
<1>1. Pow2[1] = 2 /\ Pow2[2] = 4 /\ Pow2[3] = 8
  <2>1. Pow2[0 + 1] = 2 * Pow2[0] /\ Pow2[1 + 1] = 2 * Pow2[1] /\ Pow2[2 + 1] = 2 * Pow2[2] /\ Pow2[0] = 1
    BY PowNext
  <2>. QED  BY <2>1
<1>2. Pow2[4] = 16 /\ Pow2[5] = 32 /\ Pow2[6] = 64
  <2>1. Pow2[3 + 1] = 2 * Pow2[3] /\ Pow2[4 + 1] = 2 * Pow2[4] /\ Pow2[5 + 1] = 2 * Pow2[5]
    BY PowNext
  <2>. QED  BY <1>1, <2>1
<1>3. Pow2[6 + 1] = 2 * Pow2[6] /\ Pow2[7 + 1] = 2 * Pow2[7]
  BY PowNext
<1>. QED  BY <1>2, <1>3

LEMMA FieldType ==
    ASSUME NEW x \in Int, NEW shift \in Nat, NEW size \in Nat
    PROVE  Field(x, shift, size) \in 0 .. Pow2[size] - 1
<1>1. Pow2[shift] \in Nat \ {0} /\ Pow2[size] \in Nat \ {0}
  BY PowNat
<1>2. x \div Pow2[shift] \in Int
  BY <1>1, DivType
<1>. QED  BY <1>1, <1>2, DivType DEF Field

LEMMA FieldBits ==
    ASSUME NEW x \in Int, NEW shift \in Nat, NEW size \in Nat, NEW k \in 0 .. size - 1
    PROVE  Bit(Field(x, shift, size), k) = Bit(x, shift + k)
<1>1. Pow2[shift] \in Nat \ {0}
  BY PowNat
<1>2. x \div Pow2[shift] \in Int /\ k \in Nat
  BY <1>1, DivType
<1>3. Bit((x \div Pow2[shift]) % Pow2[size], k) = Bit(x \div Pow2[shift], k)
  BY <1>2, BitLow
<1>. QED  BY <1>2, <1>3, BitShift DEF Field

\* x is l, then the field f, then h; y has g for f.
Replaced(A, C, x, y, g, h, f, l) == x = A * (C * h + f) + l /\ y = A * (C * h + g) + l

LEMMA WithFieldParts ==
    ASSUME NEW x \in Int, NEW shift \in Nat, NEW size \in Nat, NEW v \in Int
    PROVE  \E h \in Int, f \in 0 .. Pow2[size] - 1, l \in 0 .. Pow2[shift] - 1 :
              Replaced(Pow2[shift], Pow2[size], x, WithField(x, shift, size, v), v % Pow2[size], h, f, l)
<1>. DEFINE A == Pow2[shift]
            C == Pow2[size]
            g == v % C
<1>1. A \in Nat \ {0} /\ C \in Nat \ {0}
  BY PowNat
<1>. HIDE DEF A, C
<1>2. PICK q \in Int, l \in 0 .. A - 1 : q = x \div A /\ x = A * q + l
  BY <1>1, DivMod
<1>3. PICK h \in Int, f \in 0 .. C - 1 : h = q \div C /\ f = q % C /\ q = C * h + f
  BY <1>1, DivMod
<1>4. f = Field(x, shift, size)
  BY <1>2, <1>3 DEF Field, A, C
<1>5. WithField(x, shift, size, v) = x + (g - f) * A
  BY <1>4 DEF WithField, A, C
<1>6. g \in Int /\ f \in Int /\ l \in Int
  BY <1>1, DivType
<1>. HIDE DEF g
<1>7. C * h \in Int
  BY <1>1
<1>8. x + (g - f) * A = A * (C * h + g) + l
  <2>. DEFINE e == C * h
  <2>1. e \in Int /\ x = A * (e + f) + l
    BY <1>2, <1>3, <1>7
  <2>. HIDE DEF e
  <2>2. A * (e + f) = A * e + A * f /\ A * (e + g) = A * e + A * g /\ (g - f) * A = A * g - A * f
    BY <1>1, <1>6, <2>1
  <2>3. A * e \in Int /\ A * f \in Int /\ A * g \in Int
    BY <1>1, <1>6, <2>1
  <2>4. x + (g - f) * A = A * (e + g) + l
    BY <1>6, <2>1, <2>2, <2>3
  <2>. QED  BY <2>4 DEF e
<1>9. x = A * (C * h + f) + l
  BY <1>2, <1>3
<1>10. Replaced(A, C, x, WithField(x, shift, size, v), g, h, f, l)
  BY <1>5, <1>8, <1>9, Zenon DEF Replaced
<1>. QED  BY <1>10 DEF A, C, g

\* A field that lies in a byte leaves it a byte.
LEMMA WithFieldByte ==
    ASSUME NEW b \in 0 .. 255, NEW shift \in Nat, NEW size \in Nat, shift + size <= 8, NEW v \in Int
    PROVE  WithField(b, shift, size, v) \in 0 .. 255
<1>. DEFINE A == Pow2[shift]
            C == Pow2[size]
            D == Pow2[8 - (shift + size)]
            g == v % C
<1>1. A \in Nat \ {0} /\ C \in Nat \ {0} /\ D \in Nat \ {0} /\ A * (C * D) = 256
  <2>1. shift + size \in Nat /\ 8 - (shift + size) \in Nat /\ shift + size + (8 - (shift + size)) = 8
    OBVIOUS
  <2>2. A \in Nat \ {0} /\ C \in Nat \ {0} /\ D \in Nat \ {0}
    BY <2>1, PowNat
  <2>3. Pow2[shift + size] = A * C /\ Pow2[8] = Pow2[shift + size] * D
    BY <2>1, PowAdd
  <2>. HIDE DEF A, C, D
  <2>4. (A * C) * D = A * (C * D)
    BY <2>2
  <2>. QED  BY <2>2, <2>3, <2>4, PowByte
<1>2. PICK h \in Int, f \in 0 .. C - 1, l \in 0 .. A - 1 :
         /\ b = A * (C * h + f) + l
         /\ WithField(b, shift, size, v) = A * (C * h + g) + l
  <2>0. b \in Int
    OBVIOUS
  <2>1. PICK h \in Int, f \in 0 .. C - 1, l \in 0 .. A - 1 :
           Replaced(A, C, b, WithField(b, shift, size, v), g, h, f, l)
    BY <2>0, WithFieldParts
  <2>. HIDE DEF A, C, g
  <2>. QED  BY <2>1, Zenon DEF Replaced
<1>3. g \in 0 .. C - 1
  <2>. HIDE DEF C
  <2>. QED  BY <1>1, DivType
<1>. HIDE DEF A, C, D, g
<1>4. \A y \in 0 .. C - 1 : A * (C * h + y) = A * (C * h) + A * y /\ A * y \in 0 .. A * (C - 1)
  <2>. SUFFICES ASSUME NEW y \in 0 .. C - 1
                PROVE  A * (C * h + y) = A * (C * h) + A * y /\ A * y \in 0 .. A * (C - 1)
    OBVIOUS
  <2>1. C * h \in Int /\ A * y \in Int /\ A * (C - 1) \in Int
    BY <1>1
  <2>2. A * (C * h + y) = A * (C * h) + A * y
    BY <1>1, <2>1
  <2>3. A * y >= 0 /\ A * y <= A * (C - 1)
    BY <1>1
  <2>. QED  BY <2>1, <2>2, <2>3
<1>5. A * (C - 1) = A * C - A /\ A * C \in Nat \ {0}
  BY <1>1
<1>6. A * (C * h) = (A * C) * h /\ (A * C) * D = A * (C * D)
  BY <1>1
<1>. DEFINE P == A * C
<1>7. P \in Nat \ {0} /\ P * D = 256
  BY <1>1, <1>5, <1>6
<1>8. /\ b = P * h + A * f + l /\ A * f \in 0 .. P - A
      /\ WithField(b, shift, size, v) = P * h + A * g + l /\ A * g \in 0 .. P - A
  BY <1>2, <1>3, <1>4, <1>5, <1>6
<1>. HIDE DEF P
<1>9. P * h \in Int /\ P * h + P > 0 /\ P * h <= 255
  <2>1. P * h \in Int
    BY <1>7
  <2>. QED  BY <1>1, <1>7, <1>8, <2>1
<1>10. h >= 0 /\ h <= D - 1
  <2>1. CASE h < 0
    <3>1. P * h <= P * (-1)
      BY <1>7, <2>1
    <3>. QED  BY <1>7, <1>9, <3>1
  <2>2. CASE h >= D
    <3>1. P * h >= P * D
      BY <1>1, <1>7, <2>2
    <3>. QED  BY <1>7, <1>9, <3>1
  <2>. QED  BY <1>1, <2>1, <2>2
<1>11. P * h >= 0 /\ P * h <= P * (D - 1) /\ P * (D - 1) = P * D - P
  BY <1>1, <1>7, <1>10
<1>. DEFINE Q == P * h
            Y == A * g
<1>12. Q \in Int /\ Y \in 0 .. P - A /\ Q >= 0 /\ Q <= 256 - P /\ WithField(b, shift, size, v) = Q + Y + l
  BY <1>7, <1>8, <1>9, <1>11
<1>. HIDE DEF Q, Y
<1>. QED  BY <1>1, <1>7, <1>12

LEMMA WithFieldBits ==
    ASSUME NEW x \in Int, NEW shift \in Int, NEW size \in Int, NEW v \in Int, NEW p \in Int,
           shift >= 0, size >= 0, p >= 0
    PROVE  /\ shift <= p /\ p < shift + size => Bit(WithField(x, shift, size, v), p) = Bit(v, p - shift)
           /\ p < shift \/ shift + size <= p => Bit(WithField(x, shift, size, v), p) = Bit(x, p)
<1>0. shift \in Nat /\ size \in Nat /\ p \in Nat
  OBVIOUS
<1>. DEFINE A == Pow2[shift]
            C == Pow2[size]
            g == v % C
<1>1. A \in Nat \ {0} /\ C \in Nat \ {0}
  BY <1>0, PowNat
<1>2. PICK h \in Int, f \in 0 .. C - 1, l \in 0 .. A - 1 :
         /\ x = A * (C * h + f) + l
         /\ WithField(x, shift, size, v) = A * (C * h + g) + l
  <2>1. PICK h \in Int, f \in 0 .. C - 1, l \in 0 .. A - 1 :
           Replaced(A, C, x, WithField(x, shift, size, v), g, h, f, l)
    BY <1>0, WithFieldParts
  <2>. HIDE DEF A, C, g
  <2>. QED  BY <2>1, Zenon DEF Replaced
<1>. HIDE DEF A, C
<1>3. g \in 0 .. C - 1
  BY <1>1, DivType
<1>4. \A y \in 0 .. C - 1 : C * h + y \in Int
  BY <1>1
<1>5. \A y \in 0 .. C - 1 : Bit(A * (C * h + y) + l, p) = IF p < shift THEN Bit(l, p) ELSE Bit(C * h + y, p - shift)
  BY <1>0, <1>4, BitJoin DEF A
<1>6. CASE p < shift
  BY <1>2, <1>3, <1>5, <1>6
<1>7. CASE p >= shift
  <2>1. p - shift \in Nat
    BY <1>7
  <2>2. \A y \in 0 .. C - 1 : Bit(C * h + y, p - shift) = IF p - shift < size THEN Bit(y, p - shift) ELSE Bit(h, p - shift - size)
    BY <1>0, <2>1, BitJoin DEF C
  <2>3. CASE p < shift + size
    <3>1. p - shift < size /\ ~(p < shift) /\ p - shift \in 0 .. size - 1
      BY <1>7, <2>3
    <3>2. Bit(g, p - shift) = Bit(v, p - shift)
      BY <1>0, <3>1, BitLow DEF g, C
    <3>. HIDE DEF g
    <3>3. Bit(WithField(x, shift, size, v), p) = Bit(g, p - shift)
      BY <1>2, <1>3, <1>5, <2>2, <3>1
    <3>. QED  BY <1>7, <2>3, <3>2, <3>3
  <2>4. CASE ~(p < shift + size)
    <3>1. ~(p - shift < size) /\ ~(p < shift)
      BY <1>7, <2>4
    <3>. HIDE DEF g
    <3>2. Bit(WithField(x, shift, size, v), p) = Bit(h, p - shift - size) /\ Bit(x, p) = Bit(h, p - shift - size)
      BY <1>2, <1>3, <1>5, <2>2, <3>1
    <3>. QED  BY <2>4, <3>2
  <2>. QED  BY <2>3, <2>4
<1>. QED  BY <1>6, <1>7

-----------------------------------------------------------------------------
(***************************************************************************)
(* The loops run: their recursive functions exist.                         *)
(***************************************************************************)
SetNext(d, s, t) == IF InFrame(d, t) THEN SetTurn(s, t) ELSE t
GetNext(d, s, t) == IF InFrame(d, t) THEN GetTurn(d, s, t) ELSE t

SetRun(d, s, start, N, U) == U = [n \in 0 .. N |-> IF n = 0 THEN start ELSE SetNext(d, s, U[n - 1])]
GetRun(d, s, start, N, U) == U = [n \in 0 .. N |-> IF n = 0 THEN start ELSE GetNext(d, s, U[n - 1])]

LEMMA SetRunExists ==
    ASSUME NEW d, NEW s, NEW start, NEW N \in Nat
    PROVE  \E U : SetRun(d, s, start, N, U)
<1>. DEFINE S == {m \in 0 .. N : \E U : SetRun(d, s, start, m, U)}
<1>1. 0 \in S
  <2>. DEFINE U == [n \in 0 .. 0 |-> start]
              W == [n \in 0 .. 0 |-> IF n = 0 THEN start ELSE SetNext(d, s, U[n - 1])]
  <2>1. \A n \in 0 .. 0 : U[n] = W[n]
    OBVIOUS
  <2>2. U = W
    <3>1. U = [n \in 0 .. 0 |-> U[n]]
      OBVIOUS
    <3>2. W = [n \in 0 .. 0 |-> W[n]]
      <4>. HIDE DEF U
      <4>. QED  OBVIOUS
    <3>. HIDE DEF U, W
    <3>. QED  BY <2>1, <3>1, <3>2
  <2>3. SetRun(d, s, start, 0, U)
    BY <2>2, Zenon DEF SetRun
  <2>. QED  BY <2>3
<1>2. ASSUME NEW m \in 0 .. N - 1, m \in S
      PROVE  m + 1 \in S
  <2>1. PICK U : SetRun(d, s, start, m, U)
    BY <1>2
  <2>. DEFINE V == [n \in 0 .. m + 1 |-> IF n = m + 1 THEN SetNext(d, s, U[m]) ELSE U[n]]
              W == [n \in 0 .. m + 1 |-> IF n = 0 THEN start ELSE SetNext(d, s, V[n - 1])]
  <2>2. \A n \in 0 .. m : U[n] = IF n = 0 THEN start ELSE SetNext(d, s, U[n - 1])
    BY <2>1, Zenon DEF SetRun
  <2>3. ASSUME NEW n \in 0 .. m + 1
        PROVE  V[n] = W[n]
    <3>1. V[n] = (IF n = m + 1 THEN SetNext(d, s, U[m]) ELSE U[n])
      BY Zenon
    <3>2. W[n] = IF n = 0 THEN start ELSE SetNext(d, s, V[n - 1])
      BY Zenon
    <3>3. n # 0 => n - 1 \in 0 .. m + 1 /\ n - 1 # m + 1
      OBVIOUS
    <3>4. n # 0 => V[n - 1] = U[n - 1]
      BY <3>3
    <3>5. (n # m + 1 => n \in 0 .. m) /\ (n = m + 1 => n # 0 /\ n - 1 = m)
      OBVIOUS
    <3>. HIDE DEF V, W
    <3>. QED  BY <2>2, <3>1, <3>2, <3>4, <3>5
  <2>4. V = W
    <3>1. V = [n \in 0 .. m + 1 |-> V[n]]
      OBVIOUS
    <3>2. W = [n \in 0 .. m + 1 |-> W[n]]
      <4>. HIDE DEF V
      <4>. QED  OBVIOUS
    <3>. HIDE DEF V, W
    <3>. QED  BY <2>3, <3>1, <3>2
  <2>5. SetRun(d, s, start, m + 1, V)
    BY <2>4, Zenon DEF SetRun
  <2>6. m + 1 \in 0 .. N
    OBVIOUS
  <2>. QED  BY <2>5, <2>6
<1>3. N \in S
  <2>. HIDE DEF S
  <2>. QED  BY <1>1, <1>2, UpTo
<1>. QED  BY <1>3

LEMMA GetRunExists ==
    ASSUME NEW d, NEW s, NEW start, NEW N \in Nat
    PROVE  \E U : GetRun(d, s, start, N, U)
<1>. DEFINE S == {m \in 0 .. N : \E U : GetRun(d, s, start, m, U)}
<1>1. 0 \in S
  <2>. DEFINE U == [n \in 0 .. 0 |-> start]
              W == [n \in 0 .. 0 |-> IF n = 0 THEN start ELSE GetNext(d, s, U[n - 1])]
  <2>1. \A n \in 0 .. 0 : U[n] = W[n]
    OBVIOUS
  <2>2. U = W
    <3>1. U = [n \in 0 .. 0 |-> U[n]]
      OBVIOUS
    <3>2. W = [n \in 0 .. 0 |-> W[n]]
      <4>. HIDE DEF U
      <4>. QED  OBVIOUS
    <3>. HIDE DEF U, W
    <3>. QED  BY <2>1, <3>1, <3>2
  <2>3. GetRun(d, s, start, 0, U)
    BY <2>2, Zenon DEF GetRun
  <2>. QED  BY <2>3
<1>2. ASSUME NEW m \in 0 .. N - 1, m \in S
      PROVE  m + 1 \in S
  <2>1. PICK U : GetRun(d, s, start, m, U)
    BY <1>2
  <2>. DEFINE V == [n \in 0 .. m + 1 |-> IF n = m + 1 THEN GetNext(d, s, U[m]) ELSE U[n]]
              W == [n \in 0 .. m + 1 |-> IF n = 0 THEN start ELSE GetNext(d, s, V[n - 1])]
  <2>2. \A n \in 0 .. m : U[n] = IF n = 0 THEN start ELSE GetNext(d, s, U[n - 1])
    BY <2>1, Zenon DEF GetRun
  <2>3. ASSUME NEW n \in 0 .. m + 1
        PROVE  V[n] = W[n]
    <3>1. V[n] = (IF n = m + 1 THEN GetNext(d, s, U[m]) ELSE U[n])
      BY Zenon
    <3>2. W[n] = IF n = 0 THEN start ELSE GetNext(d, s, V[n - 1])
      BY Zenon
    <3>3. n # 0 => n - 1 \in 0 .. m + 1 /\ n - 1 # m + 1
      OBVIOUS
    <3>4. n # 0 => V[n - 1] = U[n - 1]
      BY <3>3
    <3>5. (n # m + 1 => n \in 0 .. m) /\ (n = m + 1 => n # 0 /\ n - 1 = m)
      OBVIOUS
    <3>. HIDE DEF V, W
    <3>. QED  BY <2>2, <3>1, <3>2, <3>4, <3>5
  <2>4. V = W
    <3>1. V = [n \in 0 .. m + 1 |-> V[n]]
      OBVIOUS
    <3>2. W = [n \in 0 .. m + 1 |-> W[n]]
      <4>. HIDE DEF V
      <4>. QED  OBVIOUS
    <3>. HIDE DEF V, W
    <3>. QED  BY <2>3, <3>1, <3>2
  <2>5. GetRun(d, s, start, m + 1, V)
    BY <2>4, Zenon DEF GetRun
  <2>6. m + 1 \in 0 .. N
    OBVIOUS
  <2>. QED  BY <2>5, <2>6
<1>3. N \in S
  <2>. HIDE DEF S
  <2>. QED  BY <1>1, <1>2, UpTo
<1>. QED  BY <1>3

\* set_value goes from turn to turn.
LEMMA SetTurnsRun ==
    ASSUME NEW d, NEW s, NEW start, Len(d) \in Nat
    PROVE  \E U : /\ U[0] = start
                  /\ \A n \in 1 .. Len(d) : U[n] = SetNext(d, s, U[n - 1])
                  /\ SetTurns(d, s, start) = U[Len(d)]
<1>. DEFINE U == CHOOSE V : V = [n \in 0 .. Len(d) |->
                     IF n = 0 THEN start
                     ELSE IF InFrame(d, V[n - 1]) THEN SetTurn(s, V[n - 1]) ELSE V[n - 1]]
<1>1. \E V : V = [n \in 0 .. Len(d) |->
                     IF n = 0 THEN start
                     ELSE IF InFrame(d, V[n - 1]) THEN SetTurn(s, V[n - 1]) ELSE V[n - 1]]
  <2>1. PICK V : SetRun(d, s, start, Len(d), V)
    BY SetRunExists
  <2>2. V = [n \in 0 .. Len(d) |->
                IF n = 0 THEN start
                ELSE IF InFrame(d, V[n - 1]) THEN SetTurn(s, V[n - 1]) ELSE V[n - 1]]
    BY <2>1, Zenon DEF SetRun, SetNext
  <2>. QED  BY <2>2, Zenon
<1>2. U = [n \in 0 .. Len(d) |->
              IF n = 0 THEN start
              ELSE IF InFrame(d, U[n - 1]) THEN SetTurn(s, U[n - 1]) ELSE U[n - 1]]
  BY <1>1, Zenon
<1>3. SetTurns(d, s, start) = U[Len(d)]
  BY Zenon DEF SetTurns
<1>. HIDE DEF U
<1>4. \A n \in 0 .. Len(d) :
         U[n] = IF n = 0 THEN start
                ELSE IF InFrame(d, U[n - 1]) THEN SetTurn(s, U[n - 1]) ELSE U[n - 1]
  BY <1>2, Zenon
<1>5. 0 \in 0 .. Len(d) /\ \A n \in 1 .. Len(d) : n \in 0 .. Len(d) /\ n # 0
  OBVIOUS
<1>6. \A n \in 1 .. Len(d) : U[n] = SetNext(d, s, U[n - 1])
  BY <1>4, <1>5, Zenon DEF SetNext
<1>7. U[0] = start
  BY <1>4, <1>5, Zenon
<1>. QED  BY <1>3, <1>6, <1>7, Zenon

\* get_raw_value goes from turn to turn.
LEMMA GetTurnsRun ==
    ASSUME NEW d, NEW s, NEW start, Len(d) \in Nat
    PROVE  \E U : /\ U[0] = start
                  /\ \A n \in 1 .. Len(d) : U[n] = GetNext(d, s, U[n - 1])
                  /\ GetTurns(d, s, start) = U[Len(d)]
<1>. DEFINE U == CHOOSE V : V = [n \in 0 .. Len(d) |->
                     IF n = 0 THEN start
                     ELSE IF InFrame(d, V[n - 1]) THEN GetTurn(d, s, V[n - 1]) ELSE V[n - 1]]
<1>1. \E V : V = [n \in 0 .. Len(d) |->
                     IF n = 0 THEN start
                     ELSE IF InFrame(d, V[n - 1]) THEN GetTurn(d, s, V[n - 1]) ELSE V[n - 1]]
  <2>1. PICK V : GetRun(d, s, start, Len(d), V)
    BY GetRunExists
  <2>2. V = [n \in 0 .. Len(d) |->
                IF n = 0 THEN start
                ELSE IF InFrame(d, V[n - 1]) THEN GetTurn(d, s, V[n - 1]) ELSE V[n - 1]]
    BY <2>1, Zenon DEF GetRun, GetNext
  <2>. QED  BY <2>2, Zenon
<1>2. U = [n \in 0 .. Len(d) |->
              IF n = 0 THEN start
              ELSE IF InFrame(d, U[n - 1]) THEN GetTurn(d, s, U[n - 1]) ELSE U[n - 1]]
  BY <1>1, Zenon
<1>3. GetTurns(d, s, start) = U[Len(d)]
  BY Zenon DEF GetTurns
<1>. HIDE DEF U
<1>4. \A n \in 0 .. Len(d) :
         U[n] = IF n = 0 THEN start
                ELSE IF InFrame(d, U[n - 1]) THEN GetTurn(d, s, U[n - 1]) ELSE U[n - 1]
  BY <1>2, Zenon
<1>5. 0 \in 0 .. Len(d) /\ \A n \in 1 .. Len(d) : n \in 0 .. Len(d) /\ n # 0
  OBVIOUS
<1>6. \A n \in 1 .. Len(d) : U[n] = GetNext(d, s, U[n - 1])
  BY <1>4, <1>5, Zenon DEF GetNext
<1>7. U[0] = start
  BY <1>4, <1>5, Zenon
<1>. QED  BY <1>3, <1>6, <1>7, Zenon

-----------------------------------------------------------------------------
(***************************************************************************)
(* Where a signal lies: Pos in bytes and in bits of a byte.                *)
(***************************************************************************)
LEMMA ByteParts ==
    ASSUME NEW s, IsSignal(s)
    PROVE  /\ ByteOf(s.lsb) \in Nat /\ FirstBit(s) \in 0 .. 7
           /\ \A m \in Int : Byte(s, m) \in Int
           /\ Byte(s, 0) = ByteOf(s.lsb)
           /\ \A m, n \in Int : Byte(s, m) = Byte(s, n) => m = n
BY DEF IsSignal, FirstBit, Byte, ByteOf

LEMMA PosIs ==
    ASSUME NEW s, NEW k \in Int, NEW m \in Int, NEW r \in Int,
           IsSignal(s), k >= 0, r >= 0, r <= 7, FirstBit(s) + k = 8 * m + r
    PROVE  /\ Pos(s, k) = 8 * Byte(s, m) + r
           /\ Pos(s, k) \div 8 = Byte(s, m) /\ Pos(s, k) % 8 = r
<1>1. FirstBit(s) \in Int /\ Byte(s, m) \in Int
  BY ByteParts
<1>2. (FirstBit(s) + k) \div 8 = m /\ (FirstBit(s) + k) % 8 = r
  BY <1>1
<1>3. Pos(s, k) = 8 * Byte(s, m) + r
  <2>. DEFINE j == (FirstBit(s) + k) \div 8
              q == (FirstBit(s) + k) % 8
  <2>1. Pos(s, k) = 8 * Byte(s, j) + q
    BY DEF Pos
  <2>2. j = m /\ q = r
    BY <1>2
  <2>. HIDE DEF j, q
  <2>. QED  BY <2>1, <2>2, Zenon
<1>. QED  BY <1>1, <1>3

\* Every bit of a signal is in some byte.
LEMMA PosSplit ==
    ASSUME NEW s, IsSignal(s), NEW k \in Nat
    PROVE  \E m \in Nat, r \in 0 .. 7 : FirstBit(s) + k = 8 * m + r
<1>1. FirstBit(s) \in Nat
  BY ByteParts
<1>. DEFINE x == FirstBit(s) + k
<1>2. x \in Nat
  BY <1>1
<1>. HIDE DEF x
<1>3. PICK m \in Int, r \in 0 .. 7 : x = 8 * m + r
  <2>. DEFINE b == 8
  <2>1. b \in Nat \ {0}
    OBVIOUS
  <2>. HIDE DEF b
  <2>2. PICK m \in Int, r \in 0 .. b - 1 : m = x \div b /\ r = x % b /\ x = b * m + r
    <3>1. x \in Int
      BY <1>2
    <3>. QED  BY <3>1, <2>1, DivMod, Zenon
  <2>. QED  BY <2>2 DEF b
<1>4. m \in Nat
  BY <1>2, <1>3
<1>. QED  BY <1>3, <1>4 DEF x

LEMMA BitOfIs ==
    ASSUME NEW d, NEW p \in Int
    PROVE  BitOf(d, p) = Bit(d[p \div 8 + 1], p % 8)
BY DEF BitOf, Bit
-----------------------------------------------------------------------------
(***************************************************************************)
(* set_value.  After its turns m bytes are visited and the w lowest bits   *)
(* of the value are written.                                               *)
(***************************************************************************)
\* A frame of L bytes.
IsBytes(d, L) == d \in Seq(0 .. 255) /\ Len(d) = L

Reached(s, m, w) ==
    /\ m = 0 => w = 0
    /\ w > 0 => 8 * (m - 1) < FirstBit(s) + w /\ FirstBit(s) + w <= 8 * m
    /\ m > 0 /\ w < s.size => FirstBit(s) + w = 8 * m

Visited(s, m, L) == \A j \in 0 .. m - 1 : Byte(s, j) >= 0 /\ Byte(s, j) < L

WrittenBits(d, s, v, w, e, L) ==
    /\ \A k \in 0 .. w - 1 : Pos(s, k) < 8 * L /\ BitOf(e, Pos(s, k)) = Bit(v, k)
    /\ \A p \in 0 .. 8 * L - 1 :
          (\A k \in 0 .. w - 1 : p # Pos(s, k)) => BitOf(e, p) = BitOf(d, p)

SetInv(d, L, s, v, m, w, t) ==
    /\ t.i = Byte(s, m)
    /\ t.bits = s.size - w
    /\ t.ival = v \div Pow2[w]
    /\ IsBytes(t.dat, L)
    /\ Reached(s, m, w)
    /\ Visited(s, m, L)
    /\ WrittenBits(d, s, v, w, t.dat, L)

LEMMA SetInvStart ==
    ASSUME NEW L \in Nat, NEW d, IsBytes(d, L), NEW s, IsSignal(s), NEW v \in Int
    PROVE  SetInv(d, L, s, v, 0, 0, [dat |-> d, i |-> ByteOf(s.lsb), bits |-> s.size, ival |-> v])
<1>. DEFINE t == [dat |-> d, i |-> ByteOf(s.lsb), bits |-> s.size, ival |-> v]
<1>1. t.dat = d /\ t.i = ByteOf(s.lsb) /\ t.bits = s.size /\ t.ival = v
  OBVIOUS
<1>. HIDE DEF t
<1>2. s.size \in Int /\ s.size - 0 = s.size /\ FirstBit(s) \in Int
  BY ByteParts DEF IsSignal
<1>3. v \div Pow2[0] = v
  BY PowNext
<1>4. Reached(s, 0, 0) /\ Visited(s, 0, L) /\ WrittenBits(d, s, v, 0, d, L)
  BY DEF Reached, Visited, WrittenBits
<1>. QED  BY <1>1, <1>2, <1>3, <1>4, ByteParts DEF SetInv, t

LEMMA BitSplit ==
    ASSUME NEW n \in Nat, NEW p \in 0 .. 8 * n - 1
    PROVE  \E j \in 0 .. n - 1, r \in 0 .. 7 : p = 8 * j + r
<1>1. PICK j \in Int, r \in 0 .. 7 : p = 8 * j + r
  <2>1. p \div 8 \in Int /\ p % 8 \in 0 .. 7 /\ p % 8 = p - 8 * (p \div 8)
    <3>1. p \in Int /\ 8 \in Nat /\ 8 > 0
      OBVIOUS
    <3>. QED  BY <3>1
  <2>. QED  BY <2>1
<1>2. j \in 0 .. n - 1
  BY <1>1
<1>. QED  BY <1>1, <1>2

LEMMA ElementIs == ASSUME NEW S, NEW e \in Seq(S), NEW i \in 1 .. Len(e) PROVE e[i] \in S
OBVIOUS

LEMMA ExceptIs ==
    ASSUME NEW S, NEW e \in Seq(S), NEW i \in 1 .. Len(e), NEW x \in S
    PROVE  /\ [e EXCEPT ![i] = x] \in Seq(S) /\ Len([e EXCEPT ![i] = x]) = Len(e)
           /\ [e EXCEPT ![i] = x][i] = x
           /\ \A j \in 1 .. Len(e) : j # i => [e EXCEPT ![i] = x][j] = e[j]
OBVIOUS

LEMMA ByteInt == 0 .. 255 \subseteq Int
OBVIOUS

\* A field is stored in byte i of a frame.
Stored(e, i, sh, sz, y) == [e EXCEPT ![i + 1] = WithField(@, sh, sz, y)]

LEMMA ByteSet ==
    ASSUME NEW e, NEW L \in Int, NEW i \in Int, NEW y \in Int, NEW sh \in Int, NEW sz \in Int,
           IsBytes(e, L), 0 <= i, i < L, sh >= 0, sz >= 0, sh + sz <= 8
    PROVE  /\ IsBytes(Stored(e, i, sh, sz, y), L)
           /\ \A p \in Int : 0 <= p /\ p < 8 * L =>
                 /\ p \div 8 = i /\ sh <= p % 8 /\ p % 8 < sh + sz => BitOf(Stored(e, i, sh, sz, y), p) = Bit(y, (p % 8) - sh)
                 /\ p \div 8 # i \/ p % 8 < sh \/ sh + sz <= p % 8 => BitOf(Stored(e, i, sh, sz, y), p) = BitOf(e, p)
<1>1. e \in Seq(0 .. 255) /\ L \in Nat /\ Len(e) = L
  BY DEF IsBytes
<1>2. i + 1 \in 1 .. L
  BY <1>1
<1>3. PICK b \in Int : b = e[i + 1] /\ b \in 0 .. 255
  BY <1>1, <1>2, ElementIs, ByteInt, Zenon
<1>. DEFINE f == Stored(e, i, sh, sz, y)
            g == WithField(b, sh, sz, y)
<1>5. g \in 0 .. 255
  <2>1. sh \in Nat /\ sz \in Nat
    OBVIOUS
  <2>. QED  BY <1>3, <2>1, WithFieldByte
<1>6. f = [e EXCEPT ![i + 1] = g]
  BY <1>3, Zenon DEF Stored
<1>. HIDE DEF f, g
<1>7. f \in Seq(0 .. 255) /\ Len(f) = Len(e)
  BY <1>1, <1>2, <1>5, <1>6, ExceptIs
<1>8. f[i + 1] = g
  BY <1>1, <1>2, <1>5, <1>6, ExceptIs
<1>9. \A j \in 1 .. L : j # i + 1 => f[j] = e[j]
  BY <1>1, <1>2, <1>5, <1>6, ExceptIs
<1>. SUFFICES ASSUME NEW p \in Int, 0 <= p, p < 8 * L
              PROVE  /\ p \div 8 = i /\ sh <= p % 8 /\ p % 8 < sh + sz => BitOf(f, p) = Bit(y, (p % 8) - sh)
                     /\ p \div 8 # i \/ p % 8 < sh \/ sh + sz <= p % 8 => BitOf(f, p) = BitOf(e, p)
  BY <1>1, <1>7 DEF IsBytes, f
<1>10. PICK j \in Int, r \in Int : j = p \div 8 /\ r = p % 8 /\ 0 <= j /\ j < L /\ 0 <= r /\ r <= 7
  BY <1>1
<1>11. BitOf(f, p) = Bit(f[j + 1], r) /\ BitOf(e, p) = Bit(e[j + 1], r)
  BY <1>10, BitOfIs
<1>12. CASE j # i
  <2>1. j + 1 \in 1 .. L /\ j + 1 # i + 1
    BY <1>1, <1>10, <1>12
  <2>2. f[j + 1] = e[j + 1]
    BY <1>9, <2>1
  <2>. QED  BY <1>10, <1>11, <1>12, <2>2
<1>13. CASE j = i
  <2>1. BitOf(f, p) = Bit(g, r) /\ BitOf(e, p) = Bit(b, r)
    BY <1>3, <1>8, <1>11, <1>13
  <2>2. /\ sh <= r /\ r < sh + sz => Bit(g, r) = Bit(y, r - sh)
        /\ r < sh \/ sh + sz <= r => Bit(g, r) = Bit(b, r)
    <3>2. r \in Int /\ r >= 0 /\ sh >= 0 /\ sz >= 0
      BY <1>10
    <3>3. sh <= r /\ r < sh + sz => Bit(g, r) = Bit(y, r - sh)
      BY <3>2, WithFieldBits DEF g
    <3>4. r < sh \/ sh + sz <= r => Bit(g, r) = Bit(b, r)
      BY <3>2, WithFieldBits DEF g
    <3>. QED  BY <3>3, <3>4
  <2>. QED  BY <1>10, <1>13, <2>1, <2>2
<1>. QED  BY <1>12, <1>13

LEMMA SetInvStep ==
    ASSUME NEW L \in Nat, NEW d, IsBytes(d, L), NEW s, IsSignal(s), NEW v \in Int,
           NEW m \in Nat, NEW w \in 0 .. s.size, NEW t, SetInv(d, L, s, v, m, w, t), InFrame(d, t)
    PROVE  \E x \in 0 .. s.size : SetInv(d, L, s, v, m + 1, x, SetTurn(s, t))
<1>. DEFINE c == FirstBit(s)
<1>0. PICK i, bits, y, e, sh, sz, f :
         /\ i = t.i /\ bits = t.bits /\ y = t.ival /\ e = t.dat
         /\ sh = Shift(s, i) /\ sz = IF bits < 8 - sh THEN bits ELSE 8 - sh
         /\ f = Stored(e, i, sh, sz, y)
  OBVIOUS
<1>. DEFINE x == w + sz
<1>1. /\ i = Byte(s, m) /\ bits = s.size - w /\ y = v \div Pow2[w]
      /\ IsBytes(e, L)
      /\ Reached(s, m, w) /\ Visited(s, m, L) /\ WrittenBits(d, s, v, w, e, L)
  BY <1>0 DEF SetInv
<1>2. /\ SetTurn(s, t).dat = f /\ SetTurn(s, t).bits = bits - sz /\ SetTurn(s, t).ival = y \div Pow2[sz]
      /\ SetTurn(s, t).i = IF s.is_little_endian THEN i + 1 ELSE i - 1
  BY <1>0, Zenon DEF SetTurn, Stored
<1>3. c \in 0 .. 7 /\ s.size \in Nat /\ w \in Nat /\ w < s.size /\ i \in Int /\ i >= 0 /\ i < L /\ L \in Nat
  <2>1. s.size \in Nat
    BY DEF IsSignal
  <2>2. L = Len(d)
    BY DEF IsBytes
  <2>3. m \in Int /\ Byte(s, m) \in Int /\ c \in 0 .. 7
    BY ByteParts
  <2>4. i >= 0 /\ i < L /\ bits > 0
    BY <1>0, <2>2 DEF InFrame
  <2>. HIDE DEF c
  <2>5. w \in Nat /\ w < s.size
    BY <1>1, <2>1, <2>4
  <2>. QED  BY <1>1, <2>1, <2>3, <2>4, <2>5
<1>4. sh \in 0 .. 7 /\ c + w = 8 * m + sh /\ (m > 0 => sh = 0)
  <2>1. i = ByteOf(s.lsb) <=> m = 0
    <3>1. m \in Int /\ 0 \in Int /\ Byte(s, 0) = ByteOf(s.lsb) /\ (Byte(s, m) = Byte(s, 0) => m = 0)
      BY ByteParts
    <3>. QED  BY <1>1, <3>1
  <2>2. sh = IF m = 0 THEN c ELSE 0
    BY <1>0, <2>1 DEF Shift, FirstBit
  <2>. HIDE DEF c
  <2>. QED  BY <1>1, <1>3, <2>2 DEF Reached, c
<1>. HIDE DEF c
<1>5. /\ sz \in 1 .. 8 /\ sh + sz <= 8 /\ x \in 0 .. s.size /\ x > w /\ x = w + sz
      /\ x < s.size => sh + sz = 8
  <2>1. bits \in 1 .. s.size /\ w + bits = s.size /\ s.size \in Nat
    BY <1>1, <1>3
  <2>2. sz \in 1 .. 8 /\ sh + sz <= 8 /\ sz <= bits /\ (sz # bits => sh + sz = 8)
    <3>1. sz = IF bits < 8 - sh THEN bits ELSE 8 - sh
      BY <1>0, Zenon
    <3>. QED  BY <1>4, <2>1, <3>1
  <2>. QED  BY <1>3, <2>1, <2>2
<1>6. Reached(s, m + 1, x)
  <2>1. c + x = 8 * m + sh + sz
    BY <1>3, <1>4, <1>5
  <2>. HIDE DEF x
  <2>. QED  BY <1>3, <1>4, <1>5, <2>1 DEF Reached, c
<1>7. SetTurn(s, t).i = Byte(s, m + 1)
  BY <1>1, <1>2 DEF Byte, IsSignal, ByteOf
<1>8. SetTurn(s, t).bits = s.size - x
  BY <1>1, <1>2, <1>3, <1>5
<1>9. SetTurn(s, t).ival = v \div Pow2[x]
  <2>1. Pow2[x] = Pow2[w] * Pow2[sz] /\ Pow2[w] \in Nat \ {0} /\ Pow2[sz] \in Nat \ {0}
    <3>1. w \in Nat /\ sz \in Nat
      BY <1>3, <1>5
    <3>. QED  BY <3>1, PowAdd, PowNat
  <2>. QED  BY <1>1, <1>2, <2>1, DivDiv
<1>10. y \in Int
  BY <1>1, <1>3, PowNat, DivType
<1>14. Visited(s, m + 1, L)
  <2>1. \A j \in 0 .. m + 1 - 1 : j \in 0 .. m - 1 \/ j = m
    OBVIOUS
  <2>. QED  BY <1>0, <1>1, <1>3, <2>1 DEF Visited
<1>15. /\ IsBytes(f, L)
       /\ \A p \in Int : 0 <= p /\ p < 8 * L =>
             /\ p \div 8 = i /\ sh <= p % 8 /\ p % 8 < sh + sz => BitOf(f, p) = Bit(y, (p % 8) - sh)
             /\ p \div 8 # i \/ p % 8 < sh \/ sh + sz <= p % 8 => BitOf(f, p) = BitOf(e, p)
  <2>1. L \in Int /\ i \in Int /\ 0 <= i /\ i < L /\ sh \in Int /\ sz \in Int /\ sh >= 0 /\ sz >= 0
    BY <1>1, <1>3, <1>4, <1>5
  <2>2. f = Stored(e, i, sh, sz, y)
    BY <1>0, Zenon
  <2>. QED  BY <1>1, <1>5, <1>10, <2>1, <2>2, ByteSet
<1>. HIDE DEF x
<1>16. ASSUME NEW k \in 0 .. w - 1
       PROVE  Pos(s, k) < 8 * L /\ BitOf(f, Pos(s, k)) = Bit(v, k)
  <2>1. k \in Nat
    OBVIOUS
  <2>2. PICK n \in Nat, r \in 0 .. 7 : c + k = 8 * n + r
    BY <2>1, PosSplit DEF c
  <2>3. n < m
    <3>1. m = 0 => w = 0
      BY <1>1 DEF Reached
    <3>. QED  BY <1>3, <1>4, <2>2, <3>1
  <2>4. n \in Int /\ m \in Int /\ Byte(s, n) \in Int
    BY ByteParts
  <2>8. Pos(s, k) = 8 * Byte(s, n) + r
    BY <2>1, <2>2, <2>4, PosIs DEF c
  <2>9. Pos(s, k) \in Int /\ Pos(s, k) \div 8 = Byte(s, n)
    BY <2>2, <2>4, <2>8
  <2>5. Byte(s, n) # i
    BY <1>1, <2>3, <2>4, ByteParts
  <2>6. Byte(s, n) \in 0 .. L - 1
    BY <1>0, <1>1, <1>3, <2>3, <2>4 DEF Visited
  <2>7. BitOf(f, Pos(s, k)) = BitOf(e, Pos(s, k))
    <3>1. 0 <= Pos(s, k) /\ Pos(s, k) < 8 * L
      BY <1>3, <2>2, <2>4, <2>6, <2>8
    <3>. QED  BY <1>15, <2>5, <2>9, <3>1
  <2>. QED  BY <1>0, <1>1, <2>7 DEF WrittenBits
<1>17. ASSUME NEW k \in w .. x - 1
       PROVE  Pos(s, k) = 8 * i + (sh + (k - w)) /\ Pos(s, k) < 8 * L /\ BitOf(f, Pos(s, k)) = Bit(v, k)
  <2>. DEFINE r == sh + (k - w)
  <2>1. k \in Nat /\ r \in 0 .. 7 /\ c + k = 8 * m + r /\ sh <= r /\ r < sh + sz /\ r - sh = k - w /\ k - w \in Nat
    BY <1>3, <1>4, <1>5
  <2>. HIDE DEF r
  <2>2. Pos(s, k) = 8 * i + r
    <3>1. m \in Int
      OBVIOUS
    <3>. QED  BY <1>1, <2>1, <3>1, PosIs DEF c
  <2>3. i \in 0 .. L - 1 /\ Pos(s, k) \in Int /\ Pos(s, k) < 8 * L
    BY <1>3, <2>1, <2>2
  <2>4. BitOf(f, Pos(s, k)) = Bit(y, k - w)
    <3>1. Pos(s, k) \div 8 = i /\ Pos(s, k) % 8 = r /\ 0 <= Pos(s, k)
      BY <1>3, <2>1, <2>2
    <3>. QED  BY <1>15, <2>1, <2>3, <3>1
  <2>5. Bit(v \div Pow2[w], k - w) = Bit(v, w + (k - w)) /\ w + (k - w) = k
    BY <1>3, <2>1, BitShift
  <2>. QED  BY <1>1, <2>2, <2>3, <2>4, <2>5 DEF r
<1>18. ASSUME NEW p \in 0 .. 8 * L - 1, \A k \in 0 .. x - 1 : p # Pos(s, k)
       PROVE  BitOf(f, p) = BitOf(d, p)
  <2>1. BitOf(e, p) = BitOf(d, p)
    <3>1. \A k \in 0 .. w - 1 : k \in 0 .. x - 1
      BY <1>3, <1>5
    <3>. QED  BY <1>0, <1>1, <1>18, <3>1 DEF WrittenBits
  <2>2. PICK j \in Int, r \in 0 .. 7 : j = p \div 8 /\ r = p % 8 /\ p = 8 * j + r /\ p \in Int /\ 0 <= p /\ p < 8 * L
    BY <1>3
  <2>3. CASE j = i /\ sh <= r /\ r < sh + sz
    <3>. DEFINE k == w + (r - sh)
    <3>1. k \in w .. x - 1 /\ k \in 0 .. x - 1 /\ sh + (k - w) = r
      BY <1>3, <1>4, <1>5, <2>3
    <3>. HIDE DEF k
    <3>2. p = Pos(s, k)
      BY <1>17, <2>2, <2>3, <3>1
    <3>. QED  BY <1>18, <3>1, <3>2
  <2>4. CASE ~(j = i /\ sh <= r /\ r < sh + sz)
    <3>1. j # i \/ r < sh \/ sh + sz <= r
      BY <1>4, <1>5, <2>4
    <3>. QED  BY <1>15, <2>1, <2>2, <3>1
  <2>. QED  BY <2>3, <2>4
<1>19. WrittenBits(d, s, v, x, f, L)
  <2>1. \A k \in 0 .. x - 1 : k \in 0 .. w - 1 \/ k \in w .. x - 1
    BY <1>3, <1>5
  <2>. HIDE DEF x
  <2>. QED  BY <1>0, <1>16, <1>17, <1>18, <2>1 DEF WrittenBits
<1>20. SetInv(d, L, s, v, m + 1, x, SetTurn(s, t))
  <2>. HIDE DEF x
  <2>. QED  BY <1>0, <1>2, <1>6, <1>7, <1>8, <1>9, <1>14, <1>15, <1>19 DEF SetInv
<1>. QED  BY <1>5, <1>20

\* The loop ends outside the frame, or with all bits written.
LEMMA SetTurnsEnd ==
    ASSUME NEW L \in Nat, NEW d, IsBytes(d, L), NEW s, IsSignal(s), NEW v \in Int,
           NEW start, start = [dat |-> d, i |-> ByteOf(s.lsb), bits |-> s.size, ival |-> v]
    PROVE  \E m \in Nat, w \in 0 .. s.size :
              SetInv(d, L, s, v, m, w, SetTurns(d, s, start)) /\ ~InFrame(d, SetTurns(d, s, start))
<1>0. L = Len(d) /\ s.size \in Nat
  BY DEF IsBytes, IsSignal
<1>1. PICK U : /\ U[0] = start
               /\ \A n \in 1 .. L : U[n] = SetNext(d, s, U[n - 1])
               /\ SetTurns(d, s, start) = U[L]
  BY <1>0, SetTurnsRun
<1>. DEFINE After(n, m, w) == SetInv(d, L, s, v, m, w, U[n]) /\ (m = n \/ ~InFrame(d, U[n]))
            S == {n \in 0 .. L : \E m \in 0 .. n, w \in 0 .. s.size : After(n, m, w)}
<1>2. 0 \in S
  <2>1. SetInv(d, L, s, v, 0, 0, U[0])
    BY <1>1, SetInvStart
  <2>2. 0 \in 0 .. 0 /\ 0 \in 0 .. s.size /\ 0 \in 0 .. L
    BY <1>0
  <2>. QED  BY <2>1, <2>2
<1>3. ASSUME NEW n \in 0 .. L - 1, n \in S
      PROVE  n + 1 \in S
  <2>1. PICK m \in 0 .. n, w \in 0 .. s.size : After(n, m, w)
    BY <1>3
  <2>2. U[n + 1] = SetNext(d, s, U[n])
    <3>1. n + 1 \in 1 .. L /\ n + 1 - 1 = n
      OBVIOUS
    <3>. QED  BY <1>1, <3>1
  <2>3. n + 1 \in 0 .. L
    OBVIOUS
  <2>4. CASE InFrame(d, U[n])
    <3>1. m = n /\ U[n + 1] = SetTurn(s, U[n]) /\ m \in Nat
      BY <2>1, <2>2, <2>4 DEF SetNext
    <3>2. PICK x \in 0 .. s.size : SetInv(d, L, s, v, m + 1, x, U[n + 1])
      BY <2>1, <2>4, <3>1, SetInvStep
    <3>3. n + 1 \in 0 .. n + 1 /\ After(n + 1, n + 1, x)
      BY <3>1, <3>2
    <3>. HIDE DEF After
    <3>. QED  BY <2>3, <3>3
  <2>5. CASE ~InFrame(d, U[n])
    <3>1. U[n + 1] = U[n]
      BY <2>2, <2>5 DEF SetNext
    <3>2. m \in 0 .. n + 1 /\ After(n + 1, m, w)
      BY <2>1, <2>5, <3>1
    <3>. HIDE DEF After
    <3>. QED  BY <2>3, <3>2
  <2>. QED  BY <2>4, <2>5
<1>4. L \in S
  <2>. HIDE DEF S
  <2>. QED  BY <1>2, <1>3, UpTo
<1>5. PICK m \in 0 .. L, w \in 0 .. s.size : After(L, m, w)
  BY <1>4
<1>6. ~InFrame(d, U[L])
  <2>1. SUFFICES ASSUME InFrame(d, U[L]) PROVE FALSE
    OBVIOUS
  <2>2. m = L /\ U[L].i = Byte(s, L) /\ Visited(s, L, L)
    BY <1>5, <2>1 DEF SetInv
  <2>3. Byte(s, L) >= 0 /\ Byte(s, L) < L
    BY <1>0, <2>1, <2>2 DEF InFrame
  <2>4. ByteOf(s.lsb) \in Nat /\ Byte(s, L) \in Int
    BY ByteParts
  <2>5. L > 0
    BY <2>3, <2>4
  <2>6. 0 \in 0 .. L - 1 /\ Byte(s, 0) < L /\ Byte(s, 0) = ByteOf(s.lsb)
    BY <2>2, <2>5, ByteParts DEF Visited
  <2>7. Byte(s, L) = ByteOf(s.lsb) + L \/ Byte(s, L) = ByteOf(s.lsb) - L
    BY DEF Byte
  <2>. QED  BY <2>3, <2>4, <2>6, <2>7
<1>. QED  BY <1>1, <1>5, <1>6

LEMMA SetValueBits ==
    ASSUME NEW L \in Nat, NEW d, IsBytes(d, L), NEW s, IsSignal(s), NEW x \in Int
    PROVE  /\ IsBytes(SetValue(d, s, x), L)
           /\ \A k \in 0 .. s.size - 1 : Pos(s, k) < 8 * L =>
                 BitOf(SetValue(d, s, x), Pos(s, k)) =
                    IF s.is_little_endian \/ WholeIn(s, L) THEN Bit(x, k) ELSE BitOf(d, Pos(s, k))
           /\ \A p \in 0 .. 8 * L - 1 : (\A k \in 0 .. s.size - 1 : p # Pos(s, k)) =>
                 BitOf(SetValue(d, s, x), p) = BitOf(d, p)
<1>. DEFINE v     == IF s.size < WordBits THEN x % Pow2[s.size] ELSE x
            start == [dat |-> d, i |-> ByteOf(s.lsb), bits |-> s.size, ival |-> v]
            t     == SetTurns(d, s, start)
            e     == t.dat
<1>1. s.size \in Nat \ {0} /\ L = Len(d) /\ s.is_little_endian \in BOOLEAN
  BY WordAssumption DEF IsSignal, IsBytes
<1>2. v \in Int /\ \A k \in 0 .. s.size - 1 : Bit(v, k) = Bit(x, k)
  <2>1. Pow2[s.size] \in Nat \ {0}
    BY <1>1, PowNat
  <2>2. x % Pow2[s.size] \in Int
    BY <2>1, DivType
  <2>3. \A k \in 0 .. s.size - 1 : Bit(x % Pow2[s.size], k) = Bit(x, k)
    BY <1>1, BitLow
  <2>. QED  BY <2>2, <2>3
<1>3. SetValue(d, s, x) = e
  BY Zenon DEF SetValue
<1>. HIDE DEF v
<1>4. PICK m \in Nat, w \in 0 .. s.size : SetInv(d, L, s, v, m, w, t) /\ ~InFrame(d, t)
  BY <1>2, SetTurnsEnd
<1>. HIDE DEF start, t
<1>5. /\ t.i = Byte(s, m) /\ t.bits = s.size - w /\ IsBytes(e, L)
      /\ Reached(s, m, w) /\ Visited(s, m, L) /\ WrittenBits(d, s, v, w, e, L)
  BY <1>4 DEF SetInv
<1>6. m \in Int /\ Byte(s, m) \in Int /\ ByteOf(s.lsb) \in Nat /\ FirstBit(s) \in 0 .. 7 /\ w \in Nat
  BY <1>1, ByteParts
<1>7. w = s.size \/ Byte(s, m) < 0 \/ Byte(s, m) >= L
  BY <1>1, <1>4, <1>5, <1>6 DEF InFrame
<1>8. w < s.size => \E r \in 0 .. 7 : FirstBit(s) + w = 8 * m + r
  BY <1>1, <1>5, <1>6 DEF Reached
<1>9. w < s.size => Byte(s, m) >= 0
  <2>1. SUFFICES ASSUME w < s.size PROVE Byte(s, m) >= 0
    OBVIOUS
  <2>2. PICK r \in 0 .. 7 : FirstBit(s) + w = 8 * m + r
    BY <1>8, <2>1
  <2>3. Pos(s, w) = 8 * Byte(s, m) + r
    BY <1>6, <2>2, PosIs
  <2>4. Pos(s, w) \in Nat
    BY <1>1, <1>6, <2>1 DEF IsSignal
  <2>. QED  BY <1>6, <2>3, <2>4
\* A little endian signal that is not written as a whole is written up to the frame's end.
<1>10. ASSUME s.is_little_endian, NEW k \in w .. s.size - 1
       PROVE  Pos(s, k) >= 8 * L
  <2>1. w < s.size /\ Byte(s, m) >= L /\ k \in Nat
    BY <1>1, <1>6, <1>7, <1>9
  <2>2. PICK n \in Nat, r \in 0 .. 7 : FirstBit(s) + k = 8 * n + r
    BY <2>1, PosSplit
  <2>3. PICK q \in 0 .. 7 : FirstBit(s) + w = 8 * m + q
    BY <1>8, <2>1
  <2>4. n >= m
    BY <1>6, <2>2, <2>3
  <2>5. n \in Int /\ Byte(s, n) = ByteOf(s.lsb) + n /\ Byte(s, m) = ByteOf(s.lsb) + m
    BY <1>10 DEF Byte
  <2>6. Pos(s, k) = 8 * Byte(s, n) + r
    BY <2>1, <2>2, <2>5, PosIs
  <2>. QED  BY <1>6, <2>1, <2>4, <2>5, <2>6
\* A big endian one starts beyond it.
<1>11. ASSUME ~s.is_little_endian, w < s.size
       PROVE  w = 0 /\ ~WholeIn(s, L)
  <2>1. Byte(s, m) >= L
    BY <1>1, <1>6, <1>7, <1>9, <1>11
  <2>2. m = 0
    <3>1. Byte(s, 0) = ByteOf(s.lsb) /\ Byte(s, m) = ByteOf(s.lsb) - m
      BY <1>11, ByteParts DEF Byte
    <3>2. m > 0 => Byte(s, 0) < L
      BY <1>5, <1>6 DEF Visited
    <3>. QED  BY <1>6, <2>1, <3>1, <3>2
  <2>3. w = 0
    BY <1>5, <2>2 DEF Reached
  <2>4. Pos(s, 0) = 8 * Byte(s, 0) + FirstBit(s)
    <3>1. FirstBit(s) + 0 = 8 * 0 + FirstBit(s)
      BY <1>6
    <3>. QED  BY <1>6, <3>1, PosIs
  <2>5. 0 \in 0 .. s.size - 1 /\ Pos(s, 0) >= 8 * L
    BY <1>1, <1>6, <2>1, <2>2, <2>4
  <2>6. ~(Pos(s, 0) < 8 * L)
    <3>1. Pos(s, 0) \in Int
      BY <1>6, <2>2, <2>4
    <3>. QED  BY <2>5, <3>1
  <2>. QED  BY <2>3, <2>5, <2>6 DEF WholeIn
<1>12. ASSUME NEW k \in 0 .. s.size - 1, Pos(s, k) < 8 * L
       PROVE  BitOf(e, Pos(s, k)) =
                 IF s.is_little_endian \/ WholeIn(s, L) THEN Bit(x, k) ELSE BitOf(d, Pos(s, k))
  <2>1. Pos(s, k) \in Nat /\ k \in Nat
    BY DEF IsSignal
  <2>2. CASE k < w
    <3>1. BitOf(e, Pos(s, k)) = Bit(v, k)
      BY <1>5, <1>6, <2>1, <2>2 DEF WrittenBits
    <3>2. s.is_little_endian \/ WholeIn(s, L)
      <4>1. SUFFICES ASSUME ~s.is_little_endian PROVE WholeIn(s, L)
        OBVIOUS
      <4>2. w = s.size
        BY <1>1, <1>6, <1>11, <2>1, <2>2, <4>1
      <4>. QED  BY <1>5, <4>2 DEF WholeIn, WrittenBits
    <3>. QED  BY <1>2, <3>1, <3>2
  <2>3. CASE ~(k < w)
    <3>1. k \in w .. s.size - 1 /\ w < s.size
      BY <1>1, <1>6, <2>1, <2>3
    <3>2. ~s.is_little_endian
      BY <1>10, <1>12, <2>1, <3>1
    <3>3. w = 0 /\ ~WholeIn(s, L)
      BY <1>11, <3>1, <3>2
    <3>4. BitOf(e, Pos(s, k)) = BitOf(d, Pos(s, k))
      <4>1. Pos(s, k) \in 0 .. 8 * L - 1
        BY <1>12, <2>1
      <4>2. \A j \in 0 .. w - 1 : Pos(s, k) # Pos(s, j)
        BY <3>3
      <4>. QED  BY <1>5, <4>1, <4>2 DEF WrittenBits
    <3>. QED  BY <3>2, <3>3, <3>4
  <2>. QED  BY <2>2, <2>3
<1>13. ASSUME NEW p \in 0 .. 8 * L - 1, \A k \in 0 .. s.size - 1 : p # Pos(s, k)
       PROVE  BitOf(e, p) = BitOf(d, p)
  <2>1. \A k \in 0 .. w - 1 : k \in 0 .. s.size - 1
    BY <1>1, <1>6
  <2>. QED  BY <1>5, <1>13, <2>1 DEF WrittenBits
<1>. HIDE DEF e
<1>. QED  BY <1>3, <1>5, <1>12, <1>13

-----------------------------------------------------------------------------
(***************************************************************************)
(* get_raw_value goes the other way, from the byte of the most significant *)
(* bit.  Before byte j (counted from the least significant one) is read,   *)
(* Left(s, last, j) bits are missing, and `q' is what is above them.       *)
(***************************************************************************)
LastByte(s, last) == \E r \in 0 .. 7 : FirstBit(s) + (s.size - 1) = 8 * last + r

Left(s, last, j) ==
    IF j = last THEN s.size ELSE IF j = -1 THEN 0 ELSE 8 * (j + 1) - FirstBit(s)

ReadBits(d, s, b, q, L) ==
    \A k \in b .. s.size - 1 : Pos(s, k) < 8 * L /\ Bit(q, k - b) = BitOf(d, Pos(s, k))

GetInv(d, L, s, last, j, q, t) ==
    /\ t.i = Byte(s, j)
    /\ t.bits = Left(s, last, j)
    /\ q \in 0 .. Pow2[s.size - t.bits] - 1
    /\ t.ret = Pow2[t.bits] * q
    /\ ReadBits(d, s, t.bits, q, L)
    /\ \A n \in j + 1 .. last : Byte(s, n) >= 0 /\ Byte(s, n) < L

LEMMA LastByteIs ==
    ASSUME NEW s, IsSignal(s)
    PROVE  \E last \in Nat : LastByte(s, last)
<1>1. s.size \in Nat \ {0}
  BY WordAssumption DEF IsSignal
<1>2. s.size - 1 \in Nat
  BY <1>1
<1>. QED  BY <1>2, PosSplit DEF LastByte

\* What the signal has in its byte j.
LEMMA PartPlace ==
    ASSUME NEW s, IsSignal(s), NEW last \in Nat, LastByte(s, last), NEW j \in 0 .. last,
           NEW sh, sh = Shift(s, Byte(s, j)), NEW ps, ps = PartSize(s, Byte(s, j))
    PROVE  /\ sh \in 0 .. 7 /\ ps \in 1 .. 8 /\ sh + ps <= 8
           /\ Left(s, last, j) = Left(s, last, j - 1) + ps
           /\ FirstBit(s) + Left(s, last, j - 1) = 8 * j + sh
           /\ Left(s, last, j) \in 1 .. s.size /\ Left(s, last, j - 1) \in 0 .. s.size
<1>1. s.size \in Nat \ {0} /\ FirstBit(s) \in 0 .. 7 /\ Byte(s, 0) = ByteOf(s.lsb)
  BY WordAssumption, ByteParts DEF IsSignal
<1>2. PICK r \in 0 .. 7 : FirstBit(s) + (s.size - 1) = 8 * last + r
  BY DEF LastByte
<1>3. ByteOf(s.msb) = Byte(s, last) /\ s.msb % 8 = r
  <2>1. PICK k \in Nat : k = s.size - 1 /\ s.msb = Pos(s, k) /\ FirstBit(s) + k = 8 * last + r
    BY <1>1, <1>2 DEF IsSignal
  <2>2. Pos(s, k) \div 8 = Byte(s, last) /\ Pos(s, k) % 8 = r
    <3>1. last \in Int /\ k \in Int /\ k >= 0 /\ r \in Int /\ r >= 0 /\ r <= 7
      OBVIOUS
    <3>2. FirstBit(s) + k = 8 * last + r
      BY <2>1
    <3>. QED  BY <3>1, <3>2, PosIs
  <2>. QED  BY <2>1, <2>2 DEF ByteOf
<1>4. (Byte(s, j) = Byte(s, 0) <=> j = 0) /\ (Byte(s, j) = Byte(s, last) <=> j = last)
  <2>1. j \in Int /\ last \in Int /\ 0 \in Int
    OBVIOUS
  <2>. QED  BY <2>1, ByteParts
<1>5. sh = IF j = 0 THEN FirstBit(s) ELSE 0
  BY <1>1, <1>4 DEF Shift, FirstBit
<1>6. PICK top : top = Top(s, Byte(s, j)) /\ top = IF j = last THEN r ELSE 7
  BY <1>3, <1>4 DEF Top
<1>7. ps = top - sh + 1
  BY <1>6 DEF PartSize
<1>8. PICK n, f : n = s.size /\ f = FirstBit(s)
  OBVIOUS
<1>9. PICK a, b : a = Left(s, last, j) /\ b = Left(s, last, j - 1)
  OBVIOUS
<1>10. /\ a = IF j = last THEN n ELSE 8 * (j + 1) - f
       /\ b = IF j = 0 THEN 0 ELSE 8 * j - f
  BY <1>8, <1>9 DEF Left
<1>11. n \in Nat \ {0} /\ f \in 0 .. 7 /\ f + (n - 1) = 8 * last + r /\ sh = IF j = 0 THEN f ELSE 0
  BY <1>1, <1>2, <1>5, <1>8
<1>12. /\ sh \in 0 .. 7 /\ top \in 0 .. 7 /\ top >= sh
       /\ a = 8 * j + top + 1 - f /\ b = 8 * j + sh - f
       /\ b >= 0 /\ a <= n
  BY <1>6, <1>10, <1>11
<1>13. /\ sh \in 0 .. 7 /\ ps \in 1 .. 8 /\ sh + ps <= 8 /\ a = b + ps /\ f + b = 8 * j + sh
       /\ a \in 1 .. n /\ b \in 0 .. n
  BY <1>7, <1>11, <1>12
<1>. QED  BY <1>8, <1>9, <1>13

\* A part is put below q, and above the b bits that are still missing.
Joined(n, b, ps, q, part) ==
    /\ Pow2[ps] * q + part \in 0 .. Pow2[n + ps] - 1
    /\ Pow2[b + ps] * q + part * Pow2[b] = Pow2[b] * (Pow2[ps] * q + part)

LEMMA PartJoin ==
    ASSUME NEW n \in Nat, NEW b \in Nat, NEW ps \in Nat,
           NEW q \in 0 .. Pow2[n] - 1, NEW part \in 0 .. Pow2[ps] - 1
    PROVE  Joined(n, b, ps, q, part)
<1>. DEFINE A == Pow2[b]
            C == Pow2[ps]
            D == Pow2[n]
<1>1. A \in Nat \ {0} /\ C \in Nat \ {0} /\ D \in Nat \ {0} /\ Pow2[b + ps] = A * C /\ Pow2[n + ps] = D * C
  BY PowNat, PowAdd
<1>. HIDE DEF A, C, D
<1>2. q \in Int /\ part \in Int /\ q >= 0 /\ q <= D - 1 /\ part >= 0 /\ part <= C - 1
  BY <1>1 DEF C, D
<1>3. C * q + part \in 0 .. D * C - 1
  <2>1. C * q <= C * (D - 1) /\ C * q >= 0
    BY <1>1, <1>2
  <2>2. C * (D - 1) = D * C - C
    BY <1>1
  <2>3. C * q \in Int /\ D * C \in Int
    BY <1>1, <1>2
  <2>. QED  BY <1>1, <1>2, <2>1, <2>2, <2>3
<1>4. (A * C) * q + part * A = A * (C * q + part)
  <2>. DEFINE e == C * q
  <2>1. e \in Int /\ A * (C * q) = (A * C) * q
    BY <1>1, <1>2
  <2>. HIDE DEF e
  <2>2. A * (e + part) = A * e + part * A
    BY <1>1, <1>2, <2>1
  <2>. QED  BY <2>1, <2>2 DEF e
<1>. QED  BY <1>1, <1>3, <1>4 DEF A, C, Joined

LEMMA GetInvStart ==
    ASSUME NEW L \in Nat, NEW d, NEW s, IsSignal(s), NEW last \in Nat, LastByte(s, last)
    PROVE  GetInv(d, L, s, last, last, 0, [ret |-> 0, i |-> ByteOf(s.msb), bits |-> s.size])
<1>. DEFINE t == [ret |-> 0, i |-> ByteOf(s.msb), bits |-> s.size]
<1>1. t.ret = 0 /\ t.i = ByteOf(s.msb) /\ t.bits = s.size
  OBVIOUS
<1>. HIDE DEF t
<1>2. PICK n \in Nat \ {0} : n = s.size
  BY WordAssumption DEF IsSignal
<1>3. ByteOf(s.msb) = Byte(s, last)
  <2>1. PICK r \in 0 .. 7 : FirstBit(s) + (s.size - 1) = 8 * last + r
    BY DEF LastByte
  <2>2. PICK k \in Nat : k = s.size - 1 /\ s.msb = Pos(s, k) /\ FirstBit(s) + k = 8 * last + r
    BY <1>2, <2>1 DEF IsSignal
  <2>3. last \in Int /\ k \in Int /\ k >= 0 /\ r \in Int /\ r >= 0 /\ r <= 7
    OBVIOUS
  <2>4. Pos(s, k) \div 8 = Byte(s, last)
    BY <2>2, <2>3, PosIs
  <2>. QED  BY <2>2, <2>4 DEF ByteOf
<1>4. 0 \in 0 .. Pow2[n - n] - 1 /\ 0 = Pow2[n] * 0
  <2>1. Pow2[n - n] = 1 /\ Pow2[n] \in Nat
    BY PowNext, PowNat
  <2>. QED  BY <2>1
<1>5. Left(s, last, last) = n
  BY <1>2 DEF Left
<1>6. ReadBits(d, s, n, 0, L)
  BY <1>2 DEF ReadBits
<1>7. \A i \in last + 1 .. last : Byte(s, i) >= 0 /\ Byte(s, i) < L
  OBVIOUS
<1>8. GetInv(d, L, s, last, last, 0, t)
  BY <1>1, <1>2, <1>3, <1>4, <1>5, <1>6, <1>7 DEF GetInv
<1>. QED  BY <1>8 DEF t

LEMMA GetInvStep ==
    ASSUME NEW L \in Nat, NEW d, IsBytes(d, L), NEW s, IsSignal(s), NEW last \in Nat, LastByte(s, last),
           NEW j \in -1 .. last, NEW q, NEW t, GetInv(d, L, s, last, j, q, t), InFrame(d, t)
    PROVE  j >= 0 /\ \E x : GetInv(d, L, s, last, j - 1, x, GetTurn(d, s, t))
<1>0. PICK i, n, sh, ps, a, b, y, part, u :
         /\ i = t.i /\ n = s.size /\ sh = Shift(s, i) /\ ps = PartSize(s, i)
         /\ a = t.bits /\ b = a - ps /\ y = d[i + 1] /\ part = Part(d, s, i) /\ u = GetTurn(d, s, t)
  OBVIOUS
<1>1. /\ i = Byte(s, j) /\ a = Left(s, last, j)
      /\ q \in 0 .. Pow2[n - a] - 1 /\ t.ret = Pow2[a] * q
      /\ ReadBits(d, s, a, q, L)
      /\ \A k \in j + 1 .. last : Byte(s, k) >= 0 /\ Byte(s, k) < L
  BY <1>0 DEF GetInv
<1>2. /\ u.ret = t.ret + part * Pow2[b] /\ u.bits = b
      /\ u.i = IF s.is_little_endian THEN i - 1 ELSE i + 1
  BY <1>0, Zenon DEF GetTurn
<1>3. i \in Int /\ i >= 0 /\ i < L /\ a > 0 /\ n \in Nat \ {0}
  <2>1. L = Len(d)
    BY DEF IsBytes
  <2>2. i >= 0 /\ i < L /\ a > 0
    BY <1>0, <2>1 DEF InFrame
  <2>3. n \in Nat \ {0}
    BY <1>0, WordAssumption DEF IsSignal
  <2>4. j \in Int /\ Byte(s, j) \in Int
    BY ByteParts
  <2>. QED  BY <1>1, <2>2, <2>3, <2>4
<1>4. j \in 0 .. last
  <2>1. j = -1 => Left(s, last, j) = 0
    BY DEF Left
  <2>2. j # -1
    BY <1>1, <1>3, <2>1
  <2>. QED  BY <2>2
<1>5. /\ sh \in 0 .. 7 /\ ps \in 1 .. 8 /\ sh + ps <= 8
      /\ a = b + ps /\ b = Left(s, last, j - 1)
      /\ FirstBit(s) + b = 8 * j + sh
      /\ a \in 1 .. n /\ b \in 0 .. n
  <2>1. sh = Shift(s, Byte(s, j)) /\ ps = PartSize(s, Byte(s, j))
    BY <1>0, <1>1
  <2>2. PICK c : c = Left(s, last, j - 1)
    OBVIOUS
  <2>3. /\ sh \in 0 .. 7 /\ ps \in 1 .. 8 /\ sh + ps <= 8
        /\ a = c + ps /\ FirstBit(s) + c = 8 * j + sh /\ a \in 1 .. n /\ c \in 0 .. n
    BY <1>0, <1>1, <1>4, <2>1, <2>2, PartPlace
  <2>4. b = c
    <3>1. b = a - ps
      BY <1>0
    <3>. QED  BY <1>3, <2>3, <3>1
  <2>. QED  BY <2>2, <2>3, <2>4
<1>6. y \in 0 .. 255 /\ y \in Int
  <2>1. d \in Seq(0 .. 255) /\ Len(d) = L
    BY DEF IsBytes
  <2>2. i + 1 \in 1 .. L
    BY <1>3
  <2>. QED  BY <1>0, <2>1, <2>2, ElementIs, ByteInt, Zenon
<1>7. part = Field(y, sh, ps)
  BY <1>0, Zenon DEF Part
<1>8. /\ part \in 0 .. Pow2[ps] - 1
      /\ \A k \in 0 .. ps - 1 : Bit(part, k) = Bit(y, sh + k)
  <2>1. sh \in Nat /\ ps \in Nat
    BY <1>5
  <2>. QED  BY <1>6, <1>7, <2>1, FieldType, FieldBits
<1>. DEFINE x == Pow2[ps] * q + part
<1>9. x \in 0 .. Pow2[n - b] - 1 /\ u.ret = Pow2[b] * x
  <2>1. n - a \in Nat /\ b \in Nat /\ ps \in Nat /\ n - a + ps = n - b
    BY <1>3, <1>5
  <2>2. /\ Pow2[ps] * q + part \in 0 .. Pow2[n - a + ps] - 1
        /\ Pow2[b + ps] * q + part * Pow2[b] = Pow2[b] * (Pow2[ps] * q + part)
    <3>1. PICK z \in Nat : z = n - a
      BY <2>1
    <3>2. q \in 0 .. Pow2[z] - 1
      BY <1>1, <3>1
    <3>3. Joined(z, b, ps, q, part)
      BY <1>8, <2>1, <3>2, PartJoin
    <3>. QED  BY <3>1, <3>3, Zenon DEF Joined
  <2>3. t.ret = Pow2[b + ps] * q
    BY <1>1, <1>5, Zenon
  <2>4. u.ret = Pow2[b + ps] * q + part * Pow2[b]
    BY <1>2, <2>3, Zenon
  <2>5. u.ret = Pow2[b] * x
    BY <2>2, <2>4, Zenon
  <2>6. Pow2[n - a + ps] = Pow2[n - b]
    BY <2>1
  <2>. QED  BY <2>2, <2>5, <2>6, Zenon
<1>10. q \in Int
  <2>1. n - a \in Nat
    BY <1>3, <1>5
  <2>2. Pow2[n - a] \in Nat
    BY <2>1, PowNat
  <2>. QED  BY <1>1, <2>2
<1>11. \A k \in Nat : Bit(x, k) = IF k < ps THEN Bit(part, k) ELSE Bit(q, k - ps)
  <2>1. ps \in Nat
    BY <1>5
  <2>. QED  BY <1>8, <1>10, <2>1, BitJoin
<1>. HIDE DEF x
<1>12. ASSUME NEW k \in b .. n - 1
       PROVE  Pos(s, k) < 8 * L /\ Bit(x, k - b) = BitOf(d, Pos(s, k))
  <2>1. k \in Int /\ k - b \in Nat /\ k >= 0
    BY <1>3, <1>5
  <2>2. CASE k >= a
    <3>1. k \in a .. n - 1 /\ ~(k - b < ps) /\ k - b - ps = k - a
      BY <1>3, <1>5, <2>1, <2>2
    <3>2. Bit(x, k - b) = Bit(q, k - a)
      BY <1>11, <2>1, <3>1
    <3>. QED  BY <1>0, <1>1, <3>1, <3>2 DEF ReadBits
  <2>3. CASE k < a
    <3>1. PICK z \in Nat : z = k - b /\ z < ps /\ z \in 0 .. ps - 1
      BY <1>3, <1>5, <2>1, <2>3
    <3>2. Bit(x, z) = Bit(y, sh + z)
      BY <1>8, <1>11, <3>1
    <3>3. PICK r \in Int : r = sh + z /\ r >= 0 /\ r <= 7 /\ FirstBit(s) + k = 8 * j + r
      <4>1. PICK f \in Int : f = FirstBit(s) /\ f + b = 8 * j + sh
        BY <1>5, ByteParts
      <4>2. f + k = 8 * j + (sh + z) /\ sh + z \in 0 .. 7
        BY <1>5, <2>1, <3>1, <4>1
      <4>. QED  BY <4>1, <4>2
    <3>4. j \in Int
      OBVIOUS
    <3>5. Pos(s, k) = 8 * i + r /\ Pos(s, k) \div 8 = i /\ Pos(s, k) % 8 = r
      BY <1>1, <2>1, <3>3, <3>4, PosIs
    <3>6. Pos(s, k) \in Int /\ Pos(s, k) < 8 * L
      BY <1>3, <3>3, <3>5
    <3>7. BitOf(d, Pos(s, k)) = Bit(y, r)
      BY <1>0, <3>5, <3>6, BitOfIs
    <3>. QED  BY <3>1, <3>2, <3>3, <3>6, <3>7
  <2>. QED  BY <1>3, <1>5, <2>1, <2>2, <2>3
<1>13. ReadBits(d, s, b, x, L)
  BY <1>0, <1>12 DEF ReadBits
<1>14. u.i = Byte(s, j - 1)
  <2>1. ByteOf(s.lsb) \in Nat
    BY ByteParts
  <2>. QED  BY <1>1, <1>2, <1>4, <2>1 DEF Byte
<1>15. \A k \in j - 1 + 1 .. last : Byte(s, k) >= 0 /\ Byte(s, k) < L
  <2>1. \A k \in j - 1 + 1 .. last : k = j \/ k \in j + 1 .. last
    BY <1>4
  <2>. QED  BY <1>1, <1>3, <2>1
<1>16. GetInv(d, L, s, last, j - 1, x, u)
  BY <1>0, <1>2, <1>5, <1>9, <1>13, <1>14, <1>15, Zenon DEF GetInv
<1>. QED  BY <1>0, <1>4, <1>16

\* The loop ends with all bits read, or where the frame ends.
LEMMA GetTurnsEnd ==
    ASSUME NEW L \in Nat, NEW d, IsBytes(d, L), NEW s, IsSignal(s), NEW last \in Nat, LastByte(s, last),
           NEW start, start = [ret |-> 0, i |-> ByteOf(s.msb), bits |-> s.size]
    PROVE  \E j \in -1 .. last : \E q :
              GetInv(d, L, s, last, j, q, GetTurns(d, s, start)) /\ ~InFrame(d, GetTurns(d, s, start))
<1>0. L = Len(d)
  BY DEF IsBytes
<1>1. PICK U : /\ U[0] = start
               /\ \A n \in 1 .. L : U[n] = GetNext(d, s, U[n - 1])
               /\ GetTurns(d, s, start) = U[L]
  BY <1>0, GetTurnsRun
<1>. DEFINE After(n, j) == (\E q : GetInv(d, L, s, last, j, q, U[n])) /\ (j = last - n \/ ~InFrame(d, U[n]))
            S == {n \in 0 .. L : \E j \in -1 .. last : After(n, j)}
<1>2. 0 \in S
  <2>1. GetInv(d, L, s, last, last, 0, U[0])
    BY <1>1, GetInvStart
  <2>2. last = last - 0 /\ last \in -1 .. last /\ 0 \in 0 .. L
    OBVIOUS
  <2>. QED  BY <2>1, <2>2
<1>3. ASSUME NEW n \in 0 .. L - 1, n \in S
      PROVE  n + 1 \in S
  <2>1. PICK j \in -1 .. last : After(n, j)
    BY <1>3
  <2>2. U[n + 1] = GetNext(d, s, U[n])
    <3>1. n + 1 \in 1 .. L /\ n + 1 - 1 = n
      OBVIOUS
    <3>. QED  BY <1>1, <3>1
  <2>3. n + 1 \in 0 .. L
    OBVIOUS
  <2>4. CASE InFrame(d, U[n])
    <3>1. j = last - n /\ U[n + 1] = GetTurn(d, s, U[n])
      BY <2>1, <2>2, <2>4 DEF GetNext
    <3>2. PICK q : GetInv(d, L, s, last, j, q, U[n])
      BY <2>1
    <3>3. j >= 0 /\ \E x : GetInv(d, L, s, last, j - 1, x, U[n + 1])
      BY <2>4, <3>1, <3>2, GetInvStep
    <3>4. j - 1 \in -1 .. last /\ j - 1 = last - (n + 1)
      BY <3>1, <3>3
    <3>5. After(n + 1, j - 1)
      BY <3>3, <3>4
    <3>. HIDE DEF After
    <3>. QED  BY <2>3, <3>4, <3>5
  <2>5. CASE ~InFrame(d, U[n])
    <3>1. U[n + 1] = U[n]
      BY <2>2, <2>5 DEF GetNext
    <3>2. After(n + 1, j)
      BY <2>1, <2>5, <3>1
    <3>. HIDE DEF After
    <3>. QED  BY <2>3, <3>2
  <2>. QED  BY <2>4, <2>5
<1>4. L \in S
  <2>. HIDE DEF S
  <2>. QED  BY <1>2, <1>3, UpTo
<1>5. PICK j \in -1 .. last : After(L, j)
  BY <1>4
<1>6. PICK q : GetInv(d, L, s, last, j, q, U[L])
  BY <1>5
<1>7. ~InFrame(d, U[L])
  <2>1. SUFFICES ASSUME InFrame(d, U[L]) PROVE FALSE
    OBVIOUS
  <2>2. /\ j = last - L /\ U[L].i = Byte(s, j) /\ U[L].bits = Left(s, last, j)
        /\ \A n \in j + 1 .. last : Byte(s, n) >= 0 /\ Byte(s, n) < L
    BY <1>5, <1>6, <2>1 DEF GetInv
  <2>3. Byte(s, j) >= 0 /\ Byte(s, j) < L
    BY <1>0, <2>1, <2>2 DEF InFrame
  <2>4. j \in Int /\ last \in Int /\ Byte(s, j) \in Int /\ Byte(s, last) \in Int
    BY ByteParts
  <2>5. L > 0
    BY <2>3, <2>4
  <2>6. Byte(s, last) >= 0 /\ Byte(s, last) < L
    <3>1. last \in j + 1 .. last
      BY <2>2, <2>5
    <3>. QED  BY <2>2, <3>1
  <2>7. Byte(s, j) = Byte(s, last) - L \/ Byte(s, j) = Byte(s, last) + L
    <3>1. ByteOf(s.lsb) \in Int
      BY ByteParts
    <3>. QED  BY <2>2, <3>1 DEF Byte
  <2>. QED  BY <2>3, <2>4, <2>6, <2>7
<1>. QED  BY <1>1, <1>6, <1>7

\* get_raw_value has the bits from b up; if that is not all of them, the
\* frame ends below.
LEMMA GetTurnsBits ==
    ASSUME NEW L \in Nat, NEW d, IsBytes(d, L), NEW s, IsSignal(s),
           NEW start, start = [ret |-> 0, i |-> ByteOf(s.msb), bits |-> s.size]
    PROVE  \E b \in 0 .. s.size, q \in Nat :
              /\ q < Pow2[s.size - b]
              /\ GetTurns(d, s, start).ret = Pow2[b] * q
              /\ ReadBits(d, s, b, q, L)
              /\ b > 0 => Pos(s, b - 1) >= 8 * L
              /\ b > 0 /\ s.is_little_endian => b = s.size
              /\ ~s.is_little_endian => \A k \in 0 .. b - 1 : Pos(s, k) >= 8 * L
<1>1. PICK last \in Nat : LastByte(s, last)
  BY LastByteIs
<1>. DEFINE Ends(j) == \E q, t :
                 t = GetTurns(d, s, start) /\ GetInv(d, L, s, last, j, q, t) /\ ~InFrame(d, t)
<1>0. PICK j \in -1 .. last : Ends(j)
  BY <1>1, GetTurnsEnd
<1>2. PICK q, t :
         t = GetTurns(d, s, start) /\ GetInv(d, L, s, last, j, q, t) /\ ~InFrame(d, t)
  BY <1>0
<1>3. PICK n \in Nat \ {0} : n = s.size
  BY WordAssumption DEF IsSignal
<1>4. PICK b \in 0 .. n : b = Left(s, last, j) /\ t.bits = b /\ (j # -1 => b > 0)
  <2>1. t.bits = Left(s, last, j)
    BY <1>2 DEF GetInv
  <2>2. CASE j = -1
    BY <2>1, <2>2 DEF Left
  <2>3. CASE j # -1
    <3>1. j \in 0 .. last
      BY <2>3
    <3>2. PICK sh, ps : sh = Shift(s, Byte(s, j)) /\ ps = PartSize(s, Byte(s, j))
      OBVIOUS
    <3>3. Left(s, last, j) \in 1 .. s.size
      BY <1>1, <3>1, <3>2, PartPlace
    <3>. QED  BY <1>3, <2>1, <3>3
  <2>. QED  BY <2>2, <2>3
<1>5. /\ t.i = Byte(s, j)
      /\ q \in 0 .. Pow2[n - b] - 1
      /\ t.ret = Pow2[b] * q
      /\ ReadBits(d, s, b, q, L)
      /\ \A k \in j + 1 .. last : Byte(s, k) >= 0 /\ Byte(s, k) < L
  BY <1>2, <1>3, <1>4 DEF GetInv
<1>6. q \in Nat /\ q < Pow2[n - b]
  <2>1. Pow2[n - b] \in Nat
    BY PowNat
  <2>. QED  BY <1>5, <2>1
<1>7. j \in Int /\ last \in Int /\ ByteOf(s.lsb) \in Nat /\ Byte(s, j) \in Int /\ Byte(s, j + 1) \in Int
  BY ByteParts
<1>8. PICK f \in 0 .. 7 : f = FirstBit(s)
  BY ByteParts
<1>9. PICK r \in 0 .. 7 : f + (n - 1) = 8 * last + r
  BY <1>1, <1>3, <1>8 DEF LastByte
<1>10. b > 0 => j >= 0 /\ (b = IF j = last THEN n ELSE 8 * (j + 1) - f)
  BY <1>3, <1>4, <1>8 DEF Left
\* Where the missing bits are.
<1>11. ASSUME NEW k \in 0 .. b - 1
       PROVE  \E m \in 0 .. j, z \in 0 .. 7 : f + k = 8 * m + z /\ Pos(s, k) = 8 * Byte(s, m) + z
  <2>1. k \in Nat /\ b > 0
    OBVIOUS
  <2>2. PICK m \in Nat, z \in 0 .. 7 : f + k = 8 * m + z
    BY <1>8, <2>1, PosSplit
  <2>3. m \in 0 .. j
    <3>1. f + k < 8 * (j + 1)
      BY <1>9, <1>10, <2>1
    <3>. QED  BY <1>10, <2>1, <2>2, <3>1
  <2>4. Pos(s, k) = 8 * Byte(s, m) + z
    BY <1>8, <2>1, <2>2, PosIs
  <2>. QED  BY <2>2, <2>3, <2>4
<1>12. ASSUME b > 0
       PROVE  Byte(s, j) >= L
  <2>1. Byte(s, j) < 0 \/ Byte(s, j) >= L
    <3>1. L = Len(d)
      BY DEF IsBytes
    <3>. QED  BY <1>2, <1>4, <1>5, <1>7, <1>12, <3>1 DEF InFrame
  <2>2. PICK k \in 0 .. b - 1 : k = b - 1
    BY <1>12
  <2>3. PICK m \in 0 .. j, z \in 0 .. 7 : f + k = 8 * m + z /\ Pos(s, k) = 8 * Byte(s, m) + z
    BY <1>11
  <2>4. m = j
    BY <1>9, <1>10, <1>12, <2>2, <2>3
  <2>5. Pos(s, k) \in Nat
    <3>1. k \in 0 .. s.size - 1
      BY <1>3, <2>2
    <3>. QED  BY <3>1 DEF IsSignal
  <2>. QED  BY <1>7, <2>1, <2>3, <2>4, <2>5
<1>13. ASSUME b > 0
       PROVE  Pos(s, b - 1) >= 8 * L
  <2>2. PICK k \in 0 .. b - 1 : k = b - 1
    BY <1>13
  <2>3. PICK m \in 0 .. j, z \in 0 .. 7 : f + k = 8 * m + z /\ Pos(s, k) = 8 * Byte(s, m) + z
    BY <1>11
  <2>4. m = j
    BY <1>9, <1>10, <1>13, <2>2, <2>3
  <2>. QED  BY <1>7, <1>12, <1>13, <2>2, <2>3, <2>4
<1>14. ASSUME b > 0, s.is_little_endian
       PROVE  b = n
  <2>1. CASE j = last
    BY <1>10, <1>14, <2>1
  <2>2. CASE j # last
    <3>1. j + 1 \in j + 1 .. last
      BY <2>2
    <3>2. Byte(s, j + 1) < L
      BY <1>5, <3>1
    <3>3. Byte(s, j + 1) = Byte(s, j) + 1
      BY <1>7, <1>14 DEF Byte
    <3>. QED  BY <1>7, <1>12, <1>14, <3>2, <3>3
  <2>. QED  BY <2>1, <2>2
<1>15. ASSUME ~s.is_little_endian, NEW k \in 0 .. b - 1
       PROVE  Pos(s, k) >= 8 * L
  <2>1. b > 0
    OBVIOUS
  <2>2. PICK m \in 0 .. j, z \in 0 .. 7 : Pos(s, k) = 8 * Byte(s, m) + z
    BY <1>11
  <2>3. Byte(s, m) >= Byte(s, j) /\ Byte(s, m) \in Int
    BY <1>7, <1>15 DEF Byte
  <2>. QED  BY <1>7, <1>12, <2>1, <2>2, <2>3
<1>. QED  BY <1>2, <1>3, <1>5, <1>6, <1>13, <1>14, <1>15

LEMMA ZeroBits == \A k \in Nat : Bit(0, k) = 0
<1>. SUFFICES ASSUME NEW k \in Nat PROVE Bit(0, k) = 0
  OBVIOUS
<1>1. Pow2[k] \in Nat \ {0}
  BY PowNat
<1>2. 0 \div Pow2[k] = 0
  <2>1. 0 = Pow2[k] * 0 + 0
    BY <1>1
  <2>. QED  BY <1>1, <2>1, DivIs
<1>. QED  BY <1>2 DEF Bit

LEMMA GetRawValueBits ==
    ASSUME NEW L \in Nat, NEW d, IsBytes(d, L), NEW s, IsSignal(s)
    PROVE  /\ \A k \in 0 .. s.size - 1 :
                 Bit(GetRawValue(d, s), k) =
                    IF Pos(s, k) < 8 * L /\ (WholeIn(s, L) \/ ~s.is_little_endian)
                    THEN BitOf(d, Pos(s, k)) ELSE 0
           /\ s.size < WordBits => GetRawValue(d, s) \in 0 .. Pow2[s.size] - 1
<1>. DEFINE start == [ret |-> 0, i |-> ByteOf(s.msb), bits |-> s.size]
            ret   == GetTurns(d, s, start).ret
            raw1  == IF s.size < WordBits THEN ret ELSE AsSigned(ret)
<1>1. GetRawValue(d, s) = raw1
  BY Zenon DEF GetRawValue
<1>2. PICK n \in Nat \ {0} : n = s.size /\ n <= WordBits
  BY WordAssumption DEF IsSignal
<1>3. PICK b \in 0 .. n, q \in Nat :
         /\ q < Pow2[n - b]
         /\ ret = Pow2[b] * q
         /\ ReadBits(d, s, b, q, L)
         /\ b > 0 => Pos(s, b - 1) >= 8 * L
         /\ b > 0 /\ s.is_little_endian => b = n
         /\ ~s.is_little_endian => \A k \in 0 .. b - 1 : Pos(s, k) >= 8 * L
  BY <1>2, GetTurnsBits
<1>. HIDE DEF start, ret
<1>4. ret \in 0 .. Pow2[n] - 1
  <2>1. PICK A, C : A = Pow2[b] /\ C = Pow2[n - b] /\ Pow2[n] = A * C /\ A \in Nat \ {0} /\ C \in Nat \ {0}
    <3>1. b \in Nat /\ n - b \in Nat /\ b + (n - b) = n
      OBVIOUS
    <3>2. Pow2[b + (n - b)] = Pow2[b] * Pow2[n - b]
      BY <3>1, PowAdd
    <3>. QED  BY <3>1, <3>2, PowNat
  <2>2. q <= C - 1
    BY <1>3, <2>1
  <2>3. A * q <= A * (C - 1) /\ A * (C - 1) = A * C - A /\ A * q >= 0 /\ A * q \in Int /\ A * C \in Int
    BY <2>1, <2>2
  <2>. QED  BY <1>3, <2>1, <2>3
<1>5. \A k \in 0 .. n - 1 : Bit(ret, k) = IF k < b THEN 0 ELSE Bit(q, k - b)
  <2>. SUFFICES ASSUME NEW k \in 0 .. n - 1
                PROVE  Bit(ret, k) = IF k < b THEN 0 ELSE Bit(q, k - b)
    OBVIOUS
  <2>1. k \in Nat /\ b \in Nat /\ q \in Int
    OBVIOUS
  <2>2. Pow2[b] \in Nat \ {0}
    BY <2>1, PowNat
  <2>3. 0 \in 0 .. Pow2[b] - 1 /\ ret = Pow2[b] * q + 0
    BY <1>3, <2>1, <2>2
  <2>4. Bit(Pow2[b] * q + 0, k) = IF k < b THEN Bit(0, k) ELSE Bit(q, k - b)
    BY <2>1, <2>3, BitJoin
  <2>. QED  BY <2>1, <2>3, <2>4, ZeroBits
<1>6. \A k \in 0 .. n - 1 : Bit(raw1, k) = Bit(ret, k)
  <2>. SUFFICES ASSUME NEW k \in 0 .. n - 1, ~(s.size < WordBits), ret >= Pow2[WordBits - 1]
                PROVE  Bit(ret - Pow2[WordBits], k) = Bit(ret, k)
    BY DEF AsSigned
  <2>1. n = WordBits /\ n \in Nat /\ k \in Nat /\ k < n
    BY <1>2, WordAssumption
  <2>2. Pow2[n] \in Nat \ {0}
    BY <2>1, PowNat
  <2>3. ret - Pow2[n] = Pow2[n] * (-1) + ret
    BY <1>4, <2>2
  <2>4. Bit(Pow2[n] * (-1) + ret, k) = Bit(ret, k)
    <3>1. -1 \in Int
      OBVIOUS
    <3>. QED  BY <1>4, <2>1, <3>1, BitJoin
  <2>. QED  BY <2>1, <2>3, <2>4
<1>7. ASSUME NEW k \in 0 .. n - 1
      PROVE  Bit(raw1, k) = IF Pos(s, k) < 8 * L /\ (WholeIn(s, L) \/ ~s.is_little_endian)
                            THEN BitOf(d, Pos(s, k)) ELSE 0
  <2>1. \A m \in 0 .. n - 1 : Pos(s, m) \in Nat
    BY <1>2 DEF IsSignal
  <2>2. CASE k < b
    <3>1. PICK m \in 0 .. n - 1 : m = b - 1 /\ Pos(s, m) >= 8 * L
      BY <1>3, <2>2
    <3>2. ~WholeIn(s, L)
      BY <1>2, <2>1, <3>1 DEF WholeIn
    <3>3. ~s.is_little_endian => ~(Pos(s, k) < 8 * L)
      BY <1>3, <2>1, <2>2
    <3>. HIDE DEF raw1
    <3>. QED  BY <1>5, <1>6, <2>2, <3>2, <3>3
  <2>3. CASE ~(k < b)
    <3>1. k \in b .. n - 1
      BY <2>3
    <3>2. Pos(s, k) < 8 * L /\ Bit(q, k - b) = BitOf(d, Pos(s, k))
      BY <1>2, <1>3, <3>1 DEF ReadBits
    <3>3. s.is_little_endian => WholeIn(s, L)
      <4>1. SUFFICES ASSUME s.is_little_endian PROVE WholeIn(s, L)
        OBVIOUS
      <4>2. b = 0
        BY <1>3, <3>1, <4>1
      <4>. QED  BY <1>2, <1>3, <4>2 DEF WholeIn, ReadBits
    <3>. HIDE DEF raw1
    <3>. QED  BY <1>5, <1>6, <2>3, <3>2, <3>3
  <2>. QED  BY <2>2, <2>3
<1>. QED  BY <1>1, <1>2, <1>4, <1>7

-----------------------------------------------------------------------------
(***************************************************************************)
(* Placed puts a signal where its bit positions say.                       *)
(***************************************************************************)
PositionOf(start, s, k) ==
    IF s.is_little_endian THEN start + k
    ELSE LET from_top == (7 - (start % 8)) + s.size - 1 - k IN
         8 * (start \div 8 + from_top \div 8) + 7 - (from_top % 8)

IsPlaced(start, s) ==
    /\ start \in Starts /\ s.size \in Sizes /\ s.is_little_endian \in BOOLEAN
    /\ s.lsb = SignalLsb(start, s.size, s.is_little_endian)
    /\ s.msb = SignalMsb(start, s.size, s.is_little_endian)

SplitAs(x, q, r) == q \in Int /\ r \in Int /\ 0 <= r /\ r <= 7 /\ x = 8 * q + r

LEMMA SplitExists ==
    ASSUME NEW x \in Int
    PROVE  \E q, r \in Int : SplitAs(x, q, r)
<1>1. x \div 8 \in Int /\ x % 8 \in Int /\ 0 <= x % 8 /\ x % 8 <= 7 /\ x = 8 * (x \div 8) + (x % 8)
  OBVIOUS
<1>. QED  BY <1>1, Zenon DEF SplitAs

LEMMA SplitIs ==
    ASSUME NEW x, NEW q, NEW r, SplitAs(x, q, r)
    PROVE  x \in Int /\ x \div 8 = q /\ x % 8 = r
BY DEF SplitAs

LEMMA FirstIs ==
    ASSUME NEW s, NEW q, NEW r, SplitAs(s.lsb, q, r)
    PROVE  FirstBit(s) = r /\ ByteOf(s.lsb) = q
BY SplitIs, Zenon DEF FirstBit, ByteOf

LEMMA PosAt ==
    ASSUME NEW s, NEW k, NEW m, NEW z, SplitAs(FirstBit(s) + k, m, z)
    PROVE  Pos(s, k) = 8 * Byte(s, m) + z
<1>1. (FirstBit(s) + k) \div 8 = m /\ (FirstBit(s) + k) % 8 = z
  BY SplitIs, Zenon
<1>. QED  BY <1>1, Zenon DEF Pos

LEMMA SizeIs ==
    ASSUME NEW start, NEW s, IsPlaced(start, s)
    PROVE  s.size \in Int /\ 0 < s.size /\ s.size <= WordBits /\ start \in Int /\ 0 <= start
<1>1. s.size \in 1 .. WordBits /\ start \in 0 .. 511
  BY PlacesAssumption, Zenon DEF IsPlaced
<1>. QED  BY <1>1, WordAssumption

LEMMA PlacedLittle ==
    ASSUME NEW start, NEW s, IsPlaced(start, s), s.is_little_endian
    PROVE  IsSignal(s) /\ \A k \in 0 .. s.size - 1 : PositionOf(start, s, k) = Pos(s, k)
<1>1. PICK n \in Int : n = s.size /\ 0 < n /\ n <= WordBits
  BY SizeIs, Zenon
<1>2. PICK a \in Int : a = start /\ 0 <= a
  BY SizeIs, Zenon
<1>3. s.lsb = a /\ s.msb = a + n - 1
  BY <1>1, <1>2, Zenon DEF IsPlaced, SignalLsb, SignalMsb
<1>4. PICK q, r \in Int : SplitAs(a, q, r)
  BY <1>2, SplitExists, Zenon
<1>5. ASSUME NEW k \in Int
      PROVE  Pos(s, k) = a + k
  <2>1. r + k \in Int
    OBVIOUS
  <2>2. PICK m, z \in Int : SplitAs(r + k, m, z)
    BY <2>1, SplitExists, Zenon
  <2>3. FirstBit(s) = r /\ Byte(s, m) = q + m
    BY <1>3, <1>4, FirstIs, Zenon DEF Byte
  <2>4. Pos(s, k) = 8 * (q + m) + z
    <3>1. SplitAs(FirstBit(s) + k, m, z)
      BY <2>2, <2>3, Zenon
    <3>2. Pos(s, k) = 8 * Byte(s, m) + z
      BY <3>1, PosAt, Zenon
    <3>. QED  BY <2>3, <3>2, Zenon
  <2>. QED  BY <1>4, <2>2, <2>4 DEF SplitAs
<1>6. \A k \in 0 .. s.size - 1 : Pos(s, k) \in Nat /\ PositionOf(start, s, k) = Pos(s, k)
  <2>. TAKE k \in 0 .. s.size - 1
  <2>1. k \in Int /\ 0 <= k
    BY <1>1
  <2>2. Pos(s, k) = a + k /\ PositionOf(start, s, k) = a + k
    BY <1>2, <1>5, <2>1, Zenon DEF PositionOf
  <2>. QED  BY <1>2, <2>1, <2>2
<1>7. Pos(s, n - 1) = s.msb
  <2>1. n - 1 \in Int /\ a + (n - 1) = a + n - 1
    BY <1>1, <1>2
  <2>. QED  BY <1>3, <1>5, <2>1, Zenon
<1>. QED  BY <1>1, <1>2, <1>3, <1>6, <1>7 DEF IsSignal

LEMMA BeBitIs ==
    ASSUME NEW x, NEW q, NEW r, SplitAs(x, q, r)
    PROVE  BeBit(x) = 8 * q + 7 - r
BY SplitIs, Zenon DEF BeBit

LEMMA BigLsb ==
    ASSUME NEW start, NEW s, IsPlaced(start, s), ~s.is_little_endian,
           NEW q, NEW r, NEW g, NEW h,
           SplitAs(start, q, r), SplitAs((7 - r) + s.size - 1, g, h)
    PROVE  SplitAs(s.lsb, q + g, 7 - h) /\ s.msb = start
<1>1. s.lsb = BeBits[BePosition(start) + s.size - 1] /\ s.msb = start
      /\ BePosition(start) + s.size - 1 \in DOMAIN BeBits
  BY PlacesAssumption, Zenon DEF IsPlaced, SignalLsb, SignalMsb
<1>2. s.lsb = BeBit(BePosition(start) + s.size - 1)
  BY <1>1, Zenon DEF BeBits
<1>3. BePosition(start) = 8 * q + 7 - r
  BY BeBitIs, Zenon DEF BePosition
<1>4. PICK n \in Int : n = s.size
  BY SizeIs, Zenon
<1>5. SplitAs(BePosition(start) + s.size - 1, q + g, h)
  BY <1>3, <1>4 DEF SplitAs
<1>6. s.lsb = 8 * (q + g) + 7 - h
  BY <1>2, <1>5, BeBitIs, Zenon
<1>. QED  BY <1>1, <1>6 DEF SplitAs

LEMMA PlacedBig ==
    ASSUME NEW start, NEW s, IsPlaced(start, s), ~s.is_little_endian
    PROVE  IsSignal(s) /\ \A k \in 0 .. s.size - 1 : PositionOf(start, s, k) = Pos(s, k)
<1>1. PICK n \in Int : n = s.size /\ 0 < n /\ n <= WordBits
  BY SizeIs, Zenon
<1>2. PICK a \in Int : a = start /\ 0 <= a
  BY SizeIs, Zenon
<1>3. PICK q, r \in Int : SplitAs(start, q, r)
  BY <1>2, SplitExists, Zenon
<1>4. PICK g, h \in Int : SplitAs((7 - r) + s.size - 1, g, h)
  <2>1. (7 - r) + n - 1 \in Int
    BY <1>1
  <2>. QED  BY <1>1, <2>1, SplitExists, Zenon
<1>5. SplitAs(s.lsb, q + g, 7 - h) /\ s.msb = start
  BY <1>3, <1>4, BigLsb, Zenon
<1>6. q >= 0 /\ g >= 0 /\ (7 - r) + n - 1 = 8 * g + h
  BY <1>1, <1>2, <1>3, <1>4 DEF SplitAs
<1>7. ASSUME NEW k \in Int, 0 <= k, k <= n - 1
      PROVE  Pos(s, k) \in Nat /\ PositionOf(start, s, k) = Pos(s, k)
  <2>1. (7 - h) + k \in Int
    OBVIOUS
  <2>2. PICK m, z \in Int : SplitAs((7 - h) + k, m, z)
    BY <2>1, SplitExists, Zenon
  <2>3. Pos(s, k) = 8 * (q + g - m) + z
    <3>1. FirstBit(s) = 7 - h /\ ByteOf(s.lsb) = q + g
      BY <1>5, FirstIs, Zenon
    <3>2. Byte(s, m) = (q + g) - m
      BY <3>1, Zenon DEF Byte
    <3>3. SplitAs(FirstBit(s) + k, m, z)
      BY <2>2, <3>1, Zenon
    <3>4. Pos(s, k) = 8 * Byte(s, m) + z
      BY <3>3, PosAt, Zenon
    <3>. QED  BY <3>2, <3>4
  <2>4. SplitAs((7 - (start % 8)) + s.size - 1 - k, g - m, 7 - z)
    <3>1. start % 8 = r
      BY <1>3, SplitIs, Zenon
    <3>. QED  BY <1>1, <1>3, <1>6, <2>2, <3>1 DEF SplitAs
  <2>5. PositionOf(start, s, k) = 8 * (q + (g - m)) + 7 - (7 - z)
    <3>. DEFINE from_top == (7 - (start % 8)) + s.size - 1 - k
    <3>1. PositionOf(start, s, k) = 8 * (start \div 8 + from_top \div 8) + 7 - (from_top % 8)
      BY Zenon DEF PositionOf
    <3>2. from_top \div 8 = g - m /\ from_top % 8 = 7 - z /\ start \div 8 = q
      BY <1>3, <2>4, SplitIs, Zenon
    <3>. QED  BY <3>1, <3>2, Zenon
  <2>. QED  BY <1>3, <1>4, <1>6, <1>7, <2>2, <2>3, <2>5 DEF SplitAs
<1>8. Pos(s, n - 1) = s.msb
  <2>1. SplitAs((7 - h) + (n - 1), g, r)
    BY <1>3, <1>6 DEF SplitAs
  <2>2. Pos(s, n - 1) = 8 * (q + g - g) + r
    <3>1. FirstBit(s) = 7 - h /\ ByteOf(s.lsb) = q + g
      BY <1>5, FirstIs, Zenon
    <3>2. Byte(s, g) = (q + g) - g
      BY <3>1, Zenon DEF Byte
    <3>3. SplitAs(FirstBit(s) + (n - 1), g, r)
      BY <2>1, <3>1, Zenon
    <3>4. Pos(s, n - 1) = 8 * Byte(s, g) + r
      BY <3>3, PosAt, Zenon
    <3>. QED  BY <3>2, <3>4
  <2>. QED  BY <1>3, <1>5, <2>2 DEF SplitAs
<1>9. s.lsb \in Nat
  BY <1>5, <1>6, <1>4 DEF SplitAs
<1>10. \A k \in 0 .. s.size - 1 : Pos(s, k) \in Nat /\ PositionOf(start, s, k) = Pos(s, k)
  BY <1>1, <1>7
<1>11. s.msb \in Nat
  BY <1>2, <1>5
<1>. QED  BY <1>1, <1>8, <1>9, <1>10, <1>11 DEF IsSignal, IsPlaced

LEMMA PlacedIs ==
    ASSUME NEW start, NEW s, IsPlaced(start, s)
    PROVE  IsSignal(s) /\ \A k \in 0 .. s.size - 1 : PositionOf(start, s, k) = Pos(s, k)
BY PlacedLittle, PlacedBig, Zenon

-----------------------------------------------------------------------------
(***************************************************************************)
(* Rounding and scaling.                                                   *)
(***************************************************************************)
LEMMA SignIs ==
    ASSUME NEW n \in Int
    PROVE  /\ Magnitude(n) \in Nat /\ SignOf(n) \in {-1, 1} /\ n = SignOf(n) * Magnitude(n)
           /\ n # 0 => Magnitude(n) > 0
BY DEF Magnitude, SignOf

LEMMA SignsCancel ==
    ASSUME NEW q \in Int, NEW b \in Int, NEW e \in {-1, 1}, NEW g \in {-1, 1}
    PROVE  e * g * q \in Int /\ (e * g * q) * (g * b) = e * (b * q)
<1>1. (-q) * (-b) = b * q /\ (-q) * b = -(b * q) /\ q * (-b) = -(b * q) /\ q * b = b * q
  OBVIOUS
<1>2. CASE e = 1 /\ g = 1
  BY <1>1, <1>2
<1>3. CASE e = 1 /\ g = -1
  BY <1>1, <1>3
<1>4. CASE e = -1 /\ g = 1
  BY <1>1, <1>4
<1>5. CASE e = -1 /\ g = -1
  BY <1>1, <1>5
<1>. QED  BY <1>2, <1>3, <1>4, <1>5

LEMMA HalfAway ==
    ASSUME NEW a \in Int, NEW b \in Int, NEW z \in Int, NEW r \in Int, NEW e \in {-1, 1},
           2 * a + b = 2 * z + r, 0 <= r, r <= 2 * b - 1
    PROVE  2 * Magnitude(e * z - e * a) <= b
<1>1. CASE e = 1
  BY <1>1 DEF Magnitude
<1>2. CASE e = -1
  BY <1>2 DEF Magnitude
<1>. QED  BY <1>1, <1>2

\* Round finds an integer no further than half a divisor away.
LEMMA RoundIs ==
    ASSUME NEW n \in Int, NEW d \in Int, d # 0
    PROVE  Round(n, d) \in Int /\ 2 * Magnitude(Round(n, d) * d - n) <= Magnitude(d)
<1>1. PICK a \in Int, b \in Int, e \in {-1, 1}, g \in {-1, 1} :
         /\ a = Magnitude(n) /\ b = Magnitude(d) /\ e = SignOf(n) /\ g = SignOf(d)
         /\ a >= 0 /\ b > 0 /\ n = e * a /\ d = g * b
  BY SignIs
<1>2. 2 * b \in Nat \ {0} /\ 2 * a + b \in Int
  BY <1>1
<1>3. PICK q \in Int, r \in Int :
         q = (2 * a + b) \div (2 * b) /\ 2 * a + b = (2 * b) * q + r /\ 0 <= r /\ r <= 2 * b - 1
  <2>1. PICK q \in Int, r \in 0 .. 2 * b - 1 :
           q = (2 * a + b) \div (2 * b) /\ 2 * a + b = (2 * b) * q + r
    BY <1>2, DivMod
  <2>. QED  BY <2>1, <1>1
<1>4. Round(n, d) = e * g * q
  BY <1>1, <1>3 DEF Round
<1>5. PICK z \in Int : z = b * q /\ 2 * a + b = 2 * z + r
  <2>1. (2 * b) * q = 2 * (b * q) /\ b * q \in Int
    BY <1>1
  <2>. QED  BY <1>3, <2>1
<1>6. e * g * q \in Int /\ (e * g * q) * d = e * z
  <2>1. e * g * q \in Int /\ (e * g * q) * (g * b) = e * (b * q)
    BY SignsCancel
  <2>. QED  BY <1>1, <1>5, <2>1, Zenon
<1>7. Round(n, d) * d - n = e * z - e * a
  BY <1>1, <1>4, <1>6, Zenon
<1>8. 2 * Magnitude(e * z - e * a) <= b
  BY <1>3, <1>5, HalfAway
<1>. QED  BY <1>1, <1>4, <1>6, <1>7, <1>8, Zenon

\* No integer next to it is closer.
LEMMA RoundNearest ==
    ASSUME NEW x \in Int, NEW d \in Int, d # 0, NEW o \in Int, NEW n \in Int,
           Round(x - o, d) - 1 <= n, n <= Round(x - o, d) + 1
    PROVE  Magnitude((Round(x - o, d) * d + o) - x) <= Magnitude((n * d + o) - x)
<1>1. x - o \in Int
  OBVIOUS
<1>2. PICK t \in Int : t = Round(x - o, d) /\ 2 * Magnitude(t * d - (x - o)) <= Magnitude(d)
  BY <1>1, RoundIs
<1>3. PICK z \in Int : z = t * d
  OBVIOUS
<1>4. n = t - 1 \/ n = t \/ n = t + 1
  <2>1. t - 1 <= n /\ n <= t + 1
    BY <1>2, Zenon
  <2>. QED  BY <2>1
<1>5. n * d = z - d \/ n * d = z \/ n * d = z + d
  <2>1. (t - 1) * d = t * d - d /\ (t + 1) * d = t * d + d
    OBVIOUS
  <2>. QED  BY <1>3, <1>4, <2>1
<1>6. PICK y \in Int : y = n * d /\ (y = z - d \/ y = z \/ y = z + d)
  BY <1>3, <1>5
<1>7. Magnitude((z + o) - x) <= Magnitude((y + o) - x)
  BY <1>2, <1>3, <1>6 DEF Magnitude
<1>. QED  BY <1>2, <1>3, <1>6, <1>7

LEMMA EncodeInt ==
    ASSUME NEW s, IsSignal(s), IsScaled(s), NEW v \in Int, NEW shl \in Int
    PROVE  Encode(s, v, shl) \in Int
<1>1. PICK f \in Int, o \in Int : f = s.factor /\ o = s.offset /\ f # 0
  BY DEF IsScaled
<1>2. v - o \in Int
  OBVIOUS
<1>3. PICK t \in Int : t = Round(v - s.offset, s.factor)
  BY <1>1, <1>2, RoundIs
<1>4. PICK h \in Int : h = OneShifted(s.size, shl)
  <2>1. s.size \in Nat
    BY WordAssumption DEF IsSignal
  <2>2. Pow2[s.size] \in Int
    BY <2>1, PowNat
  <2>. QED  BY <2>2 DEF OneShifted
<1>5. Encode(s, v, shl) = IF t < 0 THEN h + t ELSE t
  BY <1>3, <1>4, Zenon DEF Encode
<1>. QED  BY <1>5

-----------------------------------------------------------------------------
(***************************************************************************)
(* The states of the specification: the last write is a set_value on the   *)
(* frame before it.                                                        *)
(***************************************************************************)
FramesKept == \E L \in Nat : IsBytes(dat, L) /\ IsBytes(previous, L)

LastWrite ==
    written => /\ dat = SetValue(previous, sig, raw)
               /\ \E shl \in ShiftOutcomes : raw = Encode(sig, physical, shl)

AccessInv ==
    /\ FramesKept
    /\ IsPlaced(start_bit, sig) /\ IsScaled(sig)
    /\ physical \in Int /\ raw \in Int
    /\ LastWrite

LEMMA ScaledIs ==
    ASSUME NEW s \in Starts, NEW n \in Sizes, NEW little \in BOOLEAN, NEW scale \in Scales
    PROVE  IsPlaced(s, Scaled(Placed(s, n, little), scale)) /\ IsScaled(Scaled(Placed(s, n, little), scale))
<1>. DEFINE p == Placed(s, n, little)
            x == Scaled(p, scale)
<1>1. /\ p.lsb = SignalLsb(s, n, little) /\ p.msb = SignalMsb(s, n, little)
      /\ p.size = n /\ p.is_little_endian = little
  BY DEF Placed
<1>2. /\ x.lsb = p.lsb /\ x.msb = p.msb /\ x.size = p.size /\ x.is_little_endian = p.is_little_endian
      /\ x.is_signed = scale.is_signed /\ x.factor = scale.factor /\ x.offset = scale.offset
  BY DEF Scaled
<1>3. scale.is_signed \in BOOLEAN /\ scale.factor \in Int \ {0} /\ scale.offset \in Int
  BY InputAssumption
<1>. HIDE DEF p, x
<1>4. IsPlaced(s, x)
  BY <1>1, <1>2, Zenon DEF IsPlaced
<1>5. IsScaled(x)
  BY <1>2, <1>3 DEF IsScaled
<1>. QED  BY <1>4, <1>5 DEF p, x

LEMMA AccessStart == AccessInit => AccessInv
<1>. SUFFICES ASSUME AccessInit PROVE AccessInv
  OBVIOUS
<1>1. FramesKept
  <2>1. dat \in Seq(0 .. 255) /\ previous = dat
    BY InputAssumption DEF AccessInit
  <2>2. Len(dat) \in Nat
    BY <2>1
  <2>. QED  BY <2>1, <2>2 DEF FramesKept, IsBytes
<1>2. IsPlaced(start_bit, sig) /\ IsScaled(sig)
  BY ScaledIs, Zenon DEF AccessInit
<1>3. physical \in Int /\ raw \in Int /\ LastWrite
  BY DEF AccessInit, LastWrite
<1>. QED  BY <1>1, <1>2, <1>3 DEF AccessInv

LEMMA AccessKept == AccessInv /\ [AccessNext]_accessVars => AccessInv'
<1>. SUFFICES ASSUME AccessInv, [AccessNext]_accessVars PROVE AccessInv'
  OBVIOUS
<1>. USE DEF AccessInv
<1>1. CASE UNCHANGED accessVars
  BY <1>1 DEF accessVars, FramesKept, LastWrite, IsBytes
<1>2. ASSUME NEW v \in Values, NEW shl \in ShiftOutcomes, Write(v, shl)
      PROVE  AccessInv'
  <2>1. v \in Int /\ shl \in Int
    BY InputAssumption
  <2>2. IsPlaced(start_bit', sig') /\ IsScaled(sig') /\ sig' = sig
    BY <1>2, Zenon DEF Write
  <2>3. PICK x \in Int : x = Encode(sig, v, shl)
    BY <2>1, PlacedIs, EncodeInt
  <2>4. dat' = SetValue(dat, sig, x) /\ previous' = dat /\ raw' = x /\ physical' = v
    BY <1>2, <2>3, Zenon DEF Write
  <2>5. FramesKept'
    <3>1. PICK L \in Nat : IsBytes(dat, L)
      BY DEF FramesKept
    <3>2. IsBytes(SetValue(dat, sig, x), L)
      BY <3>1, PlacedIs, SetValueBits
    <3>3. IsBytes(dat', L) /\ IsBytes(previous', L)
      BY <2>4, <3>1, <3>2, Zenon
    <3>. QED  BY <3>3, Zenon DEF FramesKept, IsBytes
  <2>6. LastWrite'
    BY <2>2, <2>3, <2>4, Zenon DEF LastWrite
  <2>. QED  BY <2>1, <2>2, <2>3, <2>4, <2>5, <2>6
<1>. QED  BY <1>1, <1>2 DEF AccessNext

(***************************************************************************)
(* Frames keep their bytes and their length, signals lie where Placed put  *)
(* them, and the frame is always what set_value made of the one before it, *)
(* of a raw value pack() rounded and wrapped.                              *)
(***************************************************************************)
THEOREM AccessInvariant == AccessSpec => []AccessInv
<1>. QED  BY AccessStart, AccessKept, PTL DEF AccessSpec

\* The reference's positions are those the code walks.
LEMMA PositionIs ==
    ASSUME AccessInv
    PROVE  IsSignal(sig) /\ \A k \in 0 .. sig.size - 1 : Position(k) = Pos(sig, k) /\ Position(k) \in Nat
<1>1. IsSignal(sig) /\ \A k \in 0 .. sig.size - 1 : PositionOf(start_bit, sig, k) = Pos(sig, k)
  BY PlacedIs, Zenon DEF AccessInv
<1>2. \A k : Position(k) = PositionOf(start_bit, sig, k)
  BY Zenon DEF Position, PositionOf
<1>. QED  BY <1>1, <1>2 DEF IsSignal

LEMMA FitsIs ==
    ASSUME AccessInv, NEW L \in Nat, IsBytes(dat, L)
    PROVE  FrameBits = 8 * L /\ (Fits <=> WholeIn(sig, L))
<1>1. FrameBits = 8 * L
  BY Zenon DEF FrameBits, IsBytes
<1>. QED  BY <1>1, PositionIs, Zenon DEF Fits, Positions, WholeIn

LEMMA WritesItsBitsInv == AccessInv => WritesItsBits
<1>. SUFFICES ASSUME AccessInv, written PROVE WritesItsBits
  BY Zenon DEF WritesItsBits
<1>1. PICK L \in Nat : IsBytes(dat, L) /\ IsBytes(previous, L)
  BY DEF AccessInv, FramesKept
<1>2. dat = SetValue(previous, sig, raw) /\ raw \in Int
  BY Zenon DEF AccessInv, LastWrite
<1>3. FrameBits = 8 * L /\ (Fits <=> WholeIn(sig, L))
  BY <1>1, FitsIs
<1>4. IsSignal(sig) /\ \A k \in 0 .. sig.size - 1 : Position(k) = Pos(sig, k)
  BY PositionIs
<1>5. ASSUME NEW k \in 0 .. sig.size - 1, Position(k) < FrameBits
      PROVE  BitOf(dat, Position(k)) =
                IF sig.is_little_endian \/ Fits THEN (raw \div Pow2[k]) % 2
                ELSE BitOf(previous, Position(k))
  <2>1. Pos(sig, k) < 8 * L
    BY <1>3, <1>4, <1>5, Zenon
  <2>2. BitOf(dat, Pos(sig, k)) =
           IF sig.is_little_endian \/ WholeIn(sig, L) THEN Bit(raw, k) ELSE BitOf(previous, Pos(sig, k))
    <3>1. BitOf(SetValue(previous, sig, raw), Pos(sig, k)) =
             IF sig.is_little_endian \/ WholeIn(sig, L) THEN Bit(raw, k) ELSE BitOf(previous, Pos(sig, k))
      BY <1>1, <1>2, <1>4, <2>1, SetValueBits
    <3>. QED  BY <1>2, <3>1, Zenon
  <2>3. Position(k) = Pos(sig, k) /\ (Fits <=> WholeIn(sig, L)) /\ Bit(raw, k) = (raw \div Pow2[k]) % 2
    BY <1>3, <1>4, Zenon DEF Bit
  <2>. QED  BY <2>2, <2>3, Zenon
<1>6. ASSUME NEW p \in 0 .. FrameBits - 1, p \notin Positions
      PROVE  BitOf(dat, p) = BitOf(previous, p)
  <2>1. \A k \in 0 .. sig.size - 1 : p # Pos(sig, k)
    BY <1>4, <1>6, Zenon DEF Positions
  <2>2. p \in 0 .. 8 * L - 1
    BY <1>3, Zenon
  <2>3. BitOf(SetValue(previous, sig, raw), p) = BitOf(previous, p)
    BY <1>1, <1>2, <1>4, <2>1, <2>2, SetValueBits
  <2>. QED  BY <1>2, <2>3, Zenon
<1>. QED  BY <1>5, <1>6, Zenon DEF WritesItsBits

(***************************************************************************)
(* set_value (packer.cc:18) writes bit k of the value to bit k of the      *)
(* signal, in either byte order, and leaves every other bit of the frame   *)
(* alone; of a signal that leaves the frame, what the frame holds of it if *)
(* it is little endian, and nothing if it is big endian.                   *)
(***************************************************************************)
THEOREM WritesItsBitsHolds == AccessSpec => []WritesItsBits
<1>. QED  BY AccessInvariant, WritesItsBitsInv, PTL

LEMMA ReadsItsBitsInv == AccessInv => ReadsItsBits
<1>. SUFFICES ASSUME AccessInv, Fits, NEW k \in 0 .. sig.size - 1
              PROVE  (GetRawValue(dat, sig) \div Pow2[k]) % 2 = BitOf(dat, Position(k))
  BY Zenon DEF ReadsItsBits
<1>1. PICK L \in Nat : IsBytes(dat, L)
  BY DEF AccessInv, FramesKept
<1>2. IsSignal(sig) /\ Position(k) = Pos(sig, k) /\ WholeIn(sig, L)
  BY <1>1, FitsIs, PositionIs, Zenon
<1>3. Pos(sig, k) < 8 * L
  BY <1>2, Zenon DEF WholeIn
<1>4. Bit(GetRawValue(dat, sig), k) = BitOf(dat, Pos(sig, k))
  BY <1>1, <1>2, <1>3, GetRawValueBits, Zenon
<1>. QED  BY <1>2, <1>4, Zenon DEF Bit

(***************************************************************************)
(* get_raw_value (parser.cc:14) reads bit for bit what is in a frame that  *)
(* holds the whole signal.                                                 *)
(***************************************************************************)
THEOREM ReadsItsBitsHolds == AccessSpec => []ReadsItsBits
<1>. QED  BY AccessInvariant, ReadsItsBitsInv, PTL

LEMMA SubSeqIs ==
    ASSUME NEW S, NEW e \in Seq(S), NEW n \in 0 .. Len(e)
    PROVE  /\ SubSeq(e, 1, n) \in Seq(S) /\ Len(SubSeq(e, 1, n)) = n
           /\ \A i \in 1 .. n : SubSeq(e, 1, n)[i] = e[i]
OBVIOUS

LEMMA CutIs ==
    ASSUME NEW L \in Nat, NEW d, IsBytes(d, L), NEW n \in 0 .. L
    PROVE  /\ n \in Nat /\ IsBytes(SubSeq(d, 1, n), n)
           /\ \A p \in Nat : p < 8 * n => BitOf(SubSeq(d, 1, n), p) = BitOf(d, p)
<1>1. d \in Seq(0 .. 255) /\ Len(d) = L /\ n \in Nat
  BY DEF IsBytes
<1>2. /\ SubSeq(d, 1, n) \in Seq(0 .. 255) /\ Len(SubSeq(d, 1, n)) = n
      /\ \A i \in 1 .. n : SubSeq(d, 1, n)[i] = d[i]
  BY <1>1, SubSeqIs, Zenon
<1>3. ASSUME NEW p \in Nat, p < 8 * n
      PROVE  BitOf(SubSeq(d, 1, n), p) = BitOf(d, p)
  <2>1. p \div 8 + 1 \in 1 .. n
    BY <1>3
  <2>2. SubSeq(d, 1, n)[p \div 8 + 1] = d[p \div 8 + 1]
    BY <1>2, <2>1, Zenon
  <2>. QED  BY <2>2, Zenon DEF BitOf
<1>. QED  BY <1>1, <1>2, <1>3 DEF IsBytes

LEMMA CutMakesUpNothingInv == AccessInv => CutMakesUpNothing
<1>1. SUFFICES
         ASSUME AccessInv, Fits, NEW n \in 0 .. Len(dat), NEW k \in 0 .. sig.size - 1
         PROVE  (GetRawValue(SubSeq(dat, 1, n), sig) \div Pow2[k]) % 2 =
                   IF Position(k) < 8 * n /\ ((\A p \in Positions : p < 8 * n) \/ ~sig.is_little_endian)
                   THEN BitOf(dat, Position(k)) ELSE 0
  BY Zenon DEF CutMakesUpNothing
<1>2. PICK L \in Nat : IsBytes(dat, L) /\ n \in 0 .. L
  BY <1>1, Zenon DEF AccessInv, FramesKept, IsBytes
<1>3. IsSignal(sig) /\ \A m \in 0 .. sig.size - 1 : Position(m) = Pos(sig, m) /\ Position(m) \in Nat
  BY <1>1, PositionIs
<1>4. (\A p \in Positions : p < 8 * n) <=> WholeIn(sig, n)
  BY <1>3, Zenon DEF Positions, WholeIn
<1>5. /\ n \in Nat /\ IsBytes(SubSeq(dat, 1, n), n)
      /\ \A p \in Nat : p < 8 * n => BitOf(SubSeq(dat, 1, n), p) = BitOf(dat, p)
  BY <1>2, CutIs
<1>6. Bit(GetRawValue(SubSeq(dat, 1, n), sig), k) =
         IF Pos(sig, k) < 8 * n /\ (WholeIn(sig, n) \/ ~sig.is_little_endian)
         THEN BitOf(SubSeq(dat, 1, n), Pos(sig, k)) ELSE 0
  BY <1>3, <1>5, GetRawValueBits, Zenon
<1>7. Pos(sig, k) < 8 * n => BitOf(SubSeq(dat, 1, n), Pos(sig, k)) = BitOf(dat, Pos(sig, k))
  BY <1>3, <1>5, Zenon
<1>8. Bit(GetRawValue(SubSeq(dat, 1, n), sig), k) =
         IF Pos(sig, k) < 8 * n /\ ((\A p \in Positions : p < 8 * n) \/ ~sig.is_little_endian)
         THEN BitOf(dat, Pos(sig, k)) ELSE 0
  BY <1>4, <1>6, <1>7, Zenon
<1>9. Position(k) = Pos(sig, k)
  BY <1>3, Zenon
<1>. QED  BY <1>8, <1>9, Zenon DEF Bit

(***************************************************************************)
(* From a frame cut short, no bit is read that was not received: of a      *)
(* little endian signal that is not whole none is read, of a big endian    *)
(* one the leading bits are.                                               *)
(***************************************************************************)
THEOREM CutMakesUpNothingHolds == AccessSpec => []CutMakesUpNothing
<1>. QED  BY AccessInvariant, CutMakesUpNothingInv, PTL

\* Sign extension undoes the wrapping of pack().
LEMMA ExtendedIs ==
    ASSUME NEW s, IsSignal(s), s.size < WordBits, s.is_signed \in BOOLEAN, NEW shl, NEW t \in Int,
           IF s.is_signed THEN -Pow2[s.size - 1] <= t /\ t < Pow2[s.size - 1]
           ELSE 0 <= t /\ t < Pow2[s.size]
    PROVE  /\ (IF t < 0 THEN Pow2[s.size] + t ELSE t) \in 0 .. Pow2[s.size] - 1
           /\ SignExtended(s, IF t < 0 THEN Pow2[s.size] + t ELSE t, shl) = t
<1>1. PICK n \in Nat : n = s.size /\ n > 0
  BY WordAssumption DEF IsSignal
<1>2. PICK P \in Nat \ {0} : P = Pow2[s.size - 1] /\ Pow2[s.size] = 2 * P
  <2>1. n - 1 \in Nat /\ n = n - 1 + 1
    BY <1>1
  <2>2. Pow2[n - 1] \in Nat \ {0} /\ Pow2[n - 1 + 1] = 2 * Pow2[n - 1]
    BY <2>1, PowNat, PowNext
  <2>. QED  BY <1>1, <2>1, <2>2
<1>3. PICK z \in Int : z = IF t < 0 THEN 2 * P + t ELSE t
  OBVIOUS
<1>4. z \in 0 .. 2 * P - 1
  BY <1>2, <1>3
<1>5. OneShifted(s.size, shl) = 2 * P
  BY <1>2 DEF OneShifted
<1>6. PICK q : q = z \div P /\ q \in {0, 1} /\ (q = 1 <=> z >= P)
  <2>1. CASE z >= P
    <3>1. z = P * 1 + (z - P) /\ z - P \in 0 .. P - 1 /\ 1 \in Int
      BY <1>4, <2>1
    <3>2. z \div P = 1
      BY <1>3, <3>1, DivIs
    <3>. QED  BY <2>1, <3>2
  <2>2. CASE ~(z >= P)
    <3>1. z = P * 0 + z /\ z \in 0 .. P - 1 /\ 0 \in Int
      BY <1>4, <2>2
    <3>2. z \div P = 0
      BY <1>3, <3>1, DivIs
    <3>. QED  BY <2>2, <3>2
  <2>. QED  BY <2>1, <2>2
<1>7. SignExtended(s, z, shl) = IF s.is_signed /\ q % 2 = 1 THEN z - 2 * P ELSE z
  BY <1>2, <1>5, <1>6, Zenon DEF SignExtended
<1>8. SignExtended(s, z, shl) = t
  BY <1>2, <1>3, <1>6, <1>7
<1>. QED  BY <1>2, <1>3, <1>4, <1>8

LEMMA RoundedInt ==
    ASSUME AccessInv
    PROVE  Rounded \in Int
<1>1. PICK f \in Int, o \in Int, x \in Int : f = sig.factor /\ f # 0 /\ o = sig.offset /\ x = physical
  BY Zenon DEF AccessInv, IsScaled
<1>2. x - o \in Int
  OBVIOUS
<1>3. Round(x - o, f) \in Int
  BY <1>1, <1>2, RoundIs
<1>. QED  BY <1>1, <1>3, Zenon DEF Rounded

\* What is read of a whole signal is what was written, wrapped into its bits.
LEMMA ReadsWritten ==
    ASSUME AccessInv, written, Fits, sig.size < WordBits, Holds(Rounded)
    PROVE  /\ Rounded \in Int
           /\ GetRawValue(dat, sig) = IF Rounded < 0 THEN Pow2[sig.size] + Rounded ELSE Rounded
<1>1. IsSignal(sig) /\ sig.is_signed \in BOOLEAN
  BY PositionIs, Zenon DEF AccessInv, IsScaled
<1>2. PICK n \in Nat : n = sig.size
  BY <1>1, WordAssumption DEF IsSignal
<1>3. PICK shl \in ShiftOutcomes : raw = Encode(sig, physical, shl)
  BY Zenon DEF AccessInv, LastWrite
<1>4. PICK t \in Int : t = Rounded
  BY RoundedInt
<1>5. raw = IF t < 0 THEN Pow2[sig.size] + t ELSE t
  BY <1>3, <1>4, Zenon DEF Encode, Rounded, OneShifted
<1>6. IF sig.is_signed THEN -Pow2[sig.size - 1] <= t /\ t < Pow2[sig.size - 1]
      ELSE 0 <= t /\ t < Pow2[sig.size]
  BY <1>4, Zenon DEF Holds
<1>7. raw \in 0 .. Pow2[sig.size] - 1
  BY <1>1, <1>5, <1>6, ExtendedIs
<1>8. PICK L \in Nat : IsBytes(dat, L)
  BY DEF AccessInv, FramesKept
<1>9. GetRawValue(dat, sig) \in 0 .. Pow2[sig.size] - 1
  BY <1>1, <1>8, GetRawValueBits
<1>10. \A k \in 0 .. sig.size - 1 : Bit(GetRawValue(dat, sig), k) = Bit(raw, k)
  <2>. SUFFICES ASSUME NEW k \in 0 .. sig.size - 1
                PROVE  Bit(GetRawValue(dat, sig), k) = Bit(raw, k)
    OBVIOUS
  <2>1. Position(k) \in Positions
    BY Zenon DEF Positions
  <2>2. Position(k) < FrameBits
    BY <2>1, Zenon DEF Fits
  <2>3. BitOf(dat, Position(k)) =
           IF sig.is_little_endian \/ Fits THEN (raw \div Pow2[k]) % 2 ELSE BitOf(previous, Position(k))
    BY <2>2, WritesItsBitsInv, Zenon DEF WritesItsBits
  <2>4. (GetRawValue(dat, sig) \div Pow2[k]) % 2 = BitOf(dat, Position(k))
    BY ReadsItsBitsInv, Zenon DEF ReadsItsBits
  <2>. QED  BY <2>3, <2>4, Zenon DEF Bit
<1>11. GetRawValue(dat, sig) = raw
  BY <1>2, <1>7, <1>9, <1>10, BitsEqual
<1>. QED  BY <1>4, <1>5, <1>11, Zenon

LEMMA ScalesBackInv == AccessInv => ScalesBack
<1>. DEFINE Parsed(shl) == Decode(sig, GetRawValue(dat, sig), shl)
            Other(n)    == n * sig.factor + sig.offset
            Close(shl)  == \A n \in Rounded - 1 .. Rounded + 1 :
                              Magnitude(Parsed(shl) - physical) <= Magnitude(Other(n) - physical)
<1>0. ScalesBack <=> (written /\ Fits /\ sig.size < WordBits /\ Holds(Rounded) =>
                         \A shl \in ShiftOutcomes : Close(shl))
  BY Zenon DEF ScalesBack
<1>1. SUFFICES
         ASSUME AccessInv, written, Fits, sig.size < WordBits, Holds(Rounded),
                NEW shl \in ShiftOutcomes, NEW n \in Rounded - 1 .. Rounded + 1
         PROVE  Magnitude(Parsed(shl) - physical) <= Magnitude(Other(n) - physical)
  BY <1>0, Zenon
<1>2. IsSignal(sig) /\ sig.is_signed \in BOOLEAN
  BY <1>1, PositionIs, Zenon DEF AccessInv, IsScaled
<1>3. PICK f \in Int, o \in Int, x \in Int : f = sig.factor /\ f # 0 /\ o = sig.offset /\ x = physical
  BY <1>1, Zenon DEF AccessInv, IsScaled
<1>4. PICK t \in Int : t = Rounded /\ GetRawValue(dat, sig) = IF t < 0 THEN Pow2[sig.size] + t ELSE t
  BY <1>1, ReadsWritten, Zenon
<1>5. IF sig.is_signed THEN -Pow2[sig.size - 1] <= t /\ t < Pow2[sig.size - 1]
      ELSE 0 <= t /\ t < Pow2[sig.size]
  BY <1>1, <1>4, Zenon DEF Holds
<1>6. SignExtended(sig, GetRawValue(dat, sig), shl) = t
  BY <1>1, <1>2, <1>4, <1>5, ExtendedIs
<1>7. Decode(sig, GetRawValue(dat, sig), shl) = t * f + o
  BY <1>3, <1>6, Zenon DEF Decode
<1>8. t = Round(x - o, f)
  BY <1>3, <1>4, Zenon DEF Rounded
<1>9. n \in Int /\ t - 1 <= n /\ n <= t + 1
  <2>1. n \in t - 1 .. t + 1
    BY <1>1, <1>4, Zenon
  <2>. QED  BY <2>1
<1>10. Magnitude((t * f + o) - x) <= Magnitude((n * f + o) - x)
  BY <1>3, <1>8, <1>9, RoundNearest
<1>11. Parsed(shl) - physical = (t * f + o) - x
  BY <1>3, <1>7, Zenon
<1>12. Other(n) - physical = (n * f + o) - x
  BY <1>3, Zenon
<1>. QED  BY <1>10, <1>11, <1>12, Zenon

(***************************************************************************)
(* A packed value the signal can hold is parsed as the nearest one it can  *)
(* express, signed or not, for signals narrower than an int64_t: rounding, *)
(* wrapping, the byte walks, sign extension and scaling undo each other.   *)
(***************************************************************************)
THEOREM ScalesBackHolds == AccessSpec => []ScalesBack
<1>. QED  BY AccessInvariant, ScalesBackInv, PTL
=============================================================================
