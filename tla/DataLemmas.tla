------------------------------- MODULE DataLemmas -------------------------------
(***************************************************************************)
(* The lemmas that the proofs about the components share.                  *)
(*   - Numbers and sequences: the least element of a set, the greatest     *)
(*     element of a bounded set, induction stated over a set, quotient and *)
(*     remainder, the powers of two, flattened sequences.                  *)
(*   - The operations of DynamicTable: what the running size is, what a    *)
(*     push and a shrink keep, and what the lookups answer.                *)
(*   - An encoder's table beside a decoder's: an instruction that is       *)
(*     carried out as it was meant leaves them in agreement.               *)
(*   - The integers on the wire: what is written, also with padding, is    *)
(*     read back, and what is cut short is read as less.                   *)
(***************************************************************************)
EXTENDS StdTable, Octets, SequenceTheorems, FiniteSetTheorems, FunctionTheorems, TLAPS

\* Every non-empty set of naturals has a least element.
LEMMA NatLeast ==
    ASSUME NEW T, T \subseteq Nat, T # {}
    PROVE  \E x \in T : \A y \in T : x <= y
<1> DEFINE D == {0 .. x : x \in T}
<1>1. D \subseteq FiniteSubsetsOf(Nat)
  <2>1. \A x \in T : IsFiniteSet(0 .. x) /\ 0 .. x \in SUBSET Nat
      BY FS_Interval
  <2> SUFFICES ASSUME NEW x \in T  PROVE 0 .. x \in FiniteSubsetsOf(Nat)
      OBVIOUS
  <2> QED  BY <2>1 DEF FiniteSubsetsOf
<1>2. D # {}
    OBVIOUS
<1>3. PICK d \in D : \A y \in D : << y, d >> \notin StrictSubsetOrdering(Nat)
  <2> HIDE DEF D
  <2> QED  BY <1>1, <1>2, FS_StrictSubsetOrderingWellFounded, WFMin
<1>4. PICK m \in T : d = 0 .. m
    OBVIOUS
<1>5. ASSUME NEW y \in T, y < m  PROVE FALSE
  <2>1. 0 .. y \in D /\ 0 .. y \subseteq 0 .. m /\ 0 .. y # 0 .. m
      BY <1>5
  <2>2. << 0 .. y, 0 .. m >> \in StrictSubsetOrdering(Nat)
      BY <2>1 DEF StrictSubsetOrdering
  <2> QED  BY <2>1, <2>2, <1>3, <1>4
<1> QED  BY <1>5

\* A bounded non-empty set of naturals has a greatest element.
LEMMA NatGreatest ==
    ASSUME NEW T, T \subseteq Nat, T # {}, NEW b \in Nat, \A y \in T : y <= b
    PROVE  \E x \in T : \A y \in T : x >= y
<1> DEFINE D == {x \in Nat : \E y \in T : x = b - y}
<1>1. \A y \in T : b - y \in D
    OBVIOUS
<1>2. PICK d \in D : \A x \in D : d <= x
  <2>1. D \subseteq Nat /\ D # {}
      BY <1>1
  <2> HIDE DEF D
  <2> QED  BY <2>1, NatLeast
<1>3. PICK m \in T : d = b - m
    OBVIOUS
<1>4. ASSUME NEW y \in T  PROVE m >= y
  <2>1. d <= b - y
      BY <1>1, <1>2
  <2>2. m \in Nat /\ y \in Nat
      OBVIOUS
  <2> QED  BY <1>3, <2>1, <2>2
<1> QED  BY <1>4

\* A set that holds 0, and k + 1 whenever it holds k < n, holds 0 .. n.
LEMMA Induction ==
    ASSUME NEW S, NEW n \in Nat, 0 \in S,
           \A k \in 0 .. n - 1 : k \in S => k + 1 \in S
    PROVE  0 .. n \subseteq S
<1> DEFINE T == {k \in 0 .. n : k \notin S}
<1> SUFFICES ASSUME T # {}  PROVE FALSE
    OBVIOUS
<1>1. PICK x \in T : \A y \in T : x <= y
  <2>1. T \subseteq Nat
      OBVIOUS
  <2> HIDE DEF T
  <2> QED  BY <2>1, NatLeast
<1>2. x # 0 /\ x - 1 \in 0 .. n - 1 /\ x - 1 \notin T
    BY <1>1
<1>3. x - 1 \in S
    BY <1>2
<1> QED  BY <1>2, <1>3

-----------------------------------------------------------------------------
(* Arithmetic modulo u, which need not be a literal.                       *)

\* A remainder is what is left of a multiple.
LEMMA ModUnique ==
    ASSUME NEW u \in Nat \ {0}, NEW q \in Int, NEW r \in 0 .. u - 1
    PROVE  (u * q + r) % u = r
OBVIOUS

\* Quotient and remainder.
LEMMA ModFacts ==
    ASSUME NEW u \in Nat \ {0}, NEW a \in Int
    PROVE  /\ a % u \in 0 .. u - 1
           /\ a \div u \in Int
           /\ a = u * (a \div u) + (a % u)
           /\ a \in 0 .. u - 1 => a % u = a
OBVIOUS

\* A quotient is not larger than what is divided.
LEMMA QuotientBelow ==
    ASSUME NEW u \in Nat \ {0}, NEW a \in Nat
    PROVE  a \div u \in Nat /\ a \div u <= a
<1> DEFINE q == a \div u
           r == a % u
<1>1. q \in Int /\ r \in 0 .. u - 1 /\ a = u * q + r
    BY ModFacts
<1> HIDE DEF q, r
<1>2. q >= 0
  <2> SUFFICES ASSUME q <= -1  PROVE FALSE
      BY <1>1
  <2>1. u * q <= u * (-1)
      BY <1>1
  <2> QED  BY <1>1, <2>1
<1>3. q <= u * q
    BY <1>1, <1>2
<1>4. q \in Nat /\ q <= a
    BY <1>1, <1>2, <1>3
<1> QED  BY <1>4 DEF q

\* Nor is a remainder.
LEMMA RemainderBelow ==
    ASSUME NEW u \in Nat \ {0}, NEW a \in Nat
    PROVE  a % u \in Nat /\ a % u <= a
<1>1. a \in Int /\ a % u \in 0 .. u - 1 /\ a % u \in Nat
    BY ModFacts
<1>2. CASE a < u
    BY <1>2, ModFacts
<1>3. CASE a >= u
    BY <1>1, <1>3
<1> QED  BY <1>1, <1>2, <1>3

\* Reducing a term of a sum first makes no difference.
LEMMA ModOfSum ==
    ASSUME NEW u \in Nat \ {0}, NEW a \in Int, NEW b \in Int
    PROVE  ((a % u) + b) % u = (a + b) % u
<1> DEFINE q == a \div u
           r == a % u
           p == (r + b) \div u
           s == (r + b) % u
<1>1. q \in Int /\ r \in Int /\ a = u * q + r
    BY ModFacts
<1>2. p \in Int /\ s \in 0 .. u - 1 /\ r + b = u * p + s
  <2> HIDE DEF r
  <2> QED  BY <1>1, ModFacts
<1> HIDE DEF q, r, p, s
<1>3. a + b = u * (q + p) + s
    BY <1>1, <1>2
<1>4. (a + b) % u = s
  <2>1. q + p \in Int
      BY <1>1, <1>2
  <2>2. (u * (q + p) + s) % u = s
      BY <1>2, <2>1, ModUnique, Zenon
  <2> QED  BY <1>3, <2>2, Zenon
<1> QED  BY <1>4 DEF r, s

-----------------------------------------------------------------------------
(* The powers of two.                                                      *)

\* The powers of two double.  The provers know nothing of ^, but the library
\* counts the subsets of a set with it.
LEMMA PowerOfTwo ==
    ASSUME NEW n \in Nat
    PROVE  2 ^ n \in Nat \ {0} /\ 2 ^ (n + 1) = 2 * 2 ^ n
<1> DEFINE S == 1 .. n
           P == SUBSET S
           T == {X \cup {n + 1} : X \in SUBSET S}
<1>1. /\ IsFiniteSet(S) /\ Cardinality(S) = n
      /\ IsFiniteSet(1 .. n + 1) /\ Cardinality(1 .. n + 1) = n + 1
    BY FS_Interval
<1>2. /\ IsFiniteSet(P) /\ Cardinality(P) = 2 ^ n
      /\ Cardinality(SUBSET (1 .. n + 1)) = 2 ^ (n + 1)
    BY <1>1, FS_SUBSET
<1>3. 2 ^ n \in Nat /\ 2 ^ n # 0
  <2>1. Cardinality(P) \in Nat
      BY <1>2, FS_CardinalityType
  <2>2. P # {}
      OBVIOUS
  <2>3. Cardinality(P) # 0
      BY <1>2, <2>2, FS_EmptySet
  <2> QED  BY <1>2, <2>1, <2>3
<1>4. IsFiniteSet(T) /\ Cardinality(T) = 2 ^ n
  <2> DEFINE f == [X \in SUBSET S |-> X \cup {n + 1}]
  <2>1. \A X \in SUBSET S : n + 1 \notin X
      OBVIOUS
  <2>2. \A X, Y \in SUBSET S : f[X] = f[Y] => X = Y
      BY <2>1
  <2>3. f \in [SUBSET S -> T]
      OBVIOUS
  <2>4. \A Y \in T : \E X \in SUBSET S : f[X] = Y
      OBVIOUS
  <2>5. f \in Bijection(SUBSET S, T)
      BY <2>2, <2>3, <2>4 DEF Bijection, Injection, IsInjective, Surjection
  <2>6. ExistsBijection(SUBSET S, T)
      BY <2>5 DEF ExistsBijection
  <2> QED  BY <1>2, <2>6, FS_Bijection
<1>5. SUBSET (1 .. n + 1) = P \cup T
  <2>1. ASSUME NEW X \in SUBSET (1 .. n + 1)  PROVE X \in P \cup T
    <3>1. CASE n + 1 \in X
      <4>1. X \ {n + 1} \in SUBSET S
          OBVIOUS
      <4>2. X = (X \ {n + 1}) \cup {n + 1}
          BY <3>1
      <4> QED  BY <4>1, <4>2
    <3>2. CASE n + 1 \notin X
        BY <3>2
    <3> QED  BY <3>1, <3>2
  <2>2. 1 .. n \subseteq 1 .. n + 1 /\ n + 1 \in 1 .. n + 1
      OBVIOUS
  <2> QED  BY <2>1, <2>2
<1>6. P \cap T = {}
    OBVIOUS
<1> DEFINE x == 2 ^ n
<1>7. Cardinality(P \cup T) = x + x
  <2> HIDE DEF P, T, x
  <2>1. Cardinality(P \cap T) = 0
      BY <1>6, FS_EmptySet
  <2>2. Cardinality(P \cup T) = Cardinality(P) + Cardinality(T) - Cardinality(P \cap T)
      BY <1>2, <1>4, FS_Union
  <2>3. Cardinality(P) = x /\ Cardinality(T) = x /\ x \in Nat
      BY <1>2, <1>3, <1>4 DEF x
  <2> QED  BY <2>1, <2>2, <2>3
<1>8. 2 ^ (n + 1) = x + x /\ x \in Nat \ {0}
    BY <1>2, <1>3, <1>5, <1>7
<1>9. x + x = 2 * x
  <2> HIDE DEF x
  <2> QED  BY <1>8
<1> QED  BY <1>8, <1>9

\* The first power.
LEMMA PowerZero == 2 ^ 0 = 1
OBVIOUS

\* The power of a sum, by induction over the second exponent.
LEMMA PowerSum ==
    ASSUME NEW a \in Nat, NEW b \in Nat
    PROVE  2 ^ (a + b) = 2 ^ a * 2 ^ b
<1> DEFINE S == {k \in 0 .. b : 2 ^ (a + k) = 2 ^ a * 2 ^ k}
<1>1. 0 \in S
  <2>1. a + 0 = a /\ 2 ^ a \in Nat
      BY PowerOfTwo
  <2> QED  BY <2>1, PowerZero
<1>2. ASSUME NEW k \in 0 .. b - 1, k \in S  PROVE k + 1 \in S
  <2>1. /\ 2 ^ (k + 1) = 2 * 2 ^ k /\ 2 ^ k \in Nat /\ 2 ^ a \in Nat
      BY PowerOfTwo
  <2>2. 2 ^ ((a + k) + 1) = 2 * 2 ^ (a + k)
      BY PowerOfTwo
  <2>3. a + (k + 1) = (a + k) + 1
      OBVIOUS
  <2> DEFINE x == 2 ^ a
             y == 2 ^ k
             z == 2 ^ (a + k)
             w == 2 ^ (k + 1)
  <2> HIDE DEF x, y, z, w
  <2>4. x \in Nat /\ y \in Nat /\ z = x * y /\ w = 2 * y
      BY <1>2, <2>1 DEF x, y, z, w
  <2>5. 2 * z = x * w
      BY <2>4
  <2> QED  BY <2>2, <2>3, <2>5 DEF x, z, w
<1>3. 0 .. b \subseteq S
  <2> HIDE DEF S
  <2> QED  BY <1>1, <1>2, Induction, SMTT(30)
<1> QED  BY <1>3

\* A larger exponent gives a larger power.
LEMMA PowerMonotone ==
    ASSUME NEW a \in Nat, NEW b \in Nat, a <= b
    PROVE  2 ^ a <= 2 ^ b
<1>1. b - a \in Nat /\ b = a + (b - a)
    OBVIOUS
<1>2. 2 ^ b = 2 ^ a * 2 ^ (b - a)
    BY <1>1, PowerSum
<1> DEFINE x == 2 ^ a
           y == 2 ^ (b - a)
           z == 2 ^ b
<1>3. x \in Nat \ {0} /\ y \in Nat \ {0}
    BY <1>1, PowerOfTwo
<1>4. z = x * y
    BY <1>2
<1> HIDE DEF x, y, z
<1>5. x <= z
    BY <1>3, <1>4
<1> QED  BY <1>5 DEF x, z

\* a \div u is the only q with a = u * q + r.
LEMMA DivUnique ==
    ASSUME NEW u \in Nat \ {0}, NEW q \in Int, NEW r \in 0 .. u - 1
    PROVE  (u * q + r) \div u = q
OBVIOUS

\* Dividing twice is dividing by the product.
LEMMA DivDiv ==
    ASSUME NEW v \in Nat, NEW p \in Nat \ {0}, NEW q \in Nat \ {0}
    PROVE  (v \div p) \div q = v \div (p * q)
<1> DEFINE x == v \div p
           r == v % p
           y == x \div q
           s == x % q
<1>1. x \in Int /\ r \in 0 .. p - 1 /\ v = p * x + r
    BY ModFacts
<1> HIDE DEF x, r
<1>2. y \in Int /\ s \in 0 .. q - 1 /\ x = q * y + s
    BY <1>1, ModFacts
<1> HIDE DEF y, s
<1>3. v = (p * q) * y + (p * s + r)
    BY <1>1, <1>2
<1>4. p * s + r \in 0 .. p * q - 1 /\ p * q \in Nat \ {0}
  <2>1. p * s <= p * (q - 1) /\ p * s \in Nat
      BY <1>2
  <2>2. p * (q - 1) = p * q - p
      OBVIOUS
  <2>3. p * q \in Nat /\ p * q > 0
      OBVIOUS
  <2> QED  BY <1>1, <2>1, <2>2, <2>3
<1> DEFINE m == p * q
           t == p * s + r
<1>5. m \in Nat \ {0} /\ t \in 0 .. m - 1 /\ v = m * y + t
    BY <1>3, <1>4
<1> HIDE DEF m, t
<1>6. v \div m = y
    BY <1>2, <1>5, DivUnique
<1> QED  BY <1>6 DEF m, y, x

\* Only a value below the divisor has quotient 0.
LEMMA DivZero ==
    ASSUME NEW v \in Nat, NEW u \in Nat \ {0}
    PROVE  v \div u \in Nat /\ (v \div u = 0 <=> v < u)
OBVIOUS

-----------------------------------------------------------------------------
(* Flattened sequences.                                                    *)

\* f is the beginnings of the flattened s.
FlattenOf(f, S, s, n) ==
    /\ f \in [1 .. n -> Seq(S)]
    /\ f[1] = s[1]
    /\ \A k \in 1 .. n - 1 : f[k + 1] = f[k] \o s[k + 1]

\* The recursive definition of FlattenSeq defines a function.
LEMMA FlattenExists ==
    ASSUME NEW S, NEW s \in Seq(Seq(S)), s # << >>
    PROVE  \E f : FlattenOf(f, S, s, Len(s))
<1> DEFINE T == {n \in 0 .. Len(s) - 1 : \E f : FlattenOf(f, S, s, n + 1)}
<1>1. Len(s) \in Nat /\ Len(s) >= 1 /\ \A k \in 1 .. Len(s) : s[k] \in Seq(S)
    BY EmptySeq
<1>2. 0 \in T
  <2>1. FlattenOf([k \in 1 .. 0 + 1 |-> s[1]], S, s, 0 + 1)
      BY <1>1 DEF FlattenOf
  <2> QED  BY <1>1, <2>1
<1>3. ASSUME NEW n \in 0 .. (Len(s) - 1) - 1, n \in T  PROVE n + 1 \in T
  <2>1. PICK f : FlattenOf(f, S, s, n + 1)
      BY <1>3
  <2>2. n + 1 \in Nat /\ n + 1 >= 1 /\ (n + 1) + 1 \in 1 .. Len(s)
      BY <1>1
  <2> DEFINE m == n + 1
             a == f[m] \o s[m + 1]
  <2>3. a \in Seq(S)
    <3>1. f[m] \in Seq(S) /\ s[m + 1] \in Seq(S)
        BY <1>1, <2>1, <2>2 DEF FlattenOf
    <3> QED  BY <3>1
  <2> DEFINE g == [k \in 1 .. m + 1 |-> IF k = m + 1 THEN a ELSE f[k]]
  <2>4. g \in [1 .. m + 1 -> Seq(S)] /\ g[1] = s[1]
    <3> HIDE DEF a
    <3> QED  BY <2>1, <2>2, <2>3 DEF FlattenOf
  <2>5. ASSUME NEW k \in 1 .. (m + 1) - 1  PROVE g[k + 1] = g[k] \o s[k + 1]
    <3>1. CASE k = m
      <4>1. m \in 1 .. m + 1 /\ m # m + 1 /\ m + 1 \in 1 .. m + 1
          BY <2>2
      <4>2. g[m + 1] = a /\ g[m] = f[m]
        <5> HIDE DEF a, m
        <5> QED  BY <4>1
      <4> QED  BY <3>1, <4>2
    <3>2. CASE k # m
      <4>1. k \in 1 .. m - 1 /\ k # m + 1 /\ k + 1 # m + 1 /\ k \in 1 .. m + 1 /\ k + 1 \in 1 .. m + 1
          BY <2>2, <3>2
      <4>2. f[k + 1] = f[k] \o s[k + 1]
          BY <2>1, <4>1 DEF FlattenOf
      <4> HIDE DEF a, m
      <4> QED  BY <4>1, <4>2
    <3> QED  BY <3>1, <3>2
  <2>6. FlattenOf(g, S, s, m + 1)
    <3> HIDE DEF g
    <3> QED  BY <2>4, <2>5 DEF FlattenOf
  <2> QED  BY <2>2, <2>6
<1>4. 0 .. Len(s) - 1 \subseteq T
  <2> DEFINE d == Len(s) - 1
  <2>1. d \in Nat
      BY <1>1
  <2>2. \A n \in 0 .. d - 1 : n \in T => n + 1 \in T
      BY <1>3
  <2> HIDE DEF T, d
  <2>3. 0 .. d \subseteq T
      BY <1>2, <2>1, <2>2, Induction
  <2> QED  BY <2>3 DEF d
<1>5. Len(s) - 1 \in T
  <2> HIDE DEF T
  <2> QED  BY <1>1, <1>4
<1> QED  BY <1>1, <1>5

\* FlattenSeq is the last of its beginnings.
LEMMA FlattenIs ==
    ASSUME NEW S, NEW s \in Seq(Seq(S)), s # << >>
    PROVE  \E f : FlattenOf(f, S, s, Len(s)) /\ FlattenSeq(s) = f[Len(s)]
<1> DEFINE n == Len(s)
           L(f) == [k \in 1 .. n |-> IF k = 1 THEN s[k] ELSE f[k - 1] \o s[k]]
           g == CHOOSE h : h = L(h)
<1>1. n \in Nat /\ n >= 1
    BY EmptySeq
<1>2. PICK f : FlattenOf(f, S, s, n)
    BY FlattenExists
<1>3. f = L(f)
  <2>1. \A k \in 1 .. n : k # 1 => k - 1 \in 1 .. n - 1 /\ (k - 1) + 1 = k
      BY <1>1
  <2>2. \A k \in 1 .. n : f[k] = IF k = 1 THEN s[k] ELSE f[k - 1] \o s[k]
      BY <1>2, <2>1, Zenon DEF FlattenOf
  <2>3. f = [k \in 1 .. n |-> f[k]]
      BY <1>2 DEF FlattenOf
  <2> HIDE DEF n
  <2> QED  BY <2>2, <2>3
<1>4. g = L(g)
    BY <1>3, Zenon
<1>5. FlattenSeq(s) = g[n]
    BY <1>1 DEF FlattenSeq
<1> HIDE DEF g
<1> DEFINE T == {k \in 0 .. n - 1 : g[k + 1] = f[k + 1]}
<1>6. 0 .. n - 1 \subseteq T
  <2>1. 0 \in T
      BY <1>1, <1>3, <1>4
  <2>2. ASSUME NEW k \in 0 .. (n - 1) - 1, k \in T  PROVE k + 1 \in T
    <3>1. (k + 1) + 1 \in 1 .. n /\ (k + 1) + 1 # 1 /\ ((k + 1) + 1) - 1 = k + 1 /\ k + 1 \in 0 .. n - 1
        BY <1>1
    <3>2. g[(k + 1) + 1] = g[k + 1] \o s[(k + 1) + 1]
        BY <1>4, <3>1
    <3>3. f[(k + 1) + 1] = f[k + 1] \o s[(k + 1) + 1]
        BY <1>3, <3>1
    <3> QED  BY <2>2, <3>1, <3>2, <3>3
  <2>3. n - 1 \in Nat
      BY <1>1
  <2> HIDE DEF T, n
  <2> QED  BY <2>1, <2>2, <2>3, Induction, Zenon
<1>7. g[n] = f[n]
  <2>1. n - 1 \in T
    <3> HIDE DEF T, n
    <3> QED  BY <1>1, <1>6
  <2>2. (n - 1) + 1 = n
      BY <1>1
  <2> HIDE DEF n
  <2> QED  BY <2>1, <2>2
<1> QED  BY <1>2, <1>5, <1>7

\* A flattened sequence is a sequence.
LEMMA FlattenType ==
    ASSUME NEW S, NEW s \in Seq(Seq(S))
    PROVE  FlattenSeq(s) \in Seq(S) /\ (s = << >> => FlattenSeq(s) = << >>)
<1>1. CASE s = << >>
    BY <1>1, EmptySeq DEF FlattenSeq
<1>2. CASE s # << >>
  <2>1. PICK f : FlattenOf(f, S, s, Len(s)) /\ FlattenSeq(s) = f[Len(s)]
      BY <1>2, FlattenIs
  <2>2. Len(s) \in 1 .. Len(s)
      BY <1>2, EmptySeq
  <2> QED  BY <1>2, <2>1, <2>2 DEF FlattenOf
<1> QED  BY <1>1, <1>2

\* The first sequence comes first.
LEMMA FlattenFirst ==
    ASSUME NEW S, NEW a \in Seq(S), NEW s \in Seq(Seq(S))
    PROVE  FlattenSeq(<< a >> \o s) = a \o FlattenSeq(s)
<1> DEFINE t == << a >> \o s
           n == Len(s)
<1>1. /\ n \in Nat /\ t \in Seq(Seq(S)) /\ t # << >> /\ Len(t) = n + 1
      /\ t[1] = a /\ \A k \in 1 .. n : t[k + 1] = s[k]
      /\ \A k \in 1 .. n : s[k] \in Seq(S)
    OBVIOUS
<1> HIDE DEF t
<1>2. PICK f : FlattenOf(f, S, t, n + 1) /\ FlattenSeq(t) = f[n + 1]
  <2>1. \E f : FlattenOf(f, S, t, Len(t)) /\ FlattenSeq(t) = f[Len(t)]
      BY <1>1, FlattenIs
  <2> QED  BY <1>1, <2>1
<1>3. CASE s = << >>
  <2>1. n = 0
      BY <1>3, EmptySeq
  <2>2. FlattenSeq(t) = a
      BY <1>1, <1>2, <2>1 DEF FlattenOf
  <2>3. FlattenSeq(s) = << >>
      BY <1>3, FlattenType
  <2> QED  BY <2>2, <2>3, ConcatEmptySeq DEF t
<1>4. CASE s # << >>
  <2>1. PICK g : FlattenOf(g, S, s, n) /\ FlattenSeq(s) = g[n]
      BY <1>4, FlattenIs
  <2>2. n >= 1
      BY <1>4, EmptySeq
  <2> DEFINE T == {k \in 0 .. n - 1 : f[(k + 1) + 1] = a \o g[k + 1]}
  <2>3. 0 \in T
    <3>1. f[1 + 1] = f[1] \o t[1 + 1] /\ f[1] = t[1] /\ g[1] = s[1]
      <4>1. 1 \in 1 .. (n + 1) - 1
          BY <1>1, <2>2
      <4> HIDE DEF n
      <4> QED  BY <1>2, <2>1, <4>1 DEF FlattenOf
    <3>2. t[1 + 1] = s[1] /\ 0 \in 0 .. n - 1
        BY <1>1, <2>2
    <3>3. f[(0 + 1) + 1] = f[1 + 1] /\ g[0 + 1] = g[1]
        OBVIOUS
    <3>4. f[(0 + 1) + 1] = a \o g[0 + 1]
        BY <1>1, <3>1, <3>2, <3>3, Zenon
    <3> HIDE DEF n
    <3> QED  BY <3>2, <3>4
  <2>4. ASSUME NEW k \in 0 .. (n - 1) - 1, k \in T  PROVE k + 1 \in T
    <3> DEFINE j == (k + 1) + 1
    <3>1. /\ j \in 1 .. n /\ k + 1 \in 1 .. n /\ k + 1 \in 1 .. n - 1 /\ j \in 1 .. (n + 1) - 1
          /\ k + 1 \in 0 .. n - 1
        BY <1>1, <2>2
    <3>2. f[j + 1] = f[j] \o s[j]
      <4>1. f[j + 1] = f[j] \o t[j + 1]
          BY <1>2, <3>1 DEF FlattenOf
      <4> HIDE DEF j
      <4> QED  BY <1>1, <3>1, <4>1
    <3>3. f[j] = a \o g[k + 1]
        BY <2>4
    <3>4. g[j] = g[k + 1] \o s[j]
        BY <2>1, <3>1 DEF FlattenOf
    <3>5. (a \o g[k + 1]) \o s[j] = a \o (g[k + 1] \o s[j])
      <4>1. g[k + 1] \in Seq(S) /\ s[j] \in Seq(S)
          BY <1>1, <2>1, <3>1 DEF FlattenOf
      <4>2. \A x, y \in Seq(S) : (a \o x) \o y = a \o (x \o y)
          BY SMTT(30)
      <4> QED  BY <4>1, <4>2
    <3>6. f[j + 1] = a \o g[j]
      <4> HIDE DEF j
      <4> QED  BY <3>2, <3>3, <3>4, <3>5
    <3> QED  BY <3>1, <3>6
  <2>5. 0 .. n - 1 \subseteq T
    <3>1. n - 1 \in Nat
        BY <1>1, <2>2
    <3> HIDE DEF T, n
    <3> QED  BY <2>3, <2>4, <3>1, Induction
  <2>6. n - 1 \in T
    <3> HIDE DEF T, n
    <3> QED  BY <1>1, <2>2, <2>5
  <2>7. (n - 1) + 1 = n
      BY <1>1
  <2>8. f[n + 1] = a \o g[n]
    <3> HIDE DEF n
    <3> QED  BY <2>6, <2>7
  <2> QED  BY <1>2, <2>1, <2>8 DEF t
<1> QED  BY <1>3, <1>4

\* The last sequence comes last.
LEMMA FlattenLast ==
    ASSUME NEW S, NEW s \in Seq(Seq(S)), NEW a \in Seq(S)
    PROVE  FlattenSeq(Append(s, a)) = FlattenSeq(s) \o a
<1> DEFINE t == Append(s, a)
           n == Len(s)
<1>1. /\ n \in Nat /\ t \in Seq(Seq(S)) /\ t # << >> /\ Len(t) = n + 1
      /\ t[n + 1] = a /\ \A k \in 1 .. n : t[k] = s[k]
  <2>1. n \in Nat /\ t \in Seq(Seq(S)) /\ Len(t) = n + 1
      OBVIOUS
  <2>2. t[n + 1] = a
      OBVIOUS
  <2>3. \A k \in 1 .. n : t[k] = s[k]
      OBVIOUS
  <2>4. t # << >>
    <3> HIDE DEF t, n
    <3> QED  BY <2>1, EmptySeq
  <2> QED  BY <2>1, <2>2, <2>3, <2>4
<1> HIDE DEF t
<1>2. PICK f : FlattenOf(f, S, t, n + 1) /\ FlattenSeq(t) = f[n + 1]
  <2>1. \E f : FlattenOf(f, S, t, Len(t)) /\ FlattenSeq(t) = f[Len(t)]
      BY <1>1, FlattenIs
  <2> QED  BY <1>1, <2>1
<1>3. CASE s = << >>
  <2>1. n = 0
      BY <1>3, EmptySeq
  <2>2. FlattenSeq(t) = a
      BY <1>1, <1>2, <2>1 DEF FlattenOf
  <2>3. FlattenSeq(s) = << >>
      BY <1>3, FlattenType
  <2> QED  BY <2>2, <2>3, ConcatEmptySeq DEF t
<1>4. CASE s # << >>
  <2>1. PICK g : FlattenOf(g, S, s, n) /\ FlattenSeq(s) = g[n]
      BY <1>4, FlattenIs
  <2>2. n >= 1
      BY <1>4, EmptySeq
  <2> DEFINE T == {k \in 0 .. n - 1 : f[k + 1] = g[k + 1]}
  <2>3. 0 \in T
    <3>1. f[1] = t[1] /\ g[1] = s[1] /\ t[1] = s[1] /\ 0 \in 0 .. n - 1 /\ 0 + 1 = 1
        BY <1>1, <1>2, <2>1, <2>2 DEF FlattenOf
    <3> HIDE DEF n
    <3> QED  BY <3>1
  <2>4. ASSUME NEW k \in 0 .. (n - 1) - 1, k \in T  PROVE k + 1 \in T
    <3> DEFINE j == k + 1
    <3>1. /\ j \in 1 .. n - 1 /\ j \in 1 .. (n + 1) - 1 /\ j + 1 \in 1 .. n /\ j \in 0 .. n - 1
        BY <1>1, <2>2
    <3>2. f[j + 1] = f[j] \o s[j + 1]
      <4>1. f[j + 1] = f[j] \o t[j + 1]
          BY <1>2, <3>1 DEF FlattenOf
      <4> HIDE DEF j
      <4> QED  BY <1>1, <3>1, <4>1
    <3>3. g[j + 1] = g[j] \o s[j + 1]
        BY <2>1, <3>1 DEF FlattenOf
    <3>4. f[j] = g[j]
        BY <2>4
    <3>5. f[j + 1] = g[j + 1]
      <4> HIDE DEF j
      <4> QED  BY <3>2, <3>3, <3>4
    <3> QED  BY <3>1, <3>5
  <2>5. 0 .. n - 1 \subseteq T
    <3>1. n - 1 \in Nat
        BY <1>1, <2>2
    <3> HIDE DEF T, n
    <3> QED  BY <2>3, <2>4, <3>1, Induction
  <2>6. n - 1 \in T
    <3> HIDE DEF T, n
    <3> QED  BY <1>1, <2>2, <2>5
  <2>7. (n - 1) + 1 = n
      BY <1>1
  <2>8. f[n] = g[n]
    <3> HIDE DEF n
    <3> QED  BY <2>6, <2>7
  <2>9. f[n + 1] = f[n] \o a
    <3>1. n \in 1 .. (n + 1) - 1
        BY <1>1, <2>2
    <3>2. f[n + 1] = f[n] \o t[n + 1]
        BY <1>2, <3>1 DEF FlattenOf
    <3> QED  BY <1>1, <3>2
  <2> QED  BY <1>2, <2>1, <2>8, <2>9 DEF t
<1> QED  BY <1>3, <1>4

\* A beginning of a sequence.
LEMMA BeginningIs ==
    ASSUME NEW S, NEW s \in Seq(S), NEW m \in 0 .. Len(s)
    PROVE  /\ SubSeq(s, 1, m) \in Seq(S) /\ Len(SubSeq(s, 1, m)) = m
           /\ \A k \in 1 .. m : SubSeq(s, 1, m)[k] = s[k]
<1>1. Len(s) \in Nat
    OBVIOUS
<1> QED  BY <1>1

\* A sequence is one of what its elements are.
LEMMA SeqOver ==
    ASSUME NEW S, NEW T, NEW s \in Seq(S), \A k \in 1 .. Len(s) : s[k] \in T
    PROVE  s \in Seq(T)
<1>1. s = [k \in 1 .. Len(s) |-> s[k]] /\ Len(s) \in Nat
    OBVIOUS
<1>2. [k \in 1 .. Len(s) |-> s[k]] \in Seq(T)
    BY <1>1, IsASeq
<1> QED  BY <1>1, <1>2

\* What is where in a concatenation.
LEMMA BothParts ==
    ASSUME NEW S, NEW p \in Seq(S), NEW b \in Seq(S)
    PROVE  /\ p \o b \in Seq(S) /\ Len(p \o b) = Len(p) + Len(b)
           /\ \A k \in 1 .. Len(p) : (p \o b)[k] = p[k]
           /\ \A k \in 1 .. Len(b) : (p \o b)[Len(p) + k] = b[k]
OBVIOUS

\* A piece of a sequence.
LEMMA SliceIs ==
    ASSUME NEW S, NEW s \in Seq(S), NEW m \in Nat, NEW n \in m .. Len(s)
    PROVE  /\ SubSeq(s, m + 1, n) \in Seq(S) /\ Len(SubSeq(s, m + 1, n)) = n - m
           /\ \A k \in 1 .. n - m : SubSeq(s, m + 1, n)[k] = s[m + k]
<1> DEFINE e == SubSeq(s, m + 1, n)
<1>1. Len(s) \in Nat /\ m + 1 \in Int /\ n \in Int /\ \A k \in m + 1 .. n : s[k] \in S
    BY ElementOfSeq
<1>2. /\ e \in Seq(S)
      /\ Len(e) = IF m + 1 <= n THEN (n - (m + 1)) + 1 ELSE 0
      /\ \A k \in 1 .. (n - (m + 1)) + 1 : e[k] = s[((m + 1) + k) - 1]
    BY <1>1, SubSeqProperties
<1> HIDE DEF e
<1>3. Len(e) = n - m
    BY <1>1, <1>2
<1>4. ASSUME NEW k \in 1 .. n - m  PROVE e[k] = s[m + k]
  <2>1. k \in 1 .. (n - (m + 1)) + 1 /\ ((m + 1) + k) - 1 = m + k
      BY <1>1
  <2> QED  BY <1>2, <2>1
<1> QED  BY <1>2, <1>3, <1>4 DEF e

\* What is left of a sequence behind its first m elements.
LEMMA EndIs ==
    ASSUME NEW S, NEW s \in Seq(S), NEW m \in Nat
    PROVE  LET e == SubSeq(s, m + 1, Len(s))
           IN  /\ e \in Seq(S) /\ Len(e) = IF m <= Len(s) THEN Len(s) - m ELSE 0
               /\ \A k \in 1 .. Len(e) : e[k] = s[m + k]
<1>1. Len(s) \in Nat /\ m + 1 \in Int /\ \A k \in m + 1 .. Len(s) : s[k] \in S
    BY ElementOfSeq
<1> DEFINE e == SubSeq(s, m + 1, Len(s))
<1>2. /\ e \in Seq(S)
      /\ Len(e) = IF m + 1 <= Len(s) THEN (Len(s) - (m + 1)) + 1 ELSE 0
      /\ \A k \in 1 .. (Len(s) - (m + 1)) + 1 : e[k] = s[((m + 1) + k) - 1]
    BY <1>1, SubSeqProperties
<1> HIDE DEF e
<1>3. Len(e) = IF m <= Len(s) THEN Len(s) - m ELSE 0
    BY <1>1, <1>2
<1>4. ASSUME NEW k \in 1 .. Len(e)  PROVE e[k] = s[m + k]
  <2>1. k \in 1 .. (Len(s) - (m + 1)) + 1 /\ ((m + 1) + k) - 1 = m + k
      BY <1>1, <1>3, <1>4
  <2> QED  BY <1>2, <2>1
<1> QED  BY <1>2, <1>3, <1>4 DEF e

\* The end of an end is an end.
LEMMA EndOfEnd ==
    ASSUME NEW S, NEW s \in Seq(S), NEW m \in Nat, NEW k \in Nat
    PROVE  LET e == SubSeq(s, m + 1, Len(s))
           IN  SubSeq(e, k + 1, Len(e)) = SubSeq(s, (m + k) + 1, Len(s))
<1> DEFINE e == SubSeq(s, m + 1, Len(s))
           a == SubSeq(e, k + 1, Len(e))
           b == SubSeq(s, (m + k) + 1, Len(s))
<1>1. Len(s) \in Nat /\ m + k \in Nat
    OBVIOUS
<1>2. /\ e \in Seq(S) /\ Len(e) = IF m <= Len(s) THEN Len(s) - m ELSE 0
      /\ \A i \in 1 .. Len(e) : e[i] = s[m + i]
    BY EndIs
<1>3. /\ b \in Seq(S) /\ Len(b) = IF m + k <= Len(s) THEN Len(s) - (m + k) ELSE 0
      /\ \A i \in 1 .. Len(b) : b[i] = s[(m + k) + i]
    BY <1>1, EndIs
<1> HIDE DEF e
<1>4. /\ a \in Seq(S) /\ Len(a) = IF k <= Len(e) THEN Len(e) - k ELSE 0
      /\ \A i \in 1 .. Len(a) : a[i] = e[k + i]
    BY <1>2, EndIs
<1> HIDE DEF a, b
<1>5. Len(a) = Len(b)
    BY <1>1, <1>2, <1>3, <1>4
<1>6. ASSUME NEW i \in 1 .. Len(a)  PROVE a[i] = b[i]
  <2>1. k + i \in 1 .. Len(e) /\ m + (k + i) = (m + k) + i /\ i \in 1 .. Len(b)
      BY <1>1, <1>2, <1>4, <1>5
  <2>2. a[i] = e[k + i] /\ e[k + i] = s[m + (k + i)] /\ b[i] = s[(m + k) + i]
      BY <1>2, <1>3, <1>4, <2>1
  <2> QED  BY <2>1, <2>2
<1>7. a = b
    BY <1>3, <1>4, <1>5, <1>6, SeqEqual
<1> QED  BY <1>7 DEF a, b, e

-----------------------------------------------------------------------------

\* A non-empty set of numbers that is bounded has a maximum.
LEMMA SetMax ==
    ASSUME NEW T, T \subseteq Nat, T # {}, NEW b \in Nat, \A y \in T : y <= b
    PROVE  Max(T) \in T /\ \A y \in T : y <= Max(T)
<1>1. \E x \in T : \A y \in T : x >= y
    BY NatGreatest
<1> QED  BY <1>1 DEF Max

\* The size of an entry is a number, at least 32 (common.h:33-35).
LEMMA EntrySizeType ==
    ASSUME NEW e \in Entry
    PROVE  EntrySize(e) \in Nat /\ EntrySize(e) >= 32
BY TableAssumption DEF Entry, EntrySize

\* f is the ledger of the n newest entries.
LedgerOf(f, es, n) ==
    /\ f \in [0 .. n -> Nat]
    /\ f[0] = 0
    /\ \A k \in 1 .. n : f[k] = f[k - 1] + EntrySize(es[k])

\* The recursive definition of the ledger defines a function.
LEMMA LedgerExists ==
    ASSUME NEW es \in Seq(Entry)
    PROVE  \E f : LedgerOf(f, es, Len(es))
<1> DEFINE S == {n \in 0 .. Len(es) : \E f : LedgerOf(f, es, n)}
<1>1. 0 \in S
  <2>1. LedgerOf([k \in 0 .. 0 |-> 0], es, 0)
      BY DEF LedgerOf
  <2> QED  BY <2>1
<1>2. ASSUME NEW n \in 0 .. Len(es) - 1, n \in S  PROVE n + 1 \in S
  <2>1. PICK f : LedgerOf(f, es, n)
      BY <1>2
  <2>2. es[n + 1] \in Entry
      OBVIOUS
  <2> DEFINE g == [k \in 0 .. n + 1 |-> IF k = n + 1 THEN f[n] + EntrySize(es[n + 1]) ELSE f[k]]
  <2>3. g \in [0 .. n + 1 -> Nat] /\ g[0] = 0
      BY <2>1, <2>2, EntrySizeType DEF LedgerOf
  <2>4. ASSUME NEW k \in 1 .. n + 1  PROVE g[k] = g[k - 1] + EntrySize(es[k])
      BY <2>1 DEF LedgerOf
  <2>5. LedgerOf(g, es, n + 1)
    <3> HIDE DEF g
    <3> QED  BY <2>3, <2>4 DEF LedgerOf
  <2> QED  BY <2>5
<1>3. 0 .. Len(es) \subseteq S
  <2> HIDE DEF S
  <2> QED  BY <1>1, <1>2, Induction, SMTT(30)
<1> QED  BY <1>3

\* The ledger is that function.
LEMMA LedgerIs ==
    ASSUME NEW es \in Seq(Entry)
    PROVE  LedgerOf(Ledger(es), es, Len(es))
<1> DEFINE n == Len(es)
           L(f) == [k \in 0 .. n |-> IF k = 0 THEN 0
                                     ELSE f[k - 1] + EntrySize(es[k])]
           g == Ledger(es)
<1>1. PICK f : LedgerOf(f, es, n)
    BY LedgerExists
<1>2. f = L(f)
    BY <1>1 DEF LedgerOf
<1>3. g = CHOOSE h : h = L(h)
    BY DEF Ledger
<1>4. g = L(g)
    BY <1>2, <1>3
<1> DEFINE S == {k \in 0 .. n : g[k] = f[k]}
<1>5. 0 .. n \subseteq S
  <2>1. 0 \in S
      BY <1>2, <1>4
  <2>2. ASSUME NEW k \in 0 .. n - 1, k \in S  PROVE k + 1 \in S
    <3>1. k + 1 \in 0 .. n /\ k + 1 # 0 /\ (k + 1) - 1 = k
        OBVIOUS
    <3>2. g[k + 1] = g[k] + EntrySize(es[k + 1])
      <4> HIDE DEF g
      <4> QED  BY <1>4, <3>1
    <3>3. f[k + 1] = f[k] + EntrySize(es[k + 1])
        BY <1>1, <3>1 DEF LedgerOf
    <3> QED  BY <2>2, <3>1, <3>2, <3>3
  <2>3. n \in Nat
      OBVIOUS
  <2> HIDE DEF S, n
  <2> QED  BY <2>1, <2>2, <2>3, Induction, SMTT(30)
<1>6. g = f
  <2>1. \A k \in 0 .. n : g[k] = f[k]
      BY <1>5
  <2>2. g = [k \in 0 .. n |-> g[k]]
    <3> HIDE DEF g
    <3> QED  BY <1>4
  <2>3. f = [k \in 0 .. n |-> f[k]]
      BY <1>1 DEF LedgerOf
  <2> HIDE DEF g, n
  <2> QED  BY <2>1, <2>2, <2>3
<1> QED  BY <1>1, <1>6

\* The bytes of the k newest entries are a number.
LEMMA LedgerType ==
    ASSUME NEW es \in Seq(Entry)
    PROVE  /\ Ledger(es) \in [0 .. Len(es) -> Nat]
           /\ Ledger(es)[0] = 0
           /\ \A k \in 1 .. Len(es) :
                 Ledger(es)[k] = Ledger(es)[k - 1] + EntrySize(es[k])
BY LedgerIs DEF LedgerOf

\* Entries take room: more entries are more bytes.
LEMMA LedgerMonotone ==
    ASSUME NEW es \in Seq(Entry), NEW i \in 0 .. Len(es), NEW j \in i .. Len(es)
    PROVE  Ledger(es)[i] <= Ledger(es)[j]
<1> DEFINE d == Len(es) - i
           S == {k \in 0 .. d : Ledger(es)[i] <= Ledger(es)[i + k]}
<1>1. d \in Nat /\ 0 \in S
    BY LedgerType, SMTT(30)
<1>2. ASSUME NEW k \in 0 .. d - 1, k \in S  PROVE k + 1 \in S
  <2>1. i + k + 1 \in 1 .. Len(es) /\ i + k \in 0 .. Len(es) /\ i \in 0 .. Len(es)
      OBVIOUS
  <2>2. Ledger(es)[i + k + 1] = Ledger(es)[i + k] + EntrySize(es[i + k + 1])
      BY <2>1, LedgerType
  <2>3. EntrySize(es[i + k + 1]) \in Nat
      BY <2>1, EntrySizeType
  <2>4. /\ Ledger(es)[i + k] \in Nat
        /\ Ledger(es)[i] \in Nat
        /\ Ledger(es)[i] <= Ledger(es)[i + k]
      BY <1>2, <2>1, LedgerType
  <2>5. Ledger(es)[i] <= Ledger(es)[i + (k + 1)]
      BY <2>2, <2>3, <2>4
  <2> QED  BY <2>5
<1>3. 0 .. d \subseteq S
  <2> HIDE DEF S, d
  <2> QED  BY <1>1, <1>2, Induction, SMTT(30)
<1>4. j - i \in 0 .. d
    OBVIOUS
<1>5. Ledger(es)[i] <= Ledger(es)[i + (j - i)]
    BY <1>3, <1>4
<1> QED  BY <1>5

\* The ledgers of two tables that agree on their newest n entries agree that far.
LEMMA LedgerOfPrefix ==
    ASSUME NEW es \in Seq(Entry), NEW fs \in Seq(Entry), NEW n \in Nat,
           n <= Len(es), n <= Len(fs), \A k \in 1 .. n : es[k] = fs[k]
    PROVE  \A k \in 0 .. n : Ledger(es)[k] = Ledger(fs)[k]
<1> DEFINE S == {k \in 0 .. n : Ledger(es)[k] = Ledger(fs)[k]}
<1>1. 0 \in S
    BY LedgerType
<1>2. ASSUME NEW k \in 0 .. n - 1, k \in S  PROVE k + 1 \in S
  <2>1. k + 1 \in 1 .. Len(es) /\ k + 1 \in 1 .. Len(fs) /\ (k + 1) - 1 = k
      OBVIOUS
  <2>2. /\ Ledger(es)[k + 1] = Ledger(es)[k] + EntrySize(es[k + 1])
        /\ Ledger(fs)[k + 1] = Ledger(fs)[k] + EntrySize(fs[k + 1])
    <3>1. /\ Ledger(es)[k + 1] = Ledger(es)[(k + 1) - 1] + EntrySize(es[k + 1])
          /\ Ledger(fs)[k + 1] = Ledger(fs)[(k + 1) - 1] + EntrySize(fs[k + 1])
        BY <2>1, LedgerType
    <3> QED  BY <2>1, <3>1
  <2> QED  BY <1>2, <2>2
<1> HIDE DEF S
<1>3. 0 .. n \subseteq S
    BY <1>1, <1>2, Induction
<1> QED  BY <1>3 DEF S

\* A new entry adds its size to every sum.
LEMMA LedgerOfPush ==
    ASSUME NEW es \in Seq(Entry), NEW e \in Entry
    PROVE  /\ << e >> \o es \in Seq(Entry)
           /\ Len(<< e >> \o es) = Len(es) + 1
           /\ \A k \in 0 .. Len(es) :
                 Ledger(<< e >> \o es)[k + 1] = EntrySize(e) + Ledger(es)[k]
           /\ Bytes(<< e >> \o es) = EntrySize(e) + Bytes(es)
<1> DEFINE fs == << e >> \o es
           n == Len(es)
           S == {k \in 0 .. n : Ledger(fs)[k + 1] = EntrySize(e) + Ledger(es)[k]}
<1>1. /\ fs \in Seq(Entry)
      /\ Len(fs) = n + 1
      /\ fs[1] = e
      /\ \A k \in 1 .. n : fs[k + 1] = es[k]
    OBVIOUS
<1>2. n \in Nat /\ EntrySize(e) \in Nat
    BY EntrySizeType
<1> HIDE DEF fs, n
<1>3. 0 \in S
  <2>1. Ledger(fs)[1] = Ledger(fs)[0] + EntrySize(fs[1])
    <3>1. 1 \in 1 .. Len(fs) /\ 1 - 1 = 0
        BY <1>1, <1>2
    <3> QED  BY <1>1, <3>1, LedgerType
  <2>2. Ledger(fs)[0] = 0 /\ Ledger(es)[0] = 0
      BY <1>1, LedgerType
  <2>3. Ledger(fs)[0 + 1] = EntrySize(e) + Ledger(es)[0]
      BY <1>1, <1>2, <2>1, <2>2
  <2> QED  BY <1>2, <2>3
<1>4. ASSUME NEW k \in 0 .. n - 1, k \in S  PROVE k + 1 \in S
  <2>1. k + 1 \in 1 .. n /\ k + 2 \in 1 .. Len(fs) /\ (k + 1) - 1 = k /\ (k + 2) - 1 = k + 1
        /\ (k + 1) + 1 = k + 2
      BY <1>1, <1>2
  <2>2. Ledger(fs)[k + 2] = Ledger(fs)[k + 1] + EntrySize(es[k + 1])
    <3>1. fs[k + 2] = es[k + 1]
        BY <1>1, <2>1
    <3> QED  BY <1>1, <2>1, <3>1, LedgerType
  <2>3. Ledger(es)[k + 1] = Ledger(es)[k] + EntrySize(es[k + 1])
      BY <2>1, LedgerType DEF n
  <2>4. Ledger(es)[k] \in Nat /\ EntrySize(es[k + 1]) \in Nat
    <3>1. Ledger(es)[k] \in Nat
        BY <1>2, LedgerType DEF n
    <3>2. es[k + 1] \in Entry
        BY <2>1 DEF n
    <3> QED  BY <3>1, <3>2, EntrySizeType
  <2>5. Ledger(fs)[k + 2] = EntrySize(e) + Ledger(es)[k + 1]
    <3>1. Ledger(fs)[k + 1] = EntrySize(e) + Ledger(es)[k]
        BY <1>4
    <3> HIDE DEF S
    <3> QED  BY <1>2, <2>2, <2>3, <2>4, <3>1
  <2> QED  BY <2>1, <2>5
<1>5. 0 .. n \subseteq S
  <2> HIDE DEF S
  <2> QED  BY <1>2, <1>3, <1>4, Induction, SMTT(30)
<1>6. \A k \in 0 .. n : Ledger(fs)[k + 1] = EntrySize(e) + Ledger(es)[k]
    BY <1>5
<1>7. Bytes(fs) = EntrySize(e) + Bytes(es)
    BY <1>1, <1>2, <1>6 DEF Bytes, n
<1> QED  BY <1>1, <1>6, <1>7 DEF fs, n

-----------------------------------------------------------------------------

\* size is exact, up to the width of unsigned.
Accounted(t) == t.size = Bytes(t.table) % UIntRange

\* The bytes of a table are a number.
LEMMA BytesType ==
    ASSUME NEW es \in Seq(Entry)
    PROVE  Bytes(es) \in Nat
BY LedgerType DEF Bytes

\* The size of a table that holds nothing is right.
LEMMA EmptyAccounted == EmptyTable \in Table /\ Accounted(EmptyTable)
<1>1. << >> \in Seq(Entry) /\ Len(<< >>) = 0
    OBVIOUS
<1>2. Bytes(<< >>) = 0
    BY <1>1, LedgerType DEF Bytes
<1>3. 0 % UIntRange = 0
    BY TableAssumption, ModFacts
<1> QED  BY <1>1, <1>2, <1>3 DEF EmptyTable, Table, Accounted

\* push() adds to size what the entry takes (common.h:792-795).
LEMMA PushKeepsAccount ==
    ASSUME NEW t \in Table, Accounted(t), NEW e \in Entry
    PROVE  Push(t, e) \in Table /\ Accounted(Push(t, e))
<1> DEFINE b == Bytes(t.table)
           z == EntrySize(e)
<1>1. /\ t.table \in Seq(Entry)
      /\ b \in Int /\ z \in Int /\ b + z = z + b /\ b + z \in Int
      /\ UIntRange \in Nat \ {0}
    BY BytesType, EntrySizeType, TableAssumption DEF Table
<1>2. << e >> \o t.table \in Seq(Entry) /\ Bytes(<< e >> \o t.table) = z + b
    BY <1>1, LedgerOfPush
<1>3. (t.size + z) % UIntRange = (z + b) % UIntRange
  <2> HIDE DEF b, z
  <2>1. t.size = b % UIntRange
      BY DEF Accounted, b
  <2>2. ((b % UIntRange) + z) % UIntRange = (b + z) % UIntRange
      BY <1>1, ModOfSum, Zenon
  <2> QED  BY <1>1, <2>1, <2>2, Zenon
<1>4. (t.size + z) % UIntRange \in Nat
  <2> HIDE DEF b, z
  <2>1. (b + z) % UIntRange \in 0 .. UIntRange - 1
      BY <1>1, ModFacts, Zenon
  <2>2. (t.size + z) % UIntRange \in 0 .. UIntRange - 1
      BY <1>1, <1>3, <2>1, Zenon
  <2> QED  BY <2>2
<1> HIDE DEF b
<1> QED  BY <1>2, <1>3, <1>4 DEF Push, Table, Accounted

\* The bytes of the k newest entries, taken as a table of their own.
LEMMA BytesOfNewest ==
    ASSUME NEW es \in Seq(Entry), NEW k \in 0 .. Len(es)
    PROVE  SubSeq(es, 1, k) \in Seq(Entry) /\ Bytes(SubSeq(es, 1, k)) = Ledger(es)[k]
<1> DEFINE fs == SubSeq(es, 1, k)
<1>1. fs \in Seq(Entry) /\ Len(fs) = k /\ \A j \in 1 .. k : fs[j] = es[j]
    OBVIOUS
<1>2. k \in Nat /\ k <= Len(es) /\ k <= Len(fs)
    BY <1>1
<1> HIDE DEF fs
<1>3. \A j \in 0 .. k : Ledger(fs)[j] = Ledger(es)[j]
    BY <1>1, <1>2, LedgerOfPrefix
<1> QED  BY <1>1, <1>2, <1>3 DEF Bytes, fs

\* However the size has wrapped, what it is after popping is what is left, wrapped.
LEMMA SizeAfterIs ==
    ASSUME NEW t \in Table, Accounted(t), NEW k \in 0 .. Len(t.table)
    PROVE  SizeAfter(t, k) = Ledger(t.table)[k] % UIntRange
<1> DEFINE b == Bytes(t.table)
           l == Ledger(t.table)[k]
<1>1. b \in Int /\ l \in Int /\ l - b \in Int /\ UIntRange \in Nat \ {0}
    BY BytesType, LedgerType, TableAssumption DEF Table
<1>2. t.size - (b - l) = (b % UIntRange) + (l - b)
  <2> HIDE DEF b, l
  <2>1. t.size = b % UIntRange /\ b % UIntRange \in Int
      BY <1>1, ModFacts DEF Accounted, b
  <2> QED  BY <1>1, <2>1
<1>3. ((b % UIntRange) + (l - b)) % UIntRange = (b + (l - b)) % UIntRange
  <2> HIDE DEF b, l
  <2> QED  BY <1>1, ModOfSum, Zenon
<1>4. b + (l - b) = l
    BY <1>1
<1> QED  BY <1>2, <1>3, <1>4 DEF SizeAfter

\* shrink() keeps some of the newest entries: as many as it can, so at least
\* as many as are within the budget.
LEMMA ShrinkKeeps ==
    ASSUME NEW t \in Table, Accounted(t), NEW max \in Nat
    PROVE  \E kept \in 0 .. Len(t.table) :
              /\ Shrink(t, max) \in Table
              /\ Accounted(Shrink(t, max))
              /\ Shrink(t, max).table = SubSeq(t.table, 1, kept)
              /\ kept = 0 \/ Ledger(t.table)[kept] % UIntRange <= max
              /\ \A k \in 0 .. Len(t.table) :
                    Ledger(t.table)[k] % UIntRange <= max => k <= kept
<1> DEFINE es == t.table
           kept == Max(StopsAt(t, max))
           s == Shrink(t, max)
<1>1. es \in Seq(Entry) /\ Len(es) \in Nat
    BY DEF Table
<1>2. \A k \in 0 .. Len(es) : SizeAfter(t, k) = Ledger(es)[k] % UIntRange
    BY SizeAfterIs
<1>3. kept \in StopsAt(t, max) /\ \A k \in StopsAt(t, max) : k <= kept
  <2>1. StopsAt(t, max) \subseteq 0 .. Len(es) /\ 0 \in StopsAt(t, max)
      BY <1>1 DEF StopsAt
  <2> HIDE DEF es
  <2> QED  BY <1>1, <2>1, SetMax
<1>4. kept \in 0 .. Len(es) /\ (kept = 0 \/ Ledger(es)[kept] % UIntRange <= max)
    BY <1>2, <1>3 DEF StopsAt
<1>5. \A k \in 0 .. Len(es) : Ledger(es)[k] % UIntRange <= max => k <= kept
    BY <1>2, <1>3 DEF StopsAt
<1>6. s = [table |-> SubSeq(es, 1, kept), size |-> Ledger(es)[kept] % UIntRange]
    BY <1>2, <1>4 DEF Shrink
<1> DEFINE fs == SubSeq(es, 1, kept)
<1> HIDE DEF es, kept, s
<1>7. fs \in Seq(Entry) /\ Bytes(fs) = Ledger(es)[kept]
    BY <1>1, <1>4, BytesOfNewest
<1>8. s \in Table /\ Accounted(s) /\ s.table = fs
  <2>1. Bytes(fs) % UIntRange \in Nat
    <3> HIDE DEF fs
    <3>1. Bytes(fs) \in Int /\ UIntRange \in Nat \ {0}
        BY <1>7, BytesType, TableAssumption
    <3>2. Bytes(fs) % UIntRange \in 0 .. UIntRange - 1
        BY <3>1, ModFacts, Zenon
    <3> QED  BY <3>2
  <2> QED  BY <1>6, <1>7, <2>1 DEF Table, Accounted
<1> QED  BY <1>4, <1>5, <1>8 DEF es, s

-----------------------------------------------------------------------------
(* What the lookups answer.                                                *)

\* A non-empty set of numbers has a minimum.
LEMMA SetMin ==
    ASSUME NEW T, T \subseteq Nat, T # {}
    PROVE  Min(T) \in T
<1>1. \E x \in T : \A y \in T : x <= y
    BY NatLeast
<1> QED  BY <1>1 DEF Min

\* The minimum of a non-empty set of numbers.
LEMMA LeastIs ==
    ASSUME NEW T, T \subseteq Nat, T # {}
    PROVE  Min(T) \in T /\ \A y \in T : Min(T) <= y
<1>1. \E x \in T : \A y \in T : x <= y
    BY NatLeast
<1> QED  BY <1>1 DEF Min

\* The static lookups answer 0 or the index of an entry that does match.
LEMMA StaticLookups ==
    ASSUME NEW e \in Entry
    PROVE  /\ FindFirstStatic(e.name) # 0
                => /\ FindFirstStatic(e.name) \in DOMAIN StaticTable
                   /\ StaticTable[FindFirstStatic(e.name)].name = e.name
           /\ FindStatic(e) # 0
                => /\ FindStatic(e) \in DOMAIN StaticTable
                   /\ StaticTable[FindStatic(e)] = e
<1> DEFINE p == FindFirstStatic(e.name)
<1>1. p # 0 => p \in DOMAIN StaticTable /\ StaticTable[p].name = e.name
    BY DEF FindFirstStatic
<1>2. ASSUME FindStatic(e) # 0
      PROVE  FindStatic(e) \in DOMAIN StaticTable /\ StaticTable[FindStatic(e)] = e
  <2> DEFINE hits == {q \in p .. Len(StaticTable) :
                         /\ StaticTable[q].value = e.value
                         /\ \A r \in p .. q : StaticTable[r].name = e.name}
             q == Min(hits)
  <2>1. p # 0 /\ hits # {} /\ FindStatic(e) = q
      BY <1>2 DEF FindStatic
  <2>2. StaticTable \in Seq(Entry) /\ p \in 1 .. Len(StaticTable)
      BY <1>1, <2>1, TableAssumption
  <2>3. q \in hits
    <3>1. hits \subseteq Nat
        BY <2>2
    <3> HIDE DEF hits
    <3> QED  BY <2>1, <3>1, SetMin
  <2> HIDE DEF p, q
  <2>4. /\ q \in 1 .. Len(StaticTable)
        /\ StaticTable[q].value = e.value /\ StaticTable[q].name = e.name
    <3>1. q \in p .. Len(StaticTable) /\ q \in p .. q
        BY <2>2, <2>3
    <3> QED  BY <2>2, <2>3, <3>1
  <2>5. StaticTable[q] = e
    <3> DEFINE f == StaticTable[q]
    <3>1. f \in Entry /\ f.name = e.name /\ f.value = e.value
        BY <2>2, <2>4
    <3> HIDE DEF f
    <3>2. f = e
        BY <3>1 DEF Entry
    <3> QED  BY <3>2 DEF f
  <2> QED  BY <2>1, <2>2, <2>4, <2>5
<1> QED  BY <1>1, <1>2

\* find(name, value) answers the index of the header, or 0 when no entry of
\* the dynamic table is that header.
LEMMA FindIs ==
    ASSUME NEW t \in Table, NEW e \in Entry
    PROVE  IF Find(t, e) = 0
           THEN \A k \in 1 .. Len(t.table) : t.table[k] # e
           ELSE /\ Find(t, e) \in ValidIndex(t.table)
                /\ Get(t.table, Find(t, e)) = e
<1> DEFINE es == t.table
           I == {k \in 1 .. Len(es) : es[k] = e}
<1>1. es \in Seq(Entry) /\ StaticTable \in Seq(Entry)
    BY TableAssumption DEF Table
<1>2. CASE FindStatic(e) # 0
  <2>1. /\ Find(t, e) = FindStatic(e)
        /\ FindStatic(e) \in DOMAIN StaticTable
        /\ StaticTable[FindStatic(e)] = e
      BY <1>2, StaticLookups DEF Find
  <2> QED  BY <1>1, <1>2, <2>1 DEF ValidIndex, Get
<1>3. CASE FindStatic(e) = 0
  <2>1. Find(t, e) = DynamicIndex(IF I # {} THEN Min(I) ELSE 0)
      BY <1>3 DEF Find, SelectInSeq
  <2>2. CASE I = {}
    <3>1. Find(t, e) = 0
        BY <2>1, <2>2 DEF DynamicIndex
    <3> QED  BY <2>2, <3>1
  <2>3. CASE I # {}
    <3>1. Min(I) \in I
      <4>1. I \subseteq Nat
          BY <1>1
      <4> HIDE DEF I
      <4> QED  BY <2>3, <4>1, SetMin
    <3>2. /\ Min(I) \in 1 .. Len(es) /\ es[Min(I)] = e
          /\ Find(t, e) = DynamicTableStart + Min(I) - 1
        BY <1>1, <2>1, <2>3, <3>1 DEF DynamicIndex
    <3> HIDE DEF I, es
    <3> DEFINE k == Min(I)
    <3> HIDE DEF k
    <3>3. k \in 1 .. Len(es) /\ es[k] = e /\ Find(t, e) = Len(StaticTable) + k
        BY <1>1, <3>2 DEF DynamicTableStart, k
    <3>4. /\ Find(t, e) # 0 /\ Find(t, e) \notin DOMAIN StaticTable
          /\ Find(t, e) \in ValidIndex(es)
          /\ Find(t, e) - DynamicTableStart + 1 = k
        BY <1>1, <3>3 DEF ValidIndex, DynamicTableStart
    <3> QED  BY <3>3, <3>4 DEF Get, es
  <2> QED  BY <2>2, <2>3
<1> QED  BY <1>2, <1>3

\* find(name) answers 0 or the index of an entry of that name.
LEMMA FindNameIs ==
    ASSUME NEW t \in Table, NEW e \in Entry, FindName(t, e.name) # 0
    PROVE  /\ FindName(t, e.name) \in ValidIndex(t.table)
           /\ Get(t.table, FindName(t, e.name)).name = e.name
<1> DEFINE es == t.table
           I == {k \in 1 .. Len(es) : es[k].name = e.name}
           i == FindName(t, e.name)
<1>1. es \in Seq(Entry) /\ StaticTable \in Seq(Entry)
    BY TableAssumption DEF Table
<1>2. CASE FindFirstStatic(e.name) # 0
  <2>1. /\ i = FindFirstStatic(e.name)
        /\ i \in DOMAIN StaticTable
        /\ StaticTable[i].name = e.name
      BY <1>2, StaticLookups DEF FindName
  <2> QED  BY <1>1, <2>1 DEF ValidIndex, Get
<1>3. CASE FindFirstStatic(e.name) = 0
  <2>1. i = DynamicIndex(IF I # {} THEN Min(I) ELSE 0)
      BY <1>3 DEF FindName, SelectInSeq
  <2>2. I # {}
      BY <2>1 DEF DynamicIndex
  <2>3. Min(I) \in I
    <3>1. I \subseteq Nat
        BY <1>1
    <3> HIDE DEF I
    <3> QED  BY <2>2, <3>1, SetMin
  <2> DEFINE k == Min(I)
  <2>4. k \in 1 .. Len(es) /\ es[k].name = e.name /\ i = DynamicTableStart + k - 1
      BY <1>1, <2>1, <2>2, <2>3 DEF DynamicIndex
  <2> HIDE DEF k, I, es, i
  <2>5. k \in 1 .. Len(es) /\ es[k].name = e.name /\ i = Len(StaticTable) + k
      BY <1>1, <2>4 DEF DynamicTableStart
  <2>6. /\ i \notin DOMAIN StaticTable /\ i \in ValidIndex(es)
        /\ i - DynamicTableStart + 1 = k
      BY <1>1, <2>5 DEF ValidIndex, DynamicTableStart
  <2> QED  BY <2>5, <2>6 DEF Get, es, i
<1> QED  BY <1>2, <1>3

-----------------------------------------------------------------------------
(* Pushing before evicting is the same as making room before adding.       *)

\* push() then shrink() (hpack.cc:147-149) keeps the new entry and, of the
\* others, exactly those for which the standard, which makes room first, has
\* room; the unsigned size never wraps on the way.
LEMMA PushAndShrinkIs ==
    ASSUME NEW t \in Table, NEW e \in Entry, NEW max \in Nat,
           t.size = Bytes(t.table), t.size <= max, EntrySize(e) <= max,
           2 * max < UIntRange
    PROVE  LET s == Shrink(Push(t, e), max) IN
           \E m \in 0 .. Len(t.table) :
              /\ s \in Table
              /\ s.table = << e >> \o SubSeq(t.table, 1, m)
              /\ s.size = Bytes(s.table)
              /\ s.size <= max
              /\ Ledger(t.table)[m] <= max - EntrySize(e)
              /\ \A k \in 0 .. Len(t.table) :
                    Ledger(t.table)[k] <= max - EntrySize(e) => k <= m
<1> DEFINE es == t.table
           fs == << e >> \o es
           z == EntrySize(e)
           p == Push(t, e)
           s == Shrink(p, max)
<1>1. /\ es \in Seq(Entry) /\ Len(es) \in Nat /\ z \in Nat /\ z > 0
      /\ UIntRange \in Nat \ {0} /\ Bytes(es) \in Nat
    BY TableAssumption, EntrySizeType, BytesType DEF Table
<1>2. /\ fs \in Seq(Entry) /\ Len(fs) = Len(es) + 1
      /\ \A k \in 0 .. Len(es) : Ledger(fs)[k + 1] = z + Ledger(es)[k]
      /\ Bytes(fs) = z + Bytes(es)
    BY <1>1, LedgerOfPush
<1>3. Bytes(fs) \in 0 .. UIntRange - 1 /\ Bytes(fs) <= 2 * max
    BY <1>1, <1>2
<1>4. p \in Table /\ Accounted(p) /\ p.table = fs
  <2>1. Accounted(t)
    <3> DEFINE b == Bytes(es)
    <3>1. b \in 0 .. UIntRange - 1 /\ b \in Int
        BY <1>1
    <3> HIDE DEF b
    <3>2. b % UIntRange = b
        BY <1>1, <3>1, ModFacts, Zenon
    <3> QED  BY <3>2 DEF Accounted, b
  <2> QED  BY <2>1, PushKeepsAccount DEF Push
<1>5. ASSUME NEW k \in 0 .. Len(fs)
      PROVE  /\ Ledger(fs)[k] \in 0 .. UIntRange - 1
             /\ Ledger(fs)[k] % UIntRange = Ledger(fs)[k]
  <2> HIDE DEF fs
  <2>1. Len(fs) \in k .. Len(fs)
      BY <1>1, <1>2
  <2>2. Ledger(fs)[k] \in Nat /\ Ledger(fs)[k] <= Bytes(fs)
      BY <1>2, <2>1, LedgerType, LedgerMonotone DEF Bytes
  <2>3. Ledger(fs)[k] \in 0 .. UIntRange - 1
      BY <1>1, <1>3, <2>2
  <2> DEFINE l == Ledger(fs)[k]
  <2>4. l \in Int
      BY <2>2
  <2> HIDE DEF l
  <2>5. l \in 0 .. UIntRange - 1 => l % UIntRange = l
      BY <1>1, <2>4, ModFacts, Zenon
  <2> QED  BY <2>3, <2>5 DEF l
<1> HIDE DEF fs, p
<1>6. PICK kept \in 0 .. Len(fs) :
         /\ s \in Table /\ Accounted(s)
         /\ s.table = SubSeq(fs, 1, kept)
         /\ kept = 0 \/ Ledger(fs)[kept] <= max
         /\ \A k \in 0 .. Len(fs) : Ledger(fs)[k] <= max => k <= kept
  <2>1. PICK kept \in 0 .. Len(p.table) :
           /\ Shrink(p, max) \in Table
           /\ Accounted(Shrink(p, max))
           /\ Shrink(p, max).table = SubSeq(p.table, 1, kept)
           /\ kept = 0 \/ Ledger(p.table)[kept] % UIntRange <= max
           /\ \A k \in 0 .. Len(p.table) :
                 Ledger(p.table)[k] % UIntRange <= max => k <= kept
      BY <1>4, ShrinkKeeps
  <2> QED  BY <1>4, <1>5, <2>1
<1> HIDE DEF s
<1>7. kept \in Nat /\ 1 <= kept /\ kept - 1 \in 0 .. Len(es) /\ (kept - 1) + 1 = kept
  <2>1. 0 \in 0 .. Len(es) /\ 0 + 1 \in 0 .. Len(fs)
      BY <1>1, <1>2
  <2>2. Ledger(fs)[0 + 1] = z + Ledger(es)[0] /\ Ledger(es)[0] = 0
      BY <1>1, <1>2, <2>1, LedgerType
  <2>3. Ledger(fs)[0 + 1] <= max
      BY <1>1, <2>2
  <2>4. 0 + 1 <= kept
      BY <1>6, <2>1, <2>3
  <2> QED  BY <1>1, <1>2, <2>4
<1> DEFINE m == kept - 1
<1>8. Ledger(es)[m] <= max - z
  <2>1. Ledger(fs)[kept] = z + Ledger(es)[m]
      BY <1>2, <1>7
  <2>2. Ledger(fs)[kept] <= max
      BY <1>6, <1>7
  <2>3. Ledger(es)[m] \in Nat
    <3> HIDE DEF m
    <3>1. m \in 0 .. Len(es)
        BY <1>7 DEF m
    <3> QED  BY <1>1, <3>1, LedgerType
  <2> HIDE DEF m, fs, es, z
  <2> QED  BY <1>1, <2>1, <2>2, <2>3
<1>9. ASSUME NEW k \in 0 .. Len(es), Ledger(es)[k] <= max - z
      PROVE  k <= m
  <2>1. k + 1 \in 0 .. Len(fs) /\ Ledger(fs)[k + 1] = z + Ledger(es)[k] /\ Ledger(es)[k] \in Nat
    <3>1. k + 1 \in 0 .. Len(fs) /\ Ledger(fs)[k + 1] = z + Ledger(es)[k]
        BY <1>1, <1>2
    <3>2. Ledger(es)[k] \in Nat
        BY <1>1, LedgerType
    <3> QED  BY <3>1, <3>2
  <2>2. Ledger(fs)[k + 1] <= max
      BY <1>1, <1>9, <2>1
  <2>3. k + 1 <= kept
      BY <1>6, <2>1, <2>2
  <2> QED  BY <1>7, <2>3
<1>10. s.table = << e >> \o SubSeq(es, 1, m)
  <2> DEFINE gs == SubSeq(fs, 1, kept)
             hs == << e >> \o SubSeq(es, 1, m)
  <2>1. /\ gs \in Seq(Entry) /\ Len(gs) = kept
        /\ \A k \in 1 .. kept : gs[k] = fs[k]
      BY <1>2, <1>6, <1>7
  <2>2. /\ SubSeq(es, 1, m) \in Seq(Entry) /\ Len(SubSeq(es, 1, m)) = m
        /\ \A k \in 1 .. m : SubSeq(es, 1, m)[k] = es[k]
      BY <1>1, <1>7
  <2>3. /\ hs \in Seq(Entry) /\ Len(hs) = kept
        /\ \A k \in 1 .. kept : hs[k] = IF k = 1 THEN e ELSE es[k - 1]
      BY <1>7, <2>2
  <2>4. \A k \in 1 .. kept : fs[k] = IF k = 1 THEN e ELSE es[k - 1]
      BY <1>1, <1>7 DEF fs
  <2> HIDE DEF gs, hs, m
  <2>5. \A k \in 1 .. kept : gs[k] = hs[k]
      BY <2>1, <2>3, <2>4
  <2>6. gs = hs
      BY <2>1, <2>3, <2>5, SeqEqual
  <2> QED  BY <1>6, <2>6 DEF gs, hs
<1>11. s.size = Bytes(s.table) /\ s.size <= max
  <2>1. Bytes(s.table) = Ledger(fs)[kept]
      BY <1>2, <1>6, BytesOfNewest
  <2>2. s.size = Ledger(fs)[kept]
      BY <1>5, <1>6, <2>1 DEF Accounted
  <2> QED  BY <1>6, <1>7, <2>1, <2>2
<1> QED  BY <1>6, <1>7, <1>8, <1>9, <1>10, <1>11 DEF s, p

-----------------------------------------------------------------------------
(* What the operations of the table answer.                                *)

\* An index in range denotes an entry (DynamicTable::get, common.h:807-819).
LEMMA GetType ==
    ASSUME NEW es \in Seq(Entry), NEW i \in ValidIndex(es)
    PROVE  i \in Nat \ {0} /\ Get(es, i) \in Entry
BY TableAssumption DEF ValidIndex, Get, DynamicTableStart

\* get() answers an entry for every index, the invalid ones included
\* (common.h:807-819).
LEMMA AnyGetType ==
    ASSUME NEW es \in Seq(Entry), NEW i \in Nat
    PROVE  Get(es, i) \in Entry
BY TableAssumption DEF ValidIndex, Get, DynamicTableStart

\* push() keeps a table a table, its size wrapping (common.h:792-795).
LEMMA PushType ==
    ASSUME NEW t \in Table, NEW e \in Entry
    PROVE  Push(t, e) \in Table
<1>1. /\ t.table \in Seq(Entry) /\ t.size \in Nat /\ EntrySize(e) \in Nat
      /\ UIntRange \in Nat \ {0}
    BY EntrySizeType, TableAssumption DEF Table
<1>2. << e >> \o t.table \in Seq(Entry)
    BY <1>1
<1>3. (t.size + EntrySize(e)) % UIntRange \in Nat
  <2>1. t.size + EntrySize(e) \in Int
      BY <1>1
  <2>2. (t.size + EntrySize(e)) % UIntRange \in 0 .. UIntRange - 1
      BY <1>1, <2>1, ModFacts, Zenon
  <2> QED  BY <2>2
<1> QED  BY <1>2, <1>3 DEF Push, Table

\* So does shrink() (common.h:767-774).
LEMMA ShrinkType ==
    ASSUME NEW t \in Table, NEW max \in Nat
    PROVE  Shrink(t, max) \in Table
<1> DEFINE kept == Max(StopsAt(t, max))
<1>1. t.table \in Seq(Entry) /\ t.size \in Nat /\ UIntRange \in Nat \ {0}
    BY TableAssumption DEF Table
<1>2. kept \in 0 .. Len(t.table)
  <2>1. StopsAt(t, max) \subseteq 0 .. Len(t.table) /\ 0 \in StopsAt(t, max)
      BY <1>1 DEF StopsAt
  <2>2. kept \in StopsAt(t, max)
      BY <1>1, <2>1, SetMax
  <2> QED  BY <2>1, <2>2
<1> HIDE DEF kept
<1>3. SubSeq(t.table, 1, kept) \in Seq(Entry)
    BY <1>1, <1>2
<1>4. SizeAfter(t, kept) \in Nat
  <2> DEFINE d == t.size - (Bytes(t.table) - Ledger(t.table)[kept])
  <2>1. d \in Int
    <3>1. Bytes(t.table) \in Nat
        BY <1>1, BytesType
    <3>2. Ledger(t.table)[kept] \in Nat
        BY <1>1, <1>2, LedgerType
    <3> QED  BY <1>1, <3>1, <3>2
  <2> HIDE DEF d
  <2>2. d % UIntRange \in 0 .. UIntRange - 1
      BY <1>1, <2>1, ModFacts, Zenon
  <2> QED  BY <2>2 DEF SizeAfter, d
<1> QED  BY <1>3, <1>4 DEF Shrink, Table, kept

-----------------------------------------------------------------------------
(* An encoder's table beside the decoder's.                                *)

\* es is what fs begins with.
Agrees(es, fs) == Len(es) <= Len(fs) /\ \A k \in 1 .. Len(es) : es[k] = fs[k]

\* What the decoder will make of the instruction: it was written between the
\* moments m and n, for the header h (none for a size update).
PushedOr(m, push, h, n) ==
    IF push THEN Agrees(n.table, << h >> \o m.table) ELSE n.table = m.table

Denotes(instr, m, h, n) ==
    \/ /\ instr.op = "resize"
       /\ n.count = m.count
       /\ instr.max \in 0 .. UIntRange - 1
       /\ n.table = Fit(m.table, instr.max)
    \/ /\ instr.op # "resize"
       /\ n.count = m.count + 1
       /\ \/ /\ instr.op = "indexed"
             /\ instr.index \in ValidIndex(m.table)
             /\ h = Get(m.table, instr.index)
             /\ n.table = m.table
          \/ /\ instr.op = "named"
             /\ instr.index \in ValidIndex(m.table)
             /\ h = [name |-> Get(m.table, instr.index).name, value |-> instr.value]
             /\ PushedOr(m, instr.push, h, n)
          \/ /\ instr.op = "literal"
             /\ h = instr.header
             /\ PushedOr(m, instr.push, h, n)


\* Where the encoder's table is what the decoder's begins with, an index the
\* encoder may use denotes the same entry for the decoder.
LEMMA AgreesGet ==
    ASSUME NEW es \in Seq(Entry), NEW fs \in Seq(Entry), Agrees(es, fs),
           NEW i \in ValidIndex(es)
    PROVE  Get(fs, i) = Get(es, i)
BY TableAssumption DEF ValidIndex, Get, Agrees, DynamicTableStart

\* Agreement is transitive: what holds of the decoder's table holds of any
\* table the encoder cut short.
LEMMA AgreesTransitive ==
    ASSUME NEW es \in Seq(Entry), NEW fs \in Seq(Entry), NEW gs \in Seq(Entry),
           Agrees(es, fs), Agrees(fs, gs)
    PROVE  Agrees(es, gs)
BY DEF Agrees

\* Pushing the same entry on both keeps them in agreement (common.h:792-795).
LEMMA AgreesPush ==
    ASSUME NEW es \in Seq(Entry), NEW fs \in Seq(Entry), NEW e \in Entry,
           Agrees(es, fs)
    PROVE  Agrees(<< e >> \o es, << e >> \o fs)
<1>1. /\ Len(<< e >> \o es) = Len(es) + 1
      /\ Len(<< e >> \o fs) = Len(fs) + 1
      /\ \A k \in 1 .. Len(es) + 1 :
            (<< e >> \o es)[k] = IF k = 1 THEN e ELSE es[k - 1]
      /\ \A k \in 1 .. Len(fs) + 1 :
            (<< e >> \o fs)[k] = IF k = 1 THEN e ELSE fs[k - 1]
    OBVIOUS
<1> DEFINE a == << e >> \o es
           b == << e >> \o fs
<1> HIDE DEF a, b
<1>2. /\ Len(a) = Len(es) + 1
      /\ Len(b) = Len(fs) + 1
      /\ \A k \in 1 .. Len(es) + 1 : a[k] = IF k = 1 THEN e ELSE es[k - 1]
      /\ \A k \in 1 .. Len(fs) + 1 : b[k] = IF k = 1 THEN e ELSE fs[k - 1]
    BY <1>1 DEF a, b
<1>3. Len(es) \in Nat /\ Len(fs) \in Nat /\ Len(es) <= Len(fs)
    BY DEF Agrees
<1>4. ASSUME NEW k \in 1 .. Len(a)  PROVE a[k] = b[k]
  <2>1. k \in 1 .. Len(es) + 1 /\ k \in 1 .. Len(fs) + 1
      BY <1>2, <1>3
  <2>2. k # 1 => k - 1 \in 1 .. Len(es)
      BY <2>1, <1>3
  <2> QED  BY <1>2, <2>1, <2>2 DEF Agrees
<1>5. Len(a) <= Len(b)
    BY <1>2, <1>3
<1>6. Agrees(a, b)
    BY <1>4, <1>5 DEF Agrees
<1> QED  BY <1>6 DEF a, b

\* The table of the standard is cut at an entry, within its limit.
LEMMA FitIs ==
    ASSUME NEW es \in Seq(Entry), NEW max \in Nat
    PROVE  \E n \in 0 .. Len(es) :
              /\ Fit(es, max) = SubSeq(es, 1, n)
              /\ Ledger(es)[n] <= max
<1>1. Fitting(es, max) \subseteq 0 .. Len(es) /\ 0 \in Fitting(es, max)
    BY LedgerType DEF Fitting
<1>2. Max(Fitting(es, max)) \in Fitting(es, max)
    BY <1>1, SetMax
<1> QED  BY <1>2 DEF Fit, Fitting

\* Cutting leaves a beginning of the table.
LEMMA FitType ==
    ASSUME NEW es \in Seq(Entry), NEW max \in Nat
    PROVE  Fit(es, max) \in Seq(Entry) /\ Agrees(Fit(es, max), es)
<1>1. PICK n \in 0 .. Len(es) : Fit(es, max) = SubSeq(es, 1, n)
    BY FitIs
<1> QED  BY <1>1 DEF Agrees

\* Inserting adds the entry in front and at most takes others from the back.
LEMMA InsertType ==
    ASSUME NEW es \in Seq(Entry), NEW e \in Entry, NEW max \in Nat
    PROVE  /\ Insert(es, e, max) \in Seq(Entry)
           /\ Agrees(Insert(es, e, max), << e >> \o es)
<1>1. CASE EntrySize(e) <= max
  <2>1. max - EntrySize(e) \in Nat
      BY <1>1, EntrySizeType
  <2> DEFINE fs == Fit(es, max - EntrySize(e))
  <2>2. fs \in Seq(Entry) /\ Agrees(fs, es)
      BY <2>1, FitType
  <2> HIDE DEF fs
  <2>3. << e >> \o fs \in Seq(Entry) /\ Agrees(<< e >> \o fs, << e >> \o es)
      BY <2>2, AgreesPush
  <2> QED  BY <1>1, <2>3 DEF Insert, fs
<1>2. CASE ~ (EntrySize(e) <= max)
    BY <1>2 DEF Insert, Agrees
<1> QED  BY <1>1, <1>2

\* A size update evicts nothing from the decoder's table that it leaves in
\* the encoder's: this is where the decoder's size must be right.
LEMMA ShrinkAgrees ==
    ASSUME NEW es \in Seq(Entry), NEW t \in Table, Accounted(t),
           Agrees(es, t.table), NEW max \in 0 .. UIntRange - 1
    PROVE  Agrees(Fit(es, max), Shrink(t, max).table)
<1> DEFINE fs == t.table
<1>1. fs \in Seq(Entry) /\ max \in Nat /\ UIntRange \in Nat \ {0}
    BY TableAssumption DEF Table
<1>2. PICK n \in 0 .. Len(es) : Fit(es, max) = SubSeq(es, 1, n) /\ Ledger(es)[n] <= max
    BY <1>1, FitIs
<1>3. PICK kept \in 0 .. Len(fs) :
         /\ Shrink(t, max).table = SubSeq(fs, 1, kept)
         /\ \A k \in 0 .. Len(fs) : Ledger(fs)[k] % UIntRange <= max => k <= kept
    BY <1>1, ShrinkKeeps
<1> HIDE DEF fs
<1>4. n \in Nat /\ n <= Len(es) /\ n <= Len(fs) /\ \A k \in 1 .. n : es[k] = fs[k]
    BY <1>1, <1>2 DEF Agrees, fs
<1>5. Ledger(fs)[n] = Ledger(es)[n]
    BY <1>1, <1>4, LedgerOfPrefix
<1>6. Ledger(fs)[n] \in 0 .. UIntRange - 1
  <2>1. Ledger(es)[n] \in Nat
      BY <1>2, LedgerType
  <2> QED  BY <1>1, <1>2, <1>5, <2>1
<1>7. Ledger(fs)[n] % UIntRange = Ledger(fs)[n]
  <2> DEFINE l == Ledger(fs)[n]
  <2>1. l \in Int
      BY <1>6
  <2> HIDE DEF l
  <2>2. l \in 0 .. UIntRange - 1 => l % UIntRange = l
      BY <1>1, <2>1, ModFacts, Zenon
  <2> QED  BY <1>6, <2>2 DEF l
<1>8. n <= kept
    BY <1>1, <1>2, <1>3, <1>4, <1>5, <1>7
<1> QED  BY <1>1, <1>2, <1>3, <1>4, <1>8 DEF Agrees

\* Agreement is the prefix relation of Synchronised.
LEMMA AgreesIsPrefix ==
    ASSUME NEW es \in Seq(Entry), NEW fs \in Seq(Entry), Agrees(es, fs)
    PROVE  IsPrefix(es, fs)
BY DEF Agrees, IsPrefix

\* An entry takes at least one byte, so a table has no more entries than bytes.
LEMMA EntriesTakeRoom ==
    ASSUME NEW es \in Seq(Entry)
    PROVE  Len(es) <= Bytes(es)
<1> DEFINE n == Len(es)
           T == {k \in 0 .. n : k <= Ledger(es)[k]}
<1>1. n \in Nat
    OBVIOUS
<1>2. 0 \in T
    BY LedgerType
<1>3. ASSUME NEW k \in 0 .. n - 1, k \in T  PROVE k + 1 \in T
  <2>1. k + 1 \in 1 .. n /\ k \in 0 .. n /\ (k + 1) - 1 = k
      BY <1>1
  <2>2. es[k + 1] \in Entry
      BY <2>1
  <2>3. EntrySize(es[k + 1]) \in Nat /\ EntrySize(es[k + 1]) >= 32
      BY <2>2, EntrySizeType
  <2>4. Ledger(es)[k + 1] = Ledger(es)[k] + EntrySize(es[k + 1]) /\ Ledger(es)[k] \in Nat
      BY <2>1, LedgerType
  <2>5. k <= Ledger(es)[k]
      BY <1>3
  <2>6. k + 1 <= Ledger(es)[k + 1]
      BY <1>1, <2>3, <2>4, <2>5
  <2> QED  BY <2>1, <2>6
<1>4. 0 .. n \subseteq T
  <2> HIDE DEF T, n
  <2> QED  BY <1>1, <1>2, <1>3, Induction, SMTT(30)
<1>5. n \in T
    BY <1>1, <1>4
<1> QED  BY <1>5 DEF Bytes

\* The table of the standard is cut at an entry, within its limit.
LEMMA FitFits ==
    ASSUME NEW es \in Seq(Entry), NEW max \in Nat
    PROVE  Fit(es, max) \in Seq(Entry) /\ Bytes(Fit(es, max)) <= max
<1> DEFINE k == Max(Fitting(es, max))
<1>1. Fitting(es, max) \subseteq 0 .. Len(es) /\ 0 \in Fitting(es, max) /\ Len(es) \in Nat
    BY LedgerType DEF Fitting
<1>2. k \in Fitting(es, max)
    BY <1>1, SetMax
<1>3. k \in 0 .. Len(es) /\ Ledger(es)[k] <= max
    BY <1>2 DEF Fitting
<1> HIDE DEF k
<1>4. SubSeq(es, 1, k) \in Seq(Entry) /\ Bytes(SubSeq(es, 1, k)) = Ledger(es)[k]
    BY <1>3, BytesOfNewest
<1> QED  BY <1>3, <1>4 DEF Fit, k

\* So is the table an entry has been added to.
LEMMA InsertFits ==
    ASSUME NEW es \in Seq(Entry), NEW e \in Entry, NEW max \in Nat
    PROVE  Insert(es, e, max) \in Seq(Entry) /\ Bytes(Insert(es, e, max)) <= max
<1>1. EntrySize(e) \in Nat
    BY EntrySizeType
<1>2. CASE EntrySize(e) <= max
  <2> DEFINE fs == Fit(es, max - EntrySize(e))
  <2>1. fs \in Seq(Entry) /\ Bytes(fs) <= max - EntrySize(e)
    <3>1. max - EntrySize(e) \in Nat
        BY <1>1, <1>2
    <3> QED  BY <3>1, FitFits
  <2>2. << e >> \o fs \in Seq(Entry) /\ Bytes(<< e >> \o fs) = EntrySize(e) + Bytes(fs)
    <3> HIDE DEF fs
    <3> QED  BY <2>1, LedgerOfPush
  <2>3. Bytes(fs) \in Nat
      BY <2>1, BytesType
  <2>4. Insert(es, e, max) = << e >> \o fs
      BY <1>2 DEF Insert
  <2> HIDE DEF fs
  <2> QED  BY <1>1, <2>1, <2>2, <2>3, <2>4
<1>3. CASE ~ (EntrySize(e) <= max)
  <2>1. Insert(es, e, max) = << >>
      BY <1>3 DEF Insert
  <2>2. << >> \in Seq(Entry) /\ Len(<< >>) = 0
      OBVIOUS
  <2>3. Bytes(<< >>) = 0
      BY <2>2, LedgerType DEF Bytes
  <2> QED  BY <2>1, <2>2, <2>3
<1> QED  BY <1>2, <1>3

-----------------------------------------------------------------------------
(* A decoder beside an encoder: hs are the headers encoded, ds those       *)
(* decoded, and t is the decoder's table.                                  *)

MomentType == [table : Seq(Entry), count : Nat]

\* It has carried out all that was written before the moment m.
DecodedAt(hs, ds, t, m) ==
    /\ ds \in Seq(Entry) /\ t \in Table
    /\ Len(ds) = m.count
    /\ \A k \in 1 .. Len(ds) : ds[k] = hs[k]
    /\ Agrees(m.table, t.table)
    /\ Accounted(t)

\* Handing a header to the callback, and pushing it or not (unpack.h:131-158).
Delivers(h, push, ds, t, es, u) ==
    /\ es = Append(ds, h)
    /\ u = IF push THEN Push(t, h) ELSE t

\* What one turn of the loop of unpack() does with an instruction, wherever the
\* instruction came from: one disjunct for each arm (unpack.h:122-161).
Does(instr, ds, t, es, u) ==
    \/ instr.op = "indexed" /\ Delivers(Get(t.table, instr.index), FALSE, ds, t, es, u)
    \/ /\ instr.op = "named" /\ instr.push \in BOOLEAN
       /\ Delivers([name |-> Get(t.table, instr.index).name, value |-> instr.value],
                   instr.push, ds, t, es, u)
    \/ /\ instr.op = "literal" /\ instr.push \in BOOLEAN
       /\ Delivers(instr.header, instr.push, ds, t, es, u)
    \/ instr.op = "resize" /\ u = Shrink(t, instr.max) /\ es = ds

\* The decoder carries out an instruction the way the encoder meant it: its
\* table agrees with the encoder's at the next moment, and the header it hands
\* to the callback, if any, is the one that was encoded.
LEMMA DoneAsMeant ==
    ASSUME NEW m \in MomentType, NEW n \in MomentType,
           NEW hs \in Seq(Entry), NEW ds, NEW t, NEW es, NEW u,
           NEW instr, DecodedAt(hs, ds, t, m), n.count <= Len(hs),
           Denotes(instr, m, hs[n.count], n), Does(instr, ds, t, es, u)
    PROVE  /\ es = ds \/ es = Append(ds, hs[Len(ds) + 1])
           /\ DecodedAt(hs, es, u, n)
<1> DEFINE h == hs[n.count]
           Goal == /\ es = ds \/ es = Append(ds, hs[Len(ds) + 1])
                   /\ DecodedAt(hs, es, u, n)
<1>1. /\ Denotes(instr, m, h, n)
      /\ ds \in Seq(Entry) /\ t \in Table /\ t.table \in Seq(Entry)
      /\ m.table \in Seq(Entry) /\ n.table \in Seq(Entry)
      /\ Len(ds) = m.count
      /\ \A k \in 1 .. Len(ds) : ds[k] = hs[k]
      /\ Agrees(m.table, t.table)
      /\ Accounted(t)
    BY DEF DecodedAt, Table, MomentType
<1>2. \A i \in ValidIndex(m.table) : Get(t.table, i) = Get(m.table, i)
    BY <1>1, AgreesGet
<1>3. h = hs[n.count]
    OBVIOUS
<1> SUFFICES Goal
    OBVIOUS
<1> HIDE DEF h
<1>4. ASSUME n.count = m.count + 1, NEW push \in BOOLEAN,
             PushedOr(m, push, h, n), Delivers(h, push, ds, t, es, u)
      PROVE  Goal
  <2>1. n.count \in 1 .. Len(hs) /\ n.count = Len(ds) + 1 /\ Len(ds) \in Nat
      BY <1>1, <1>4
  <2>2. h \in Entry /\ PushedOr(m, push, h, n) /\ es = Append(ds, h)
        /\ u = IF push THEN Push(t, h) ELSE t
      BY <1>3, <1>4, <2>1 DEF Delivers
  <2>3. es = Append(ds, hs[Len(ds) + 1]) /\ hs[Len(ds) + 1] = h
    <3>1. hs[Len(ds) + 1] = h
        BY <1>3, <2>1
    <3> QED  BY <2>2, <3>1
  <2>4. es \in Seq(Entry) /\ Len(es) = n.count /\ \A k \in 1 .. Len(es) : es[k] = hs[k]
    <3>1. /\ Len(es) = Len(ds) + 1 /\ es \in Seq(Entry)
          /\ es[Len(ds) + 1] = h
          /\ \A k \in 1 .. Len(ds) : es[k] = ds[k]
        BY <1>1, <2>2
    <3>2. ASSUME NEW k \in 1 .. Len(es)  PROVE es[k] = hs[k]
      <4>1. k \in 1 .. Len(ds) \/ k = Len(ds) + 1
          BY <2>1, <3>1
      <4> QED  BY <1>1, <2>1, <2>3, <3>1, <4>1
    <3> QED  BY <2>1, <3>1, <3>2
  <2>5. Agrees(n.table, u.table) /\ u \in Table /\ Accounted(u)
    <3>1. CASE push
      <4>1. u = Push(t, h)
          BY <2>2, <3>1
      <4>2. u \in Table /\ Accounted(u)
          BY <1>1, <2>2, <4>1, PushKeepsAccount
      <4> DEFINE a == << h >> \o m.table
                 b == << h >> \o t.table
      <4>3. a \in Seq(Entry) /\ b \in Seq(Entry) /\ Agrees(a, b)
          BY <1>1, <2>2, AgreesPush
      <4>4. Agrees(n.table, a) /\ u.table = b
          BY <2>2, <3>1, <4>1 DEF PushedOr, Push
      <4> HIDE DEF a, b
      <4>5. Agrees(n.table, u.table)
          BY <1>1, <4>3, <4>4, AgreesTransitive
      <4> QED  BY <4>2, <4>5
    <3>2. CASE ~ push
        BY <1>1, <2>2, <3>2 DEF PushedOr
    <3> QED  BY <3>1, <3>2
  <2> QED  BY <2>3, <2>4, <2>5 DEF DecodedAt
<1> HIDE DEF Goal
<1>5. CASE instr.op = "indexed"
  <2>1. /\ n.count = m.count + 1
        /\ instr.index \in ValidIndex(m.table)
        /\ h = Get(m.table, instr.index)
        /\ PushedOr(m, FALSE, h, n)
      BY <1>1, <1>5 DEF Denotes, PushedOr
  <2>2. Delivers(h, FALSE, ds, t, es, u)
      BY <1>2, <1>5, <2>1 DEF Does
  <2> QED  BY <1>4, <2>1, <2>2
<1>6. CASE instr.op = "named"
  <2>1. /\ n.count = m.count + 1
        /\ instr.index \in ValidIndex(m.table)
        /\ h = [name |-> Get(m.table, instr.index).name, value |-> instr.value]
        /\ PushedOr(m, instr.push, h, n)
      BY <1>1, <1>6 DEF Denotes
  <2>2. Delivers(h, instr.push, ds, t, es, u) /\ instr.push \in BOOLEAN
      BY <1>2, <1>6, <2>1 DEF Does
  <2> QED  BY <1>4, <2>1, <2>2
<1>7. CASE instr.op = "literal"
  <2>1. /\ n.count = m.count + 1
        /\ h = instr.header
        /\ PushedOr(m, instr.push, h, n)
      BY <1>1, <1>7 DEF Denotes
  <2>2. Delivers(h, instr.push, ds, t, es, u) /\ instr.push \in BOOLEAN
      BY <1>7, <2>1 DEF Does
  <2> QED  BY <1>4, <2>1, <2>2
<1>8. CASE instr.op = "resize"
  <2>1. u = Shrink(t, instr.max) /\ es = ds
      BY <1>8 DEF Does
  <2>2. /\ n.count = m.count
        /\ instr.max \in 0 .. UIntRange - 1
        /\ n.table = Fit(m.table, instr.max)
      BY <1>1, <1>8 DEF Denotes
  <2>3. instr.max \in Nat
      BY <2>2
  <2>4. Agrees(n.table, u.table)
      BY <1>1, <2>1, <2>2, <2>3, ShrinkAgrees
  <2>5. u \in Table /\ Accounted(u)
      BY <1>1, <2>1, <2>3, ShrinkKeeps
  <2> QED  BY <2>1, <2>2, <2>4, <2>5 DEF DecodedAt, Goal
<1> QED  BY <1>5, <1>6, <1>7, <1>8 DEF Does

-----------------------------------------------------------------------------

\* A number below the divisor is its own remainder.
LEMMA ModSmall ==
    ASSUME NEW u \in Nat \ {0}, NEW a \in 0 .. u - 1
    PROVE  a % u = a
BY ModFacts

\* The remainder of a product, by the remainders of its factors.
LEMMA ModOfProduct ==
    ASSUME NEW v \in Nat, NEW p \in Nat \ {0}, NEW q \in Nat \ {0}
    PROVE  v % (p * q) = (v % p) + p * ((v \div p) % q)
<1> DEFINE x == v \div p
           r == v % p
           y == x \div q
           s == x % q
<1>1. x \in Int /\ r \in 0 .. p - 1 /\ v = p * x + r
    BY ModFacts
<1> HIDE DEF x, r
<1>2. y \in Int /\ s \in 0 .. q - 1 /\ x = q * y + s
    BY <1>1, ModFacts
<1> HIDE DEF y, s
<1>3. v = (p * q) * y + (p * s + r)
    BY <1>1, <1>2
<1>4. p * s + r \in 0 .. p * q - 1 /\ p * q \in Nat \ {0}
  <2>1. p * s <= p * (q - 1) /\ p * s \in Nat
      BY <1>2
  <2>2. p * (q - 1) = p * q - p
      OBVIOUS
  <2>3. p * q \in Nat /\ p * q > 0
      OBVIOUS
  <2> QED  BY <1>1, <2>1, <2>2, <2>3
<1> DEFINE m == p * q
           t == p * s + r
<1>5. m \in Nat \ {0} /\ t \in 0 .. m - 1 /\ v = m * y + t
    BY <1>3, <1>4
<1> HIDE DEF m, t
<1>6. v % m = t
    BY <1>2, <1>5, ModUnique
<1>7. t = r + p * s
    BY <1>1, <1>2 DEF t
<1> QED  BY <1>6, <1>7 DEF m, r, s, x

-----------------------------------------------------------------------------
(* The groups.                                                             *)

\* The continuation bit.
LEMMA MoreType == More \in Nat /\ More >= 16 /\ More = 2 ^ GroupBits
<1>1. GroupBits \in Nat /\ 4 <= GroupBits
    BY OctetAssumption
<1>2. 2 ^ 4 = 16
  <2>1. 2 ^ (0 + 1) = 2 * 2 ^ 0 /\ 2 ^ (1 + 1) = 2 * 2 ^ 1
        /\ 2 ^ (2 + 1) = 2 * 2 ^ 2 /\ 2 ^ (3 + 1) = 2 * 2 ^ 3
      BY PowerOfTwo
  <2> QED  BY <2>1, PowerZero
<1> QED  BY <1>1, <1>2, PowerOfTwo, PowerMonotone DEF More

\* An octet is the continuation bit and a group.
LEMMA OctetType ==
    ASSUME NEW o \in Octet
    PROVE  /\ o \in Nat
           /\ o % More \in 0 .. More - 1
           /\ o < More => o % More = o
           /\ o >= More => o % More = o - More
<1> DEFINE m == More
<1>1. m \in Nat \ {0} /\ o \in 0 .. 2 * m - 1
    BY MoreType DEF Octet
<1> HIDE DEF m
<1>2. /\ o % m \in 0 .. m - 1
      /\ o < m => o % m = o
  <2>1. o \in Int /\ o >= 0
      BY <1>1
  <2>2. o % m \in 0 .. m - 1 /\ (o \in 0 .. m - 1 => o % m = o)
      BY <1>1, <2>1, ModFacts
  <2>3. o < m => o \in 0 .. m - 1
      BY <1>1
  <2> QED  BY <2>2, <2>3
<1>3. ASSUME o >= m  PROVE o % m = o - m
  <2>1. (m * 1 + (o - m)) % m = o - m
      BY <1>1, <1>3, ModUnique
  <2>2. m * 1 + (o - m) = o
      BY <1>1
  <2> QED  BY <2>1, <2>2
<1> QED  BY <1>1, <1>2, <1>3 DEF m

\* What a group counts for, from one to the next.
LEMMA WeightStep ==
    ASSUME NEW k \in Nat, k > 0
    PROVE  /\ Weight(k) \in Nat \ {0}
           /\ Weight(k + 1) \in Nat \ {0}
           /\ Weight(k + 1) = Weight(k) * More
           /\ Weight(k + 1) = 2 ^ (GroupBits * k)
           /\ Weight(1) = 1
<1> DEFINE i == GroupBits * (k - 1)
<1>1. GroupBits \in Nat /\ i \in Nat
    BY OctetAssumption
<1>2. (k + 1) - 1 = k /\ GroupBits * k = i + GroupBits /\ GroupBits * (1 - 1) = 0
    BY OctetAssumption
<1>3. 2 ^ i \in Nat \ {0} /\ 2 ^ (i + GroupBits) \in Nat \ {0}
    BY <1>1, PowerOfTwo
<1>4. 2 ^ (i + GroupBits) = 2 ^ i * 2 ^ GroupBits
    BY <1>1, PowerSum
<1> QED  BY <1>2, <1>3, <1>4, PowerZero DEF Weight, More

\* A group counts for something.
LEMMA WeightType ==
    ASSUME NEW k \in Nat \ {0}
    PROVE  Weight(k) \in Nat \ {0}
BY WeightStep

\* Later groups count for more.
LEMMA WeightMonotone ==
    ASSUME NEW i \in Nat \ {0}, NEW j \in Nat \ {0}, i <= j
    PROVE  Weight(i) <= Weight(j)
<1> DEFINE a == GroupBits * (i - 1)
           b == GroupBits * (j - 1)
<1>1. a \in Nat /\ b \in Nat /\ a <= b
  <2>1. j = i + (j - i) /\ j - i \in Nat /\ i - 1 \in Nat /\ GroupBits \in Nat
      BY OctetAssumption
  <2>2. b = a + GroupBits * (j - i)
      BY <2>1
  <2>3. GroupBits * (j - i) \in Nat /\ a \in Nat
      BY <2>1
  <2> QED  BY <2>2, <2>3
<1> QED  BY <1>1, PowerMonotone DEF Weight

\* The width of unsigned, and the groups that cover it.
LEMMA WidthType ==
    /\ 2 ^ UIntBits \in Nat /\ 2 ^ UIntBits >= 2 * More
    /\ MaxGroups \in Nat /\ MaxGroups >= 2
    /\ 2 ^ UIntBits <= Weight(MaxGroups + 1)
<1>1. UIntBits \in Nat /\ GroupBits \in Nat /\ GroupBits + 1 <= UIntBits /\ GroupBits > 0
    BY OctetAssumption
<1>2. 2 ^ (GroupBits + 1) = 2 * More /\ 2 ^ (GroupBits + 1) <= 2 ^ UIntBits /\ 2 ^ UIntBits \in Nat
    BY <1>1, PowerOfTwo, PowerMonotone DEF More
<1>3. MaxGroups \in Nat /\ MaxGroups >= 2 /\ GroupBits * MaxGroups >= UIntBits
  <2> DEFINE a == UIntBits + GroupBits - 1
             g == GroupBits
             q == a \div g
             r == a % g
             u == UIntBits
  <2>1. a \in Nat /\ g \in Nat \ {0} /\ u \in Nat /\ a = u + g - 1 /\ u >= g + 1
      BY <1>1
  <2> HIDE DEF a, g, u
  <2>2. q \in Int /\ r \in 0 .. g - 1 /\ a = g * q + r
      BY <2>1, ModFacts
  <2> HIDE DEF q, r
  <2>3. g * q >= u
      BY <2>1, <2>2
  <2>4. q >= 2
    <3>1. CASE q <= 0
      <4>1. g * q <= 0
          BY <2>1, <2>2, <3>1
      <4> QED  BY <2>1, <2>2, <2>3, <4>1
    <3>2. CASE q = 1
      <4>1. g * q = g
          BY <2>1, <3>2
      <4> QED  BY <2>1, <2>3, <4>1
    <3> QED  BY <2>2, <3>1, <3>2
  <2>5. q = MaxGroups
      BY DEF q, a, g, MaxGroups
  <2> QED  BY <2>2, <2>3, <2>4, <2>5 DEF g, u
<1>4. 2 ^ UIntBits <= Weight(MaxGroups + 1)
  <2>1. GroupBits * MaxGroups \in Nat
      BY <1>1, <1>3
  <2>2. Weight(MaxGroups + 1) = 2 ^ (GroupBits * MaxGroups)
      BY <1>3, WeightStep
  <2> QED  BY <1>1, <1>3, <2>1, <2>2, PowerMonotone
<1> QED  BY <1>2, <1>3, <1>4

\* The number of groups is the least that holds the value.
LEMMA GroupsOfIs ==
    ASSUME NEW v \in UInt
    PROVE  /\ GroupsOf(v) \in 1 .. MaxGroups
           /\ v < Weight(GroupsOf(v) + 1)
           /\ GroupsOf(v) > 1 => v >= Weight(GroupsOf(v))
<1> DEFINE T == {k \in 1 .. MaxGroups : v < Weight(k + 1)}
           n == GroupsOf(v)
<1>1. MaxGroups \in T
    BY WidthType, WeightStep DEF UInt
<1>2. n \in T /\ \A k \in T : n <= k
  <2>1. T \subseteq Nat /\ T # {}
      BY <1>1
  <2>2. n = Min(T)
      BY DEF GroupsOf
  <2>3. \E x \in T : \A y \in T : x <= y
    <3> HIDE DEF T
    <3> QED  BY <2>1, NatLeast
  <2> HIDE DEF n, T
  <2> QED  BY <2>2, <2>3 DEF Min
<1>3. ASSUME n > 1  PROVE v >= Weight(n)
  <2>1. n - 1 \in 1 .. MaxGroups /\ n - 1 \notin T /\ (n - 1) + 1 = n /\ n \in Nat
    <3> HIDE DEF n
    <3> QED  BY <1>2, <1>3, WidthType
  <2>2. ~ (v < Weight(n))
    <3> HIDE DEF n
    <3> QED  BY <2>1
  <2>3. Weight(n) \in Nat
    <3> HIDE DEF n
    <3> QED  BY <1>3, <2>1, WeightStep
  <2> HIDE DEF n
  <2> QED  BY <2>2, <2>3, WidthType DEF UInt
<1> QED  BY <1>2, <1>3

\* f is the sums of the first n groups.
SumOf(f, os, n) ==
    /\ f \in [0 .. n -> Nat]
    /\ f[0] = 0
    /\ \A k \in 1 .. n : f[k] = f[k - 1] + (os[k] % More) * Weight(k)

\* The recursive definition of the sums defines a function.
LEMMA SumExists ==
    ASSUME NEW os \in Seq(Octet)
    PROVE  \E f : SumOf(f, os, Len(os))
<1> DEFINE S == {n \in 0 .. Len(os) : \E f : SumOf(f, os, n)}
<1>1. 0 \in S
  <2>1. SumOf([k \in 0 .. 0 |-> 0], os, 0)
      BY DEF SumOf
  <2> QED  BY <2>1
<1>2. ASSUME NEW n \in 0 .. Len(os) - 1, n \in S  PROVE n + 1 \in S
  <2>1. PICK f : SumOf(f, os, n)
      BY <1>2
  <2> DEFINE a == (os[n + 1] % More) * Weight(n + 1)
  <2>2. a \in Nat
    <3>1. os[n + 1] % More \in Nat
      <4>1. os[n + 1] \in Octet
          OBVIOUS
      <4> QED  BY <4>1, OctetType
    <3>2. Weight(n + 1) \in Nat
        BY WeightStep
    <3> QED  BY <3>1, <3>2
  <2> DEFINE g == [k \in 0 .. n + 1 |-> IF k = n + 1 THEN f[n] + a ELSE f[k]]
  <2>3. g \in [0 .. n + 1 -> Nat] /\ g[0] = 0
    <3> HIDE DEF a
    <3> QED  BY <2>1, <2>2 DEF SumOf
  <2>4. ASSUME NEW k \in 1 .. n + 1  PROVE g[k] = g[k - 1] + (os[k] % More) * Weight(k)
      BY <2>1 DEF SumOf
  <2>5. SumOf(g, os, n + 1)
    <3> HIDE DEF g
    <3> QED  BY <2>3, <2>4 DEF SumOf
  <2> QED  BY <2>5
<1>3. 0 .. Len(os) \subseteq S
  <2> HIDE DEF S
  <2> QED  BY <1>1, <1>2, Induction, SMTT(30)
<1>4. Len(os) \in S
  <2> HIDE DEF S
  <2> QED  BY <1>3
<1> QED  BY <1>4

\* GroupSum is that function.
LEMMA GroupSumIs ==
    ASSUME NEW os \in Seq(Octet)
    PROVE  SumOf(GroupSum(os), os, Len(os))
<1> DEFINE n == Len(os)
           L(f) == [k \in 0 .. n |-> IF k = 0 THEN 0
                                     ELSE f[k - 1] + (os[k] % More) * Weight(k)]
           g == GroupSum(os)
<1>1. PICK f : SumOf(f, os, n)
    BY SumExists
<1>2. f = L(f)
    BY <1>1 DEF SumOf
<1>3. g = CHOOSE h : h = L(h)
    BY DEF GroupSum
<1>4. g = L(g)
    BY <1>2, <1>3
<1> DEFINE S == {k \in 0 .. n : g[k] = f[k]}
<1>5. 0 .. n \subseteq S
  <2>1. 0 \in S
      BY <1>2, <1>4
  <2>2. ASSUME NEW k \in 0 .. n - 1, k \in S  PROVE k + 1 \in S
    <3>1. k + 1 \in 0 .. n /\ k + 1 # 0 /\ (k + 1) - 1 = k
        OBVIOUS
    <3> DEFINE a == (os[k + 1] % More) * Weight(k + 1)
    <3>2. g[k + 1] = g[k] + a
      <4> HIDE DEF g
      <4> QED  BY <1>4, <3>1
    <3>3. f[k + 1] = f[k] + a
        BY <1>1, <3>1 DEF SumOf
    <3> QED  BY <2>2, <3>1, <3>2, <3>3
  <2>3. n \in Nat
      OBVIOUS
  <2> HIDE DEF S, n
  <2> QED  BY <2>1, <2>2, <2>3, Induction, SMTT(30)
<1>6. g = f
  <2>1. \A k \in 0 .. n : g[k] = f[k]
      BY <1>5
  <2>2. g = [k \in 0 .. n |-> g[k]]
    <3> HIDE DEF g
    <3> QED  BY <1>4
  <2>3. f = [k \in 0 .. n |-> f[k]]
      BY <1>1 DEF SumOf
  <2> HIDE DEF g, n
  <2> QED  BY <2>1, <2>2, <2>3
<1> QED  BY <1>1, <1>6

\* Groups that hold the digits of a value come to the value, as far as they go.
LEMMA GroupSumOf ==
    ASSUME NEW os \in Seq(Octet), NEW v \in Nat, NEW n \in 0 .. Len(os),
           \A k \in 1 .. n : os[k] % More = (v \div Weight(k)) % More
    PROVE  GroupSum(os)[n] = v % Weight(n + 1)
<1> DEFINE g == GroupSum(os)
           S == {k \in 0 .. n : g[k] = v % Weight(k + 1)}
<1>1. SumOf(g, os, Len(os))
    BY GroupSumIs
<1> HIDE DEF g
<1>2. 0 \in S
  <2>1. Weight(0 + 1) = 1
      BY WeightStep
  <2> QED  BY <1>1, <2>1 DEF SumOf
<1>3. ASSUME NEW k \in 0 .. n - 1, k \in S  PROVE k + 1 \in S
  <2> DEFINE w == Weight(k + 1)
             d == (v \div w) % More
           j == k + 1
  <2>1. w \in Nat \ {0} /\ Weight((k + 1) + 1) = w * More /\ More \in Nat \ {0}
    <3>1. j \in Nat /\ j > 0
        OBVIOUS
    <3>2. Weight(j) \in Nat \ {0} /\ Weight(j + 1) = Weight(j) * More
      <4> HIDE DEF j
      <4> QED  BY <3>1, WeightStep
    <3> QED  BY <3>2, MoreType
  <2>2. os[k + 1] % More = d
      OBVIOUS
  <2>3. k + 1 \in 1 .. Len(os) /\ (k + 1) - 1 = k
      OBVIOUS
  <2>4. g[k + 1] = g[k] + d * w
      BY <1>1, <2>2, <2>3 DEF SumOf
  <2>5. v % (w * More) = (v % w) + w * d
    <3> HIDE DEF w
    <3> QED  BY <2>1, ModOfProduct DEF d
  <2>6. d * w = w * d
    <3>1. v \div w \in Int
      <4> HIDE DEF w
      <4> QED  BY <2>1, DivZero
    <3>2. d \in Int
      <4> HIDE DEF w
      <4> QED  BY <2>1, <3>1, ModFacts DEF d
    <3> HIDE DEF d, w
    <3> QED  BY <2>1, <3>2
  <2> HIDE DEF d
  <2> QED  BY <1>3, <2>1, <2>4, <2>5, <2>6
<1>4. 0 .. n \subseteq S
  <2> HIDE DEF S
  <2> QED  BY <1>2, <1>3, Induction, SMTT(30)
<1> QED  BY <1>4 DEF g

-----------------------------------------------------------------------------
(* The first octet.                                                        *)

\* The arm that reads a form: the bit of "never indexed" is ignored, and the
\* flag of the Huffman code is not part of the length.
ReadAs(f) == CASE f = "never" -> "unindexed"
               [] f = "coded" -> "plain"
               [] OTHER       -> f

\* The marks and the bits below them are multiples of the lowest mark.
LEMMA MarkFacts ==
    \E p \in Nat :
        /\ p >= 2 /\ More = 8 * p
        /\ Mark["indexed"] = 8 * p /\ Mark["named"] = 4 * p /\ Mark["resize"] = 2 * p
        /\ Mark["never"] = p /\ Mark["unindexed"] = 0
        /\ Mark["coded"] = 8 * p /\ Mark["plain"] = 0
        /\ MaxVal("indexed") = 8 * p - 1 /\ MaxVal("named") = 4 * p - 1
        /\ MaxVal("resize") = 2 * p - 1
        /\ MaxVal("never") = p - 1 /\ MaxVal("unindexed") = p - 1
        /\ MaxVal("coded") = 8 * p - 1 /\ MaxVal("plain") = 8 * p - 1
<1> DEFINE g == GroupBits
           p == 2 ^ (g - 3)
<1>1. g \in Nat /\ g - 3 \in Nat /\ 1 <= g - 3
    BY OctetAssumption
<1> HIDE DEF g
<1>2. p \in Nat /\ p >= 2
  <2>1. 2 ^ (0 + 1) = 2 * 2 ^ 0
      BY PowerOfTwo
  <2>2. 2 ^ 1 <= 2 ^ (g - 3) /\ 2 ^ (g - 3) \in Nat
      BY <1>1, PowerMonotone, PowerOfTwo
  <2> QED  BY <2>1, <2>2, PowerZero
<1>3. 2 ^ (g - 2) = 2 * p /\ 2 ^ (g - 1) = 4 * p /\ 2 ^ g = 8 * p
  <2>1. /\ (g - 3) + 1 = g - 2 /\ (g - 2) + 1 = g - 1 /\ (g - 1) + 1 = g
        /\ g - 2 \in Nat /\ g - 1 \in Nat
      BY <1>1
  <2>2. 2 ^ ((g - 3) + 1) = 2 * 2 ^ (g - 3)
      BY <1>1, PowerOfTwo
  <2>3. 2 ^ ((g - 2) + 1) = 2 * 2 ^ (g - 2)
      BY <2>1, PowerOfTwo
  <2>4. 2 ^ ((g - 1) + 1) = 2 * 2 ^ (g - 1)
      BY <2>1, PowerOfTwo
  <2>5. 2 ^ (g - 2) = 2 * p
      BY <2>1, <2>2
  <2> HIDE DEF p
  <2> QED  BY <1>2, <2>1, <2>3, <2>4, <2>5
<1>4. {"indexed", "named", "resize", "unindexed", "never", "coded", "plain"} = DOMAIN Mark
    BY DEF Mark, Form
<1>5. /\ Mark["indexed"] = 2 ^ g /\ Mark["named"] = 2 ^ (g - 1) /\ Mark["resize"] = 2 ^ (g - 2)
      /\ Mark["never"] = 2 ^ (g - 3) /\ Mark["unindexed"] = 0
      /\ Mark["coded"] = 2 ^ g /\ Mark["plain"] = 0
    BY DEF Mark, Form, g
<1>6. /\ Prefix["indexed"] = g /\ Prefix["named"] = g - 1 /\ Prefix["resize"] = g - 2
      /\ Prefix["never"] = g - 3 /\ Prefix["unindexed"] = g - 3
      /\ Prefix["coded"] = g /\ Prefix["plain"] = g
    BY <1>4 DEF Prefix, g
<1>7. More = 2 ^ g
    BY DEF More, g
<1> QED  BY <1>2, <1>3, <1>5, <1>6, <1>7 DEF MaxVal

\* What the first octet says of the form, and of a value below the mark.
LEMMA FirstOctet ==
    ASSUME NEW f \in Form \cup {"coded", "plain"}
    PROVE  /\ MaxVal(f) \in Nat /\ MaxVal(f) >= 1 /\ MaxVal(f) < More
           /\ MaxVal(ReadAs(f)) = MaxVal(f)
           /\ \A x \in 0 .. MaxVal(f) :
                 /\ Mark[f] + x \in Octet
                 /\ (Mark[f] + x) % (MaxVal(f) + 1) = x
                 /\ f \in Form => Arm(Mark[f] + x) = ReadAs(f)
                 /\ f = "coded" => Mark[f] + x >= More
                 /\ f = "plain" => Mark[f] + x < More
<1>1. PICK p \in Nat :
        /\ p >= 2 /\ More = 8 * p
        /\ Mark["indexed"] = 8 * p /\ Mark["named"] = 4 * p /\ Mark["resize"] = 2 * p
        /\ Mark["never"] = p /\ Mark["unindexed"] = 0
        /\ Mark["coded"] = 8 * p /\ Mark["plain"] = 0
        /\ MaxVal("indexed") = 8 * p - 1 /\ MaxVal("named") = 4 * p - 1
        /\ MaxVal("resize") = 2 * p - 1
        /\ MaxVal("never") = p - 1 /\ MaxVal("unindexed") = p - 1
        /\ MaxVal("coded") = 8 * p - 1 /\ MaxVal("plain") = 8 * p - 1
    BY MarkFacts
<1>2. f \in {"indexed", "named", "resize", "unindexed", "never", "coded", "plain"}
    BY DEF Form
<1>3. MaxVal(f) \in Nat /\ MaxVal(f) >= 1 /\ MaxVal(f) < More
    BY <1>1, <1>2
<1>4. MaxVal(ReadAs(f)) = MaxVal(f)
    BY <1>1, <1>2 DEF ReadAs
<1>5. ASSUME NEW x \in 0 .. MaxVal(f)
      PROVE  /\ Mark[f] + x \in Octet
             /\ (Mark[f] + x) % (MaxVal(f) + 1) = x
             /\ f \in Form => Arm(Mark[f] + x) = ReadAs(f)
             /\ f = "coded" => Mark[f] + x >= More
             /\ f = "plain" => Mark[f] + x < More
  <2>1. x \in Nat /\ x <= MaxVal(f)
      BY <1>3
  <2>2. Mark[f] + x \in Octet
      BY <1>1, <1>2, <2>1 DEF Octet
  <2>3. (Mark[f] + x) % (MaxVal(f) + 1) = x
    <3> DEFINE u == MaxVal(f) + 1
    <3>1. u \in Nat \ {0} /\ x \in 0 .. u - 1
        BY <1>3
    <3>2. Mark[f] = u * 1 \/ Mark[f] = u * 0
        BY <1>1, <1>2
    <3> HIDE DEF u
    <3>3. (u * 1 + x) % u = x /\ (u * 0 + x) % u = x
        BY <3>1, ModUnique
    <3> QED  BY <3>2, <3>3 DEF u
  <2>4. ASSUME f \in Form  PROVE Arm(Mark[f] + x) = ReadAs(f)
    <3>1. CASE f = "indexed"
        BY <1>1, <2>1, <3>1 DEF Arm, ReadAs
    <3>2. CASE f = "named"
        BY <1>1, <2>1, <3>2 DEF Arm, ReadAs
    <3>3. CASE f = "resize"
        BY <1>1, <2>1, <3>3 DEF Arm, ReadAs
    <3>4. CASE f = "unindexed"
        BY <1>1, <2>1, <3>4 DEF Arm, ReadAs
    <3>5. CASE f = "never"
        BY <1>1, <2>1, <3>5 DEF Arm, ReadAs
    <3> QED  BY <2>4, <3>1, <3>2, <3>3, <3>4, <3>5 DEF Form
  <2>5. (f = "coded" => Mark[f] + x >= More) /\ (f = "plain" => Mark[f] + x < More)
      BY <1>1, <2>1
  <2> QED  BY <2>2, <2>3, <2>4, <2>5
<1> QED  BY <1>3, <1>4, <1>5

-----------------------------------------------------------------------------
(* What is written is read.                                                *)

\* os spells v in the form f: shortest, or with empty groups appended.
Spells(f, v, os) ==
    LET w == v - MaxVal(f)
        n == Len(os) - 1
    IN  /\ os \in Seq(Octet) /\ Len(os) >= 1
        /\ v < MaxVal(f) => os = << Mark[f] + v >>
        /\ v >= MaxVal(f) =>
              /\ n >= 1
              /\ w < Weight(n + 1)
              /\ os[1] = Mark[f] + MaxVal(f)
              /\ \A k \in 1 .. n :
                    os[k + 1] = ((w \div Weight(k)) % More) + IF k < n THEN More ELSE 0

\* A group of a value, marked or not, is an octet with that group.
LEMMA GroupType ==
    ASSUME NEW w \in Nat, NEW k \in Nat, k > 0, NEW more \in BOOLEAN
    PROVE  LET d == (w \div Weight(k)) % More
               o == d + IF more THEN More ELSE 0
           IN  d \in 0 .. More - 1 /\ o \in Octet /\ o % More = d /\ (o >= More <=> more)
<1> DEFINE q == w \div Weight(k)
           m == More
           d == q % m
           o == d + IF more THEN m ELSE 0
<1>1. m \in Nat \ {0} /\ Octet = 0 .. 2 * m - 1
    BY MoreType DEF Octet
<1>2. q \in Nat
    BY WeightStep, DivZero
<1> HIDE DEF q, m
<1>3. d \in 0 .. m - 1
    BY <1>1, <1>2, ModFacts
<1> HIDE DEF d
<1>4. o % m = d
  <2>1. (m * 1 + d) % m = d /\ (m * 0 + d) % m = d
      BY <1>1, <1>3, ModUnique
  <2>2. o = m * 1 + d \/ o = m * 0 + d
      BY <1>1, <1>3
  <2> HIDE DEF o
  <2> QED  BY <2>1, <2>2
<1>5. o \in Octet /\ (o >= m <=> more)
    BY <1>1, <1>3
<1> QED  BY <1>3, <1>4, <1>5 DEF d, q, m

\* put_int writes a spelling.
LEMMA IntOctetsSpell ==
    ASSUME NEW f \in Form \cup {"coded", "plain"}, NEW v \in UInt
    PROVE  Spells(f, v, IntOctets(f, v))
<1>1. MaxVal(f) \in Nat /\ MaxVal(f) >= 1 /\ v \in Nat
    BY FirstOctet, WidthType DEF UInt
<1>2. CASE v < MaxVal(f)
  <2>1. IntOctets(f, v) = << Mark[f] + v >>
      BY <1>2 DEF IntOctets
  <2>2. Mark[f] + v \in Octet
      BY <1>1, <1>2, FirstOctet
  <2> QED  BY <1>1, <1>2, <2>1, <2>2 DEF Spells
<1>3. CASE v >= MaxVal(f)
  <2> DEFINE w == v - MaxVal(f)
             n == GroupsOf(w)
             os == << Mark[f] + MaxVal(f) >> \o VintOctets(w)
  <2>1. w \in UInt /\ w \in Nat
      BY <1>1, <1>3, WidthType DEF UInt
  <2>2. n \in Nat /\ n >= 1 /\ w < Weight(n + 1)
    <3> HIDE DEF w
    <3> QED  BY <2>1, GroupsOfIs, WidthType
  <2> HIDE DEF n
  <2>3. /\ VintOctets(w) \in Seq(Octet) /\ Len(VintOctets(w)) = n
        /\ \A k \in 1 .. n :
              VintOctets(w)[k] = ((w \div Weight(k)) % More) + IF k < n THEN More ELSE 0
    <3> DEFINE x == w
    <3>1. x \in Nat
        BY <2>1
    <3> HIDE DEF x
    <3>2. VintOctets(x)
            = [k \in 1 .. GroupsOf(x) |-> ((x \div Weight(k)) % More) + IF k < GroupsOf(x) THEN More ELSE 0]
        BY DEF VintOctets
    <3>3. GroupsOf(x) = n
        BY DEF n, x
    <3>4. \A k \in 1 .. n : ((x \div Weight(k)) % More) + (IF k < n THEN More ELSE 0) \in Octet
      <4>1. ASSUME NEW k \in 1 .. n
            PROVE  ((x \div Weight(k)) % More) + (IF k < n THEN More ELSE 0) \in Octet
        <5>1. k \in Nat /\ k > 0 /\ (k < n) \in BOOLEAN
            BY <2>2
        <5> QED  BY <3>1, <5>1, GroupType
      <4> QED  BY <4>1
    <3>5. VintOctets(x) \in [1 .. n -> Octet]
        BY <3>2, <3>3, <3>4
    <3>6. VintOctets(x) \in Seq(Octet) /\ Len(VintOctets(x)) = n
        BY <2>2, <3>5, IsASeq
    <3>7. \A k \in 1 .. n :
            VintOctets(x)[k] = ((x \div Weight(k)) % More) + IF k < n THEN More ELSE 0
        BY <3>2, <3>3
    <3> QED  BY <3>6, <3>7 DEF x
  <2>4. Mark[f] + MaxVal(f) \in Octet
      BY <1>1, FirstOctet
  <2>5. IntOctets(f, v) = os
      BY <1>1, <1>3 DEF IntOctets
  <2> DEFINE m == Mark[f] + MaxVal(f)
             t == VintOctets(w)
  <2>6. /\ os \in Seq(Octet) /\ Len(os) = n + 1 /\ os[1] = m
        /\ \A k \in 1 .. n : os[k + 1] = t[k]
    <3>1. os = << m >> \o t /\ m \in Octet /\ t \in Seq(Octet) /\ Len(t) = n
        BY <2>3, <2>4
    <3> HIDE DEF m, t, os
    <3> QED  BY <2>2, <3>1
  <2> HIDE DEF os, t, m
  <2>7. \A k \in 1 .. n : os[k + 1] = ((w \div Weight(k)) % More) + IF k < n THEN More ELSE 0
      BY <2>3, <2>6 DEF t
  <2>8. Spells(f, v, os)
    <3>1. ~ (v < MaxVal(f)) /\ Len(os) - 1 = n /\ Len(os) >= 1
        BY <1>1, <1>3, <2>2, <2>6
    <3>2. os[1] = Mark[f] + MaxVal(f) /\ os \in Seq(Octet)
        BY <2>6 DEF m
    <3> QED  BY <2>2, <2>7, <3>1, <3>2 DEF Spells
  <2> QED  BY <2>5, <2>8
<1> QED  BY <1>1, <1>2, <1>3

\* put_int writes the only spelling whose last group is needed.
LEMMA ShortestSpelling ==
    ASSUME NEW f \in Form \cup {"coded", "plain"}, NEW v \in UInt, NEW os, Spells(f, v, os),
           v >= MaxVal(f) /\ Len(os) > 2 => v - MaxVal(f) >= Weight(Len(os) - 1)
    PROVE  os = IntOctets(f, v)
<1>1. MaxVal(f) \in Nat /\ v \in Nat
    BY FirstOctet, WidthType DEF UInt
<1>2. CASE v < MaxVal(f)
    BY <1>2 DEF Spells, IntOctets
<1>3. CASE v >= MaxVal(f)
  <2> DEFINE w == v - MaxVal(f)
             n == Len(os) - 1
             g == GroupsOf(w)
             t == VintOctets(w)
             m == Mark[f] + MaxVal(f)
  <2>1. w \in UInt /\ w \in Nat
      BY <1>1, <1>3, WidthType DEF UInt
  <2>2. /\ os \in Seq(Octet) /\ n \in Nat /\ n >= 1 /\ w < Weight(n + 1) /\ os[1] = m
        /\ \A k \in 1 .. n : os[k + 1] = ((w \div Weight(k)) % More) + IF k < n THEN More ELSE 0
      BY <1>1, <1>3 DEF Spells
  <2>3. n > 1 => w >= Weight(n)
      BY <1>3, <2>2
  <2>4. IntOctets(f, v) = << m >> \o t
      BY <1>1, <1>3 DEF IntOctets
  <2>5. t = [k \in 1 .. g |-> ((w \div Weight(k)) % More) + IF k < g THEN More ELSE 0]
      BY DEF VintOctets
  <2> HIDE DEF w, n, m, t
  <2>6. g \in Nat /\ g >= 1 /\ w < Weight(g + 1) /\ (g > 1 => w >= Weight(g))
    <3>1. g \in 1 .. MaxGroups
        BY <2>1, GroupsOfIs
    <3> QED  BY <2>1, <3>1, GroupsOfIs, WidthType
  <2> HIDE DEF g
  <2>7. g = n
    <3>1. CASE g < n
      <4>1. g + 1 <= n /\ g + 1 \in Nat \ {0} /\ n \in Nat \ {0} /\ n > 1
          BY <2>2, <2>6, <3>1
      <4>2. Weight(g + 1) <= Weight(n)
          BY <4>1, WeightMonotone
      <4>3. Weight(g + 1) \in Nat /\ Weight(n) \in Nat
          BY <4>1, WeightType
      <4> QED  BY <2>1, <2>3, <2>6, <4>1, <4>2, <4>3
    <3>2. CASE g > n
      <4>1. n + 1 <= g /\ n + 1 \in Nat \ {0} /\ g \in Nat \ {0} /\ g > 1
          BY <2>2, <2>6, <3>2
      <4>2. Weight(n + 1) <= Weight(g)
          BY <4>1, WeightMonotone
      <4>3. Weight(n + 1) \in Nat /\ Weight(g) \in Nat
          BY <4>1, WeightType
      <4> QED  BY <2>1, <2>2, <2>6, <4>1, <4>2, <4>3
    <3> QED  BY <2>2, <2>6, <3>1, <3>2
  <2>8. /\ Len(<< m >> \o t) = n + 1 /\ (<< m >> \o t)[1] = m
        /\ \A k \in 1 .. n : (<< m >> \o t)[k + 1] = t[k]
    <3>1. t \in Seq({t[k] : k \in 1 .. n}) /\ Len(t) = n
      <4> DEFINE S == {t[k] : k \in 1 .. n}
      <4>1. t = [k \in 1 .. n |-> t[k]]
          BY <2>5, <2>7
      <4>2. \A k \in 1 .. n : t[k] \in S
          OBVIOUS
      <4> HIDE DEF S
      <4> QED  BY <2>2, <4>1, <4>2, IsASeq
    <3> QED  BY <2>2, <3>1
  <2>9. \A k \in 1 .. n : t[k] = ((w \div Weight(k)) % More) + IF k < n THEN More ELSE 0
      BY <2>5, <2>7
  <2>10. os = << m >> \o t
    <3> DEFINE u == << m >> \o t
    <3>1. u \in Seq(Octet)
      <4>1. IntOctets(f, v) \in Seq(Octet)
          BY IntOctetsSpell DEF Spells
      <4> QED  BY <2>4, <4>1
    <3>2. Len(u) = n + 1 /\ u[1] = m /\ \A k \in 1 .. n : u[k + 1] = os[k + 1]
        BY <2>2, <2>8, <2>9
    <3> HIDE DEF u
    <3>3. Len(os) = n + 1
        BY <2>2 DEF n
    <3>4. ASSUME NEW i \in 1 .. n + 1  PROVE os[i] = u[i]
      <4>1. CASE i = 1
          BY <2>2, <3>2, <4>1
      <4>2. CASE i # 1
        <5>1. i - 1 \in 1 .. n /\ (i - 1) + 1 = i
            BY <2>2, <4>2
        <5> QED  BY <3>2, <5>1
      <4> QED  BY <4>1, <4>2
    <3> QED  BY <2>2, <3>1, <3>2, <3>3, <3>4 DEF u
  <2> QED  BY <2>4, <2>10
<1> QED  BY <1>1, <1>2, <1>3

\* get_int takes the groups up to the first that is not marked, or all of them.
LEMMA ReadGroups ==
    ASSUME NEW f \in Form \cup {"coded", "plain"}, NEW os \in Seq(Octet), NEW w \in Nat,
           NEW n \in Nat,
           os # << >>, os[1] % (MaxVal(f) + 1) = MaxVal(f),
           n <= Len(os) - 1,
           \A k \in 1 .. n : os[k + 1] % More = (w \div Weight(k)) % More,
           \A k \in 1 .. n - 1 : os[k + 1] >= More,
           n = Len(os) - 1 \/ (n > 0 /\ os[n + 1] < More)
    PROVE  /\ ReadInt(f, os).val = (MaxVal(f) + (w % Weight(n + 1))) % 2 ^ UIntBits
           /\ ReadInt(f, os).rest = SubSeq(Tail(os), n + 1, Len(os) - 1)
<1> DEFINE more == Tail(os)
           T == {k \in DOMAIN more : more[k] < More} \cup {Len(more)}
<1>1. /\ more \in Seq(Octet) /\ Len(more) = Len(os) - 1
      /\ \A k \in 1 .. Len(more) : more[k] = os[k + 1]
      /\ Head(os) = os[1]
    OBVIOUS
<1> HIDE DEF more
<1>2. Min(T) = n
  <2>1. n \in T
    <3>1. CASE n = Len(os) - 1
        BY <1>1, <3>1
    <3>2. CASE n > 0 /\ os[n + 1] < More
      <4>1. n \in 1 .. Len(more) /\ 1 .. Len(more) = DOMAIN more
          BY <1>1, <3>2
      <4> QED  BY <1>1, <3>2, <4>1
    <3> QED  BY <3>1, <3>2
  <2>2. ASSUME NEW k \in T  PROVE n <= k
    <3>1. CASE k = Len(more)
        BY <1>1, <3>1
    <3>2. CASE k \in DOMAIN more /\ more[k] < More
      <4>1. k \in 1 .. Len(more) /\ os[k + 1] < More
          BY <1>1, <3>2
      <4>2. os[k + 1] \in Octet
          BY <1>1, <4>1
      <4>3. ~ (os[k + 1] >= More)
        <5> DEFINE o == os[k + 1]
        <5>1. o \in Nat /\ o < More /\ More \in Nat
          <6>1. o \in Octet /\ o < More
              BY <4>1, <4>2
          <6> HIDE DEF o
          <6> QED  BY <6>1, OctetType, MoreType
        <5> HIDE DEF o
        <5>2. ~ (o >= More)
            BY <5>1
        <5> QED  BY <5>2 DEF o
      <4>4. k \notin 1 .. n - 1
          BY <4>3
      <4> QED  BY <4>1, <4>4
    <3> QED  BY <3>1, <3>2
  <2>3. T \subseteq Nat
      BY <1>1
  <2> HIDE DEF T
  <2>4. \A x \in T : (\A y \in T : x <= y) => x = n
      BY <2>1, <2>2, <2>3
  <2> QED  BY <2>1, <2>2, <2>4 DEF Min
<1>3. GroupSum(more)[n] = w % Weight(n + 1)
  <2>1. \A k \in 1 .. n : more[k] % More = (w \div Weight(k)) % More
      BY <1>1
  <2>2. n \in 0 .. Len(more)
      BY <1>1
  <2> QED  BY <1>1, <2>1, <2>2, GroupSumOf
<1>4. ReadInt(f, os) = [val  |-> (MaxVal(f) + GroupSum(more)[n]) % 2 ^ UIntBits,
                        rest |-> SubSeq(more, n + 1, Len(more))]
  <2>1. ~ (Head(os) % (MaxVal(f) + 1) < MaxVal(f))
      BY <1>1, FirstOctet
  <2> QED  BY <1>2, <2>1 DEF ReadInt, more
<1>5. /\ ReadInt(f, os).val = (MaxVal(f) + (w % Weight(n + 1))) % 2 ^ UIntBits
      /\ ReadInt(f, os).rest = SubSeq(more, n + 1, Len(more))
  <2>1. /\ ReadInt(f, os).val = (MaxVal(f) + GroupSum(more)[n]) % 2 ^ UIntBits
        /\ ReadInt(f, os).rest = SubSeq(more, n + 1, Len(more))
      BY <1>4
  <2> QED  BY <1>3, <2>1, Zenon
<1>6. SubSeq(more, n + 1, Len(more)) = SubSeq(Tail(os), n + 1, Len(os) - 1)
    BY <1>1, Zenon DEF more
<1> QED  BY <1>5, <1>6

\* The first octet of a spelling names the form, and the value if it is small.
LEMMA SpelledHead ==
    ASSUME NEW f \in Form \cup {"coded", "plain"}, NEW v \in UInt, NEW os, Spells(f, v, os)
    PROVE  /\ os \in Seq(Octet) /\ os # << >> /\ os[1] \in Octet
           /\ f \in Form => Arm(os[1]) = ReadAs(f)
           /\ f = "coded" => os[1] >= More
           /\ f = "plain" => os[1] < More
           /\ os[1] % (MaxVal(f) + 1) = IF v < MaxVal(f) THEN v ELSE MaxVal(f)
<1>1. v \in Nat /\ MaxVal(f) \in Nat
    BY FirstOctet, WidthType DEF UInt
<1> DEFINE x == IF v < MaxVal(f) THEN v ELSE MaxVal(f)
<1>2. x \in 0 .. MaxVal(f)
    BY <1>1
<1>3. os \in Seq(Octet) /\ os # << >> /\ os[1] = Mark[f] + x
    BY <1>1 DEF Spells
<1> HIDE DEF x
<1>4. /\ Mark[f] + x \in Octet
      /\ (Mark[f] + x) % (MaxVal(f) + 1) = x
      /\ f \in Form => Arm(Mark[f] + x) = ReadAs(f)
      /\ f = "coded" => Mark[f] + x >= More
      /\ f = "plain" => Mark[f] + x < More
    BY <1>2, FirstOctet
<1> QED  BY <1>3, <1>4 DEF x

\* The groups of a spelling, and what follows the first octet.
LEMMA SpelledGroups ==
    ASSUME NEW f \in Form \cup {"coded", "plain"}, NEW v \in UInt, NEW os, Spells(f, v, os),
           v >= MaxVal(f)
    PROVE  LET w == v - MaxVal(f)
               n == Len(os) - 1
           IN  /\ w \in Nat /\ n \in Nat /\ n >= 1 /\ w < Weight(n + 1)
               /\ \A k \in 1 .. n :
                     /\ os[k + 1] \in Octet
                     /\ os[k + 1] % More = (w \div Weight(k)) % More
                     /\ os[k + 1] >= More <=> k < n
<1> DEFINE w == v - MaxVal(f)
           n == Len(os) - 1
<1>1. v \in Nat /\ MaxVal(f) \in Nat /\ w \in Nat
    BY FirstOctet, WidthType DEF UInt
<1>2. /\ os \in Seq(Octet) /\ n \in Nat /\ n >= 1 /\ w < Weight(n + 1)
      /\ \A k \in 1 .. n :
            os[k + 1] = ((w \div Weight(k)) % More) + IF k < n THEN More ELSE 0
    BY <1>1 DEF Spells
<1> HIDE DEF w, n
<1>3. ASSUME NEW k \in 1 .. n
      PROVE  /\ os[k + 1] \in Octet
             /\ os[k + 1] % More = (w \div Weight(k)) % More
             /\ os[k + 1] >= More <=> k < n
  <2> DEFINE d == (w \div Weight(k)) % More
             o == d + IF k < n THEN More ELSE 0
  <2>1. k \in Nat /\ k > 0 /\ (k < n) \in BOOLEAN
      BY <1>2
  <2>2. o \in Octet /\ o % More = d /\ (o >= More <=> k < n)
      BY <1>1, <2>1, GroupType
  <2>3. os[k + 1] = o
      BY <1>2
  <2> HIDE DEF o
  <2> QED  BY <2>2, <2>3
<1> QED  BY <1>1, <1>2, <1>3 DEF w, n

\* get_int reads back what is spelled, whatever follows it, with the mask of
\* the arm that the form leads to.
LEMMA ReadSpelled ==
    ASSUME NEW f \in Form \cup {"coded", "plain"}, NEW v \in UInt, NEW os, Spells(f, v, os),
           NEW tail \in Seq(Octet)
    PROVE  ReadInt(ReadAs(f), os \o tail) = [val |-> v, rest |-> tail]
<1> DEFINE all == os \o tail
           g == ReadAs(f)
<1>1. /\ v \in Nat /\ MaxVal(f) \in Nat /\ MaxVal(g) = MaxVal(f)
      /\ g \in Form \cup {"coded", "plain"}
    BY FirstOctet, WidthType DEF UInt, ReadAs, Form
<1>2. /\ os \in Seq(Octet) /\ os # << >>
      /\ os[1] % (MaxVal(f) + 1) = IF v < MaxVal(f) THEN v ELSE MaxVal(f)
    BY SpelledHead
<1>3. /\ all \in Seq(Octet) /\ all # << >> /\ Len(all) = Len(os) + Len(tail)
      /\ \A k \in 1 .. Len(os) : all[k] = os[k]
      /\ \A k \in 1 .. Len(tail) : all[Len(os) + k] = tail[k]
    BY <1>2
<1> HIDE DEF all, g
<1>4. CASE v < MaxVal(f)
  <2>1. Len(os) = 1
      BY <1>4 DEF Spells
  <2>2. Tail(all) = tail /\ Head(all) = os[1]
    <3>1. Tail(all) \in Seq(Octet) /\ Len(Tail(all)) = Len(tail)
          /\ \A k \in 1 .. Len(tail) : Tail(all)[k] = tail[k]
        BY <1>3, <2>1
    <3>2. Head(all) = os[1]
        BY <1>3, <2>1
    <3> QED  BY <3>1, <3>2
  <2>3. Head(all) % (MaxVal(g) + 1) = v
      BY <1>1, <1>2, <1>4, <2>2
  <2> QED  BY <1>1, <1>4, <2>2, <2>3 DEF ReadInt, all, g
<1>5. CASE v >= MaxVal(f)
  <2> DEFINE w == v - MaxVal(f)
             n == Len(os) - 1
  <2>1. /\ w \in Nat /\ n \in Nat /\ n >= 1 /\ w < Weight(n + 1)
        /\ \A k \in 1 .. n :
              /\ os[k + 1] \in Octet
              /\ os[k + 1] % More = (w \div Weight(k)) % More
              /\ os[k + 1] >= More <=> k < n
      BY <1>5, SpelledGroups
  <2>2. \A k \in 1 .. n : all[k + 1] = os[k + 1]
      BY <1>3, <2>1
  <2>3. all[1] % (MaxVal(g) + 1) = MaxVal(g)
      BY <1>1, <1>2, <1>3, <1>5, SMTT(30)
  <2>4. /\ n <= Len(all) - 1
        /\ \A k \in 1 .. n : all[k + 1] % More = (w \div Weight(k)) % More
        /\ \A k \in 1 .. n - 1 : all[k + 1] >= More
        /\ n > 0 /\ all[n + 1] < More
    <3>1. n \in 1 .. n /\ ~ (n < n)
        BY <2>1
    <3>2. all[n + 1] \in Octet /\ ~ (all[n + 1] >= More)
        BY <2>1, <2>2, <3>1
    <3>3. all[n + 1] < More
        BY <3>2, OctetType, MoreType
    <3>4. n <= Len(all) - 1
        BY <1>2, <1>3
    <3> HIDE DEF n, w
    <3>5. \A k \in 1 .. n - 1 : k \in 1 .. n /\ k < n
        BY <2>1
    <3>6. \A k \in 1 .. n - 1 : all[k + 1] >= More
      <4> SUFFICES ASSUME NEW k \in 1 .. n - 1  PROVE all[k + 1] >= More
          OBVIOUS
      <4>1. os[k + 1] >= More /\ all[k + 1] = os[k + 1]
          BY <2>1, <2>2, <3>5
      <4> QED  BY <4>1, Zenon
    <3>7. \A k \in 1 .. n : all[k + 1] % More = (w \div Weight(k)) % More
      <4> SUFFICES ASSUME NEW k \in 1 .. n  PROVE all[k + 1] % More = (w \div Weight(k)) % More
          OBVIOUS
      <4>1. os[k + 1] % More = (w \div Weight(k)) % More /\ all[k + 1] = os[k + 1]
          BY <2>1, <2>2
      <4> QED  BY <4>1, Zenon
    <3>8. n > 0
        BY <2>1
    <3> QED  BY <3>3, <3>4, <3>6, <3>7, <3>8, Zenon
  <2> HIDE DEF n, w
  <2>5. /\ ReadInt(g, all).val = (MaxVal(g) + (w % Weight(n + 1))) % 2 ^ UIntBits
        /\ ReadInt(g, all).rest = SubSeq(Tail(all), n + 1, Len(all) - 1)
      BY <1>1, <1>3, <2>1, <2>3, <2>4, ReadGroups, ZenonT(60)
  <2>6. (MaxVal(g) + (w % Weight(n + 1))) % 2 ^ UIntBits = v
    <3>1. w % Weight(n + 1) = w
      <4> DEFINE u == Weight(n + 1)
      <4>1. u \in Nat \ {0}
          BY <2>1, WeightStep
      <4>2. w < u /\ w \in Nat
          BY <2>1
      <4> HIDE DEF u, w
      <4>3. w \in 0 .. u - 1
          BY <4>1, <4>2
      <4> QED  BY <4>1, <4>3, ModSmall DEF u
    <3>2. MaxVal(g) + w = v
        BY <1>1 DEF w
    <3>3. v % 2 ^ UIntBits = v
      <4> DEFINE u == 2 ^ UIntBits
      <4>1. u \in Nat \ {0} /\ v \in 0 .. u - 1
          BY WidthType, MoreType DEF UInt
      <4> HIDE DEF u
      <4>2. v % u = v
          BY <4>1, ModSmall
      <4> QED  BY <4>2 DEF u
    <3> QED  BY <3>1, <3>2, <3>3
  <2>7. SubSeq(Tail(all), n + 1, Len(all) - 1) = tail
    <3> DEFINE t == SubSeq(Tail(all), n + 1, Len(all) - 1)
    <3>1. /\ Tail(all) \in Seq(Octet) /\ Len(Tail(all)) = Len(all) - 1
          /\ \A k \in 1 .. Len(all) - 1 : Tail(all)[k] = all[k + 1]
        BY <1>3
    <3>2. n + 1 = Len(os) /\ Len(all) - 1 = n + Len(tail) /\ Len(tail) \in Nat
        BY <1>2, <1>3 DEF n
    <3>3. t \in Seq(Octet) /\ Len(t) = Len(tail)
      <4> DEFINE b == Tail(all)
                 hi == Len(all) - 1
      <4>1. b \in Seq(Octet) /\ n + 1 \in 1 .. Len(b) + 1 /\ hi \in n .. Len(b)
          BY <2>1, <3>1, <3>2
      <4>2. hi = n + Len(tail) /\ Len(tail) \in Nat
          BY <3>2
      <4> HIDE DEF b, hi
      <4>3. SubSeq(b, n + 1, hi) \in Seq(Octet) /\ Len(SubSeq(b, n + 1, hi)) = hi - n
        <5>1. SubSeq(b, n + 1, hi) \in Seq(Octet)
            BY <2>1, <4>1
        <5>2. Len(SubSeq(b, n + 1, hi)) = IF n + 1 <= hi THEN hi - (n + 1) + 1 ELSE 0
            BY <2>1, <4>1, SubSeqProperties
        <5> QED  BY <2>1, <4>1, <5>1, <5>2
      <4> QED  BY <2>1, <4>2, <4>3 DEF b, hi
    <3>4. ASSUME NEW k \in 1 .. Len(tail)  PROVE t[k] = tail[k]
      <4>1. t[k] = Tail(all)[n + k]
          BY <2>1, <3>1, <3>2, SMTT(30)
      <4>2. n + k \in 1 .. Len(all) - 1
          BY <2>1, <3>2
      <4>3. t[k] = all[n + k + 1] /\ n + k + 1 = Len(os) + k
          BY <2>1, <3>1, <3>2, <4>1, <4>2
      <4> QED  BY <1>3, <4>3
    <3> HIDE DEF t
    <3>5. t = tail
        BY <3>3, <3>4
    <3> QED  BY <3>5 DEF t
  <2>8. ReadInt(g, all) = [val |-> v, rest |-> tail]
    <3>1. ~ (Head(all) % (MaxVal(g) + 1) < MaxVal(g))
      <4>1. Head(all) = all[1]
          BY <1>3
      <4> QED  BY <1>1, <2>3, <4>1
    <3>2. \E a, b : ReadInt(g, all) = [val |-> a, rest |-> b]
        BY <3>1 DEF ReadInt
    <3> QED  BY <2>5, <2>6, <2>7, <3>2
  <2> QED  BY <2>8 DEF all, g
<1> QED  BY <1>1, <1>4, <1>5

\* Cut short, it is read as a value that is not larger, and nothing is left.
LEMMA ReadCut ==
    ASSUME NEW f \in Form \cup {"coded", "plain"}, NEW v \in UInt, NEW os, Spells(f, v, os),
           NEW m \in 1 .. Len(os) - 1
    PROVE  LET r == ReadInt(ReadAs(f), SubSeq(os, 1, m))
           IN  r.val \in MaxVal(f) .. v /\ r.rest = << >>
<1> DEFINE all == SubSeq(os, 1, m)
           g == ReadAs(f)
           w == v - MaxVal(f)
           n == m - 1
<1>1. /\ v \in Nat /\ MaxVal(f) \in Nat /\ MaxVal(g) = MaxVal(f)
      /\ g \in Form \cup {"coded", "plain"}
    BY FirstOctet, WidthType DEF UInt, ReadAs, Form
<1>2. v >= MaxVal(f)
  <2>1. v < MaxVal(f) => Len(os) = 1
      BY DEF Spells
  <2>2. Len(os) # 1
    <3>1. os \in Seq(Octet)
        BY DEF Spells
    <3> DEFINE l == Len(os)
    <3>2. l \in Nat
        BY <3>1
    <3>3. m \in 1 .. l - 1
        OBVIOUS
    <3> HIDE DEF l
    <3>4. l # 1
        BY <3>2, <3>3
    <3> QED  BY <3>4 DEF l
  <2> QED  BY <1>1, <2>1, <2>2
<1>3. /\ os \in Seq(Octet) /\ os # << >> /\ os[1] % (MaxVal(f) + 1) = MaxVal(f)
    BY <1>1, <1>2, SpelledHead
<1>4. /\ w \in Nat /\ w < Weight((Len(os) - 1) + 1)
      /\ \A k \in 1 .. Len(os) - 1 :
            /\ os[k + 1] \in Octet
            /\ os[k + 1] % More = (w \div Weight(k)) % More
            /\ os[k + 1] >= More <=> k < Len(os) - 1
    BY <1>2, SpelledGroups
<1>5. /\ all \in Seq(Octet) /\ Len(all) = m /\ all # << >>
      /\ \A k \in 1 .. m : all[k] = os[k]
    BY <1>3
<1> HIDE DEF all, g, w
<1>6. n \in Nat /\ n = Len(all) - 1
    BY <1>5
<1>7. /\ \A k \in 1 .. n : all[k + 1] % More = (w \div Weight(k)) % More
      /\ \A k \in 1 .. n - 1 : all[k + 1] >= More
      /\ all[1] % (MaxVal(g) + 1) = MaxVal(g)
  <2>1. \A k \in 1 .. n : k \in 1 .. Len(os) - 1 /\ k < Len(os) - 1 /\ k + 1 \in 1 .. m
      BY <1>3
  <2> HIDE DEF n
  <2>2. \A k \in 1 .. n : all[k + 1] % More = (w \div Weight(k)) % More
    <3> SUFFICES ASSUME NEW k \in 1 .. n  PROVE all[k + 1] % More = (w \div Weight(k)) % More
        OBVIOUS
    <3>1. os[k + 1] % More = (w \div Weight(k)) % More /\ all[k + 1] = os[k + 1]
        BY <1>4, <1>5, <2>1
    <3> QED  BY <3>1, Zenon
  <2>3. \A k \in 1 .. n - 1 : all[k + 1] >= More
    <3> SUFFICES ASSUME NEW k \in 1 .. n - 1  PROVE all[k + 1] >= More
        OBVIOUS
    <3>1. k \in 1 .. n
        BY <1>6
    <3>2. os[k + 1] >= More /\ all[k + 1] = os[k + 1]
        BY <1>4, <1>5, <2>1, <3>1
    <3> QED  BY <3>2, Zenon
  <2>4. all[1] % (MaxVal(g) + 1) = MaxVal(g)
    <3>1. all[1] = os[1]
        BY <1>5
    <3> QED  BY <1>1, <1>3, <3>1
  <2> QED  BY <2>2, <2>3, <2>4
<1>8. /\ ReadInt(g, all).val = (MaxVal(g) + (w % Weight(n + 1))) % 2 ^ UIntBits
      /\ ReadInt(g, all).rest = SubSeq(Tail(all), n + 1, Len(all) - 1)
  <2> HIDE DEF n
  <2>1. n <= Len(all) - 1 /\ n = Len(all) - 1
      BY <1>6
  <2>2. g \in Form \cup {"coded", "plain"} /\ w \in Nat
      BY <1>1, <1>4
  <2> QED  BY <1>5, <1>6, <1>7, <2>1, <2>2, ReadGroups
<1>9. ReadInt(g, all).rest = << >>
  <2>1. Tail(all) \in Seq(Octet) /\ n + 1 > Len(all) - 1
      BY <1>5, <1>6
  <2> QED  BY <1>6, <1>8, <2>1
<1>10. (MaxVal(g) + (w % Weight(n + 1))) % 2 ^ UIntBits \in MaxVal(f) .. v
  <2> DEFINE u == Weight(n + 1)
             x == w % u
             s == 2 ^ UIntBits
             z == MaxVal(g)
  <2>1. u \in Nat \ {0}
      BY <1>6, WeightStep
  <2> HIDE DEF u
  <2>2. x \in Nat /\ x <= w
    <3>1. x \in 0 .. u - 1 /\ w \div u \in Nat /\ w = u * (w \div u) + x
      <4>1. w \in Int
          BY <1>4
      <4> QED  BY <1>4, <2>1, <4>1, ModFacts, DivZero
    <3> DEFINE q == w \div u
    <3>2. q \in Nat /\ u * q \in Nat
      <4>1. q \in Nat
          BY <3>1
      <4> HIDE DEF q
      <4> QED  BY <2>1, <4>1
    <3> HIDE DEF q, x
    <3> QED  BY <3>1, <3>2 DEF q
  <2>3. s \in Nat \ {0} /\ v \in 0 .. s - 1
      BY WidthType, MoreType DEF UInt
  <2>4. z \in Nat /\ z + w = v /\ z = MaxVal(f)
      BY <1>1 DEF w
  <2> HIDE DEF x, s, z
  <2>5. z + x \in 0 .. s - 1 /\ z + x \in z .. v
      BY <1>4, <2>2, <2>3, <2>4
  <2>6. (z + x) % s = z + x
    <3> DEFINE y == z + x
    <3>1. y \in 0 .. s - 1
        BY <2>5
    <3> HIDE DEF y
    <3>2. y % s = y
        BY <2>3, <3>1, ModSmall
    <3> QED  BY <3>2 DEF y
  <2> QED  BY <2>4, <2>5, <2>6 DEF x, s, z, u
<1> QED  BY <1>1, <1>8, <1>9, <1>10 DEF all, g
=============================================================================
