--------------------------- MODULE Frames_proofs ---------------------------
(***************************************************************************)
(* Theorems about h2unpack on a connection.  The peer's header blocks are  *)
(* the octets of runs of its instructions; read_frame() feeds one of them  *)
(* at a time, and a turn of unpack() on it does what Wire_proofs has a     *)
(* turn do.  So between two frames h2unpack stands where a block of the    *)
(* peer ends, with the table that the peer had there.                      *)
(*                                                                         *)
(* Wire_proofs is extended for its lemmas about instructions and turns,    *)
(* which hold of any use of Wire.                                          *)
(***************************************************************************)
EXTENDS Frames, Wire_proofs

-----------------------------------------------------------------------------
(* Runs of sequences, one behind the other.                                *)

\* The elements of g behind the first i, up to j, flattened.
Flat(g, i, j) == FlattenSeq([n \in 1 .. j - i |-> g[i + n]])

\* What the pieces i + 1 to j make is a sequence like them, and no pieces make none.
LEMMA FlatType ==
    ASSUME NEW S, NEW g \in Seq(Seq(S)), NEW i \in Nat, NEW j \in i .. Len(g)
    PROVE  /\ Flat(g, i, j) \in Seq(S)
           /\ i = j => Flat(g, i, j) = << >>
<1> DEFINE s == [n \in 1 .. j - i |-> g[i + n]]
<1>1. j - i \in Nat /\ \A n \in 1 .. j - i : i + n \in 1 .. Len(g)
    OBVIOUS
<1>2. \A n \in 1 .. j - i : g[i + n] \in Seq(S)
    BY <1>1
<1>3. s \in Seq(Seq(S)) /\ Len(s) = j - i
    BY <1>1, <1>2
<1>4. i = j => s = << >>
  <2> HIDE DEF s
  <2> QED  BY <1>3, EmptySeq
<1> HIDE DEF s
<1>5. FlattenSeq(s) \in Seq(S) /\ (s = << >> => FlattenSeq(s) = << >>)
    BY <1>3, FlattenType
<1> QED  BY <1>4, <1>5 DEF Flat, s

\* The first piece can be taken off the front.
LEMMA FlatFirst ==
    ASSUME NEW S, NEW g \in Seq(Seq(S)), NEW i \in Nat, NEW j \in i + 1 .. Len(g)
    PROVE  g[i + 1] \in Seq(S) /\ Flat(g, i, j) = g[i + 1] \o Flat(g, i + 1, j)
<1> DEFINE s == [n \in 1 .. j - i |-> g[i + n]]
           t == [n \in 1 .. j - (i + 1) |-> g[i + 1 + n]]
<1>1. /\ j - i \in Nat /\ j - (i + 1) \in Nat /\ j - i = 1 + (j - (i + 1))
      /\ i + 1 \in 1 .. Len(g) /\ \A n \in 1 .. j - (i + 1) : i + 1 + n \in 1 .. Len(g)
    OBVIOUS
<1>2. g[i + 1] \in Seq(S) /\ \A n \in 1 .. j - (i + 1) : g[i + 1 + n] \in Seq(S)
    BY <1>1
<1>3. t \in Seq(Seq(S)) /\ Len(t) = j - (i + 1)
    BY <1>1, <1>2
<1>4. s = << g[i + 1] >> \o t
  <2> DEFINE u == << g[i + 1] >> \o t
  <2>1. /\ \A n \in 1 .. j - i : s[n] = g[i + n]
        /\ \A n \in 1 .. j - (i + 1) : t[n] = g[i + 1 + n]
      OBVIOUS
  <2>2. s \in Seq(Seq(S)) /\ Len(s) = j - i
    <3>1. \A n \in 1 .. j - i : i + n \in 1 .. Len(g)
        OBVIOUS
    <3>2. \A n \in 1 .. j - i : g[i + n] \in Seq(S)
        BY <3>1
    <3> QED  BY <1>1, <3>2
  <2> HIDE DEF t, s
  <2>3. /\ u \in Seq(Seq(S)) /\ Len(u) = 1 + (j - (i + 1))
        /\ \A n \in 1 .. 1 + (j - (i + 1)) : u[n] = IF n = 1 THEN g[i + 1] ELSE t[n - 1]
      BY <1>1, <1>2, <1>3
  <2> HIDE DEF u
  <2>4. ASSUME NEW n \in 1 .. j - i  PROVE s[n] = u[n]
    <3>1. CASE n = 1
        BY <1>1, <2>1, <2>3, <3>1
    <3>2. CASE n # 1
      <4>1. n - 1 \in 1 .. j - (i + 1) /\ i + 1 + (n - 1) = i + n /\ n \in 1 .. 1 + (j - (i + 1))
          BY <1>1, <3>2
      <4>2. t[n - 1] = g[i + 1 + (n - 1)] /\ g[i + 1 + (n - 1)] = g[i + n]
          BY <2>1, <4>1
      <4>3. u[n] = t[n - 1]
          BY <2>3, <3>2, <4>1
      <4> QED  BY <2>1, <4>2, <4>3
    <3> QED  BY <3>1, <3>2
  <2>5. Len(s) = Len(u) /\ \A n \in 1 .. Len(s) : s[n] = u[n]
      BY <1>1, <2>2, <2>3, <2>4
  <2>6. s = u
      BY <2>2, <2>3, <2>5, SeqEqual, Zenon
  <2> QED  BY <2>6 DEF u
<1> HIDE DEF s, t
<1>5. FlattenSeq(<< g[i + 1] >> \o t) = g[i + 1] \o FlattenSeq(t)
    BY <1>2, <1>3, FlattenFirst
<1> QED  BY <1>2, <1>4, <1>5 DEF Flat, s, t

\* A run is split anywhere.
LEMMA FlatSplit ==
    ASSUME NEW S, NEW g \in Seq(Seq(S)), NEW i \in Nat, NEW j \in i .. Len(g),
           NEW k \in j .. Len(g)
    PROVE  Flat(g, i, k) = Flat(g, i, j) \o Flat(g, j, k)
<1> DEFINE d == j - i
           T == {n \in 0 .. d : Flat(g, j - n, k) = Flat(g, j - n, j) \o Flat(g, j, k)}
<1>1. d \in Nat /\ j \in Nat /\ k \in Nat /\ Len(g) \in Nat
    OBVIOUS
<1>2. 0 \in T
  <2>1. Flat(g, j, j) = << >> /\ Flat(g, j, k) \in Seq(S) /\ j - 0 = j
      BY <1>1, FlatType
  <2> QED  BY <1>1, <2>1, ConcatEmptySeq
<1>3. ASSUME NEW n \in 0 .. d - 1, n \in T  PROVE n + 1 \in T
  <2> DEFINE l == j - (n + 1)
  <2>1. /\ l \in Nat /\ l + 1 = j - n /\ j \in l + 1 .. Len(g) /\ k \in l + 1 .. Len(g)
        /\ l + 1 \in Nat /\ n + 1 \in 0 .. d
      BY <1>1
  <2>2. Flat(g, l + 1, k) = Flat(g, l + 1, j) \o Flat(g, j, k)
      BY <1>3, <2>1
  <2> HIDE DEF l
  <2>3. /\ g[l + 1] \in Seq(S)
        /\ Flat(g, l, k) = g[l + 1] \o Flat(g, l + 1, k)
        /\ Flat(g, l, j) = g[l + 1] \o Flat(g, l + 1, j)
      BY <2>1, FlatFirst
  <2>4. Flat(g, l + 1, j) \in Seq(S) /\ Flat(g, j, k) \in Seq(S)
      BY <1>1, <2>1, FlatType
  <2>5. Flat(g, l, k) = Flat(g, l, j) \o Flat(g, j, k)
    <3> DEFINE x == g[l + 1]
               y == Flat(g, l + 1, j)
               z == Flat(g, j, k)
    <3>1. x \in Seq(S) /\ y \in Seq(S) /\ z \in Seq(S)
        BY <2>3, <2>4
    <3>2. Flat(g, l, k) = x \o (y \o z) /\ Flat(g, l, j) = x \o y
        BY <2>2, <2>3, Zenon
    <3> HIDE DEF x, y, z
    <3>3. x \o (y \o z) = (x \o y) \o z
        BY <3>1, ConcatAssociative, SMTT(40)
    <3>4. Flat(g, l, k) = (x \o y) \o z
        BY <3>2, <3>3
    <3> QED  BY <3>2, <3>4, Zenon DEF z
  <2> QED  BY <2>1, <2>5 DEF l
<1>4. 0 .. d \subseteq T
  <2> HIDE DEF T, d
  <2> QED  BY <1>1, <1>2, <1>3, Induction
<1>5. d \in T
  <2>1. d \in 0 .. d
      BY <1>1
  <2> HIDE DEF d, T
  <2> QED  BY <1>4, <2>1
<1>6. j - d = i
    BY <1>1
<1>7. Flat(g, j - d, k) = Flat(g, j - d, j) \o Flat(g, j, k)
  <2> HIDE DEF d
  <2> QED  BY <1>5
<1> QED  BY <1>6, <1>7, Zenon

\* The last piece can be taken off the end.
LEMMA FlatLast ==
    ASSUME NEW S, NEW g \in Seq(Seq(S)), NEW i \in Nat, NEW j \in i .. Len(g) - 1
    PROVE  Flat(g, i, j + 1) = Flat(g, i, j) \o g[j + 1]
<1>1. j \in Nat /\ j + 1 \in j + 1 .. Len(g) /\ j + 1 \in j .. Len(g) /\ j \in i .. Len(g)
      /\ j + 1 \in Nat /\ j + 1 \in j + 1 .. Len(g) /\ Len(g) \in Nat
    OBVIOUS
<1>2. Flat(g, i, j + 1) = Flat(g, i, j) \o Flat(g, j, j + 1)
    BY <1>1, FlatSplit
<1>3. g[j + 1] \in Seq(S) /\ Flat(g, j, j + 1) = g[j + 1] \o Flat(g, j + 1, j + 1)
    BY <1>1, FlatFirst
<1>4. Flat(g, j + 1, j + 1) = << >>
    BY <1>1, FlatType
<1> QED  BY <1>2, <1>3, <1>4, ConcatEmptySeq

\* A part of a sequence is split anywhere.
LEMMA PartSplit ==
    ASSUME NEW S, NEW s \in Seq(S), NEW i \in Nat, NEW j \in i .. Len(s), NEW k \in j .. Len(s)
    PROVE  /\ SubSeq(s, i + 1, k) = SubSeq(s, i + 1, j) \o SubSeq(s, j + 1, k)
           /\ SubSeq(s, i + 1, j) \in Seq(S) /\ SubSeq(s, j + 1, k) \in Seq(S)
           /\ SubSeq(s, i + 1, i) = << >>
<1> DEFINE a == SubSeq(s, i + 1, j)
           b == SubSeq(s, j + 1, k)
           c == SubSeq(s, i + 1, k)
<1>1. i \in Nat /\ j \in Nat /\ k \in Nat /\ Len(s) \in Nat /\ i <= j /\ j <= k /\ k <= Len(s)
    OBVIOUS
<1>2. /\ a \in Seq(S) /\ Len(a) = j - i /\ \A n \in 1 .. j - i : a[n] = s[i + n]
      /\ b \in Seq(S) /\ Len(b) = k - j /\ \A n \in 1 .. k - j : b[n] = s[j + n]
      /\ c \in Seq(S) /\ Len(c) = k - i /\ \A n \in 1 .. k - i : c[n] = s[i + n]
  <2>1. ASSUME NEW x \in Nat, NEW y \in Nat, x <= y, y <= Len(s)
        PROVE  LET p == SubSeq(s, x + 1, y)
               IN  p \in Seq(S) /\ Len(p) = y - x /\ \A n \in 1 .. y - x : p[n] = s[x + n]
    <3>1. \A n \in x + 1 .. y : s[n] \in S
        BY <1>1, <2>1
    <3>2. SubSeq(s, x + 1, y) \in Seq(S) /\ Len(SubSeq(s, x + 1, y)) = y - x
        BY <1>1, <2>1
    <3>3. \A n \in 1 .. y - x : SubSeq(s, x + 1, y)[n] = s[x + n]
        BY <1>1, <2>1
    <3> QED  BY <3>2, <3>3
  <2> HIDE DEF a, b, c
  <2> QED  BY <1>1, <2>1 DEF a, b, c
<1> HIDE DEF a, b, c
<1> DEFINE d == a \o b
<1>3. /\ d \in Seq(S) /\ Len(d) = (j - i) + (k - j)
      /\ \A n \in 1 .. (j - i) + (k - j) : d[n] = IF n <= j - i THEN a[n] ELSE b[n - (j - i)]
  <2>1. /\ d \in Seq(S) /\ Len(d) = Len(a) + Len(b)
        /\ \A n \in 1 .. Len(a) + Len(b) : d[n] = IF n <= Len(a) THEN a[n] ELSE b[n - Len(a)]
    <3>1. a \in Seq(S) /\ b \in Seq(S)
        BY <1>2
    <3> QED  BY <3>1
  <2> HIDE DEF d
  <2> QED  BY <1>1, <1>2, <2>1
<1> HIDE DEF d
<1>4. ASSUME NEW n \in 1 .. k - i  PROVE c[n] = d[n]
  <2>1. CASE n <= j - i
    <3>1. n \in 1 .. j - i /\ n \in 1 .. (j - i) + (k - j)
        BY <1>1, <2>1
    <3> QED  BY <1>2, <1>3, <2>1, <3>1
  <2>2. CASE ~ (n <= j - i)
    <3>1. n - (j - i) \in 1 .. k - j /\ n \in 1 .. (j - i) + (k - j) /\ j + (n - (j - i)) = i + n
        BY <1>1, <2>2
    <3> QED  BY <1>2, <1>3, <2>2, <3>1
  <2> QED  BY <2>1, <2>2
<1>5. c = d
  <2>1. Len(c) = Len(d)
      BY <1>1, <1>2, <1>3
  <2> QED  BY <1>2, <1>3, <1>4, <2>1, SeqEqual
<1>6. SubSeq(s, i + 1, i) = << >>
    BY <1>1, SubSeqEmpty
<1> QED  BY <1>2, <1>5, <1>6 DEF a, b, c, d

\* Beginnings, element by element.
LEMMA PrefixIs ==
    ASSUME NEW S, NEW s \in Seq(S), NEW t \in Seq(S)
    PROVE  IsPrefix(s, t) <=> Len(s) <= Len(t) /\ \A n \in 1 .. Len(s) : s[n] = t[n]
<1>1. Len(s) \in Nat /\ Len(t) \in Nat
    OBVIOUS
<1>2. SubSeq(s, 1, Len(s)) = s
    OBVIOUS
<1>3. CASE Len(s) <= Len(t)
  <2>1. /\ SubSeq(t, 1, Len(s)) \in Seq(S) /\ Len(SubSeq(t, 1, Len(s))) = Len(s)
        /\ \A n \in 1 .. Len(s) : SubSeq(t, 1, Len(s))[n] = t[n]
    <3>1. Len(s) \in 0 .. Len(t)
        BY <1>1, <1>3
    <3> QED  BY <3>1, BeginningIs
  <2> DEFINE u == SubSeq(t, 1, Len(s))
  <2> HIDE DEF u
  <2>2. s = u <=> \A n \in 1 .. Len(s) : s[n] = t[n]
    <3>1. u \in Seq(S) /\ Len(u) = Len(s) /\ \A n \in 1 .. Len(s) : u[n] = t[n]
        BY <2>1 DEF u
    <3>2. (\A n \in 1 .. Len(s) : s[n] = t[n]) => s = u
        BY <3>1, SeqEqual
    <3> QED  BY <3>1, <3>2
  <2> QED  BY <1>2, <1>3, <2>2 DEF u, IsPrefix
<1> QED  BY <1>3 DEF IsPrefix

\* A sequence is a prefix of itself with something behind.
LEMMA PrefixOfConcat ==
    ASSUME NEW S, NEW a \in Seq(S), NEW b \in Seq(S)
    PROVE  IsPrefix(a, a \o b)
<1>1. /\ a \o b \in Seq(S) /\ Len(a) <= Len(a \o b)
      /\ \A n \in 1 .. Len(a) : (a \o b)[n] = a[n]
    OBVIOUS
<1> DEFINE c == a \o b
<1> HIDE DEF c
<1>2. IsPrefix(a, c)
    BY <1>1, PrefixIs DEF c
<1> QED  BY <1>2 DEF c

\* A prefix of a prefix is a prefix.
LEMMA PrefixTransitive ==
    ASSUME NEW S, NEW s \in Seq(S), NEW t \in Seq(S), NEW u \in Seq(S),
           IsPrefix(s, t), IsPrefix(t, u)
    PROVE  IsPrefix(s, u)
<1>1. /\ Len(s) <= Len(t) /\ \A n \in 1 .. Len(s) : s[n] = t[n]
      /\ Len(t) <= Len(u) /\ \A n \in 1 .. Len(t) : t[n] = u[n]
    BY PrefixIs
<1>2. Len(s) \in Nat /\ Len(t) \in Nat /\ Len(u) \in Nat
    OBVIOUS
<1>3. Len(s) <= Len(u) /\ \A n \in 1 .. Len(s) : n \in 1 .. Len(t)
    BY <1>1, <1>2
<1>4. \A n \in 1 .. Len(s) : s[n] = u[n]
    BY <1>1, <1>3
<1> QED  BY <1>3, <1>4, PrefixIs

\* All but the last of a beginning is a beginning.
LEMMA FrontIsPrefix ==
    ASSUME NEW S, NEW s \in Seq(S), s # << >>, NEW t \in Seq(S), IsPrefix(s, t)
    PROVE  IsPrefix(Front(s), t)
<1>1. /\ Len(s) \in Nat \ {0} /\ Len(t) \in Nat
      /\ Len(s) <= Len(t) /\ \A n \in 1 .. Len(s) : s[n] = t[n]
    BY EmptySeq, PrefixIs
<1> DEFINE f == Front(s)
<1>2. /\ f \in Seq(S) /\ Len(f) = Len(s) - 1 /\ \A n \in 1 .. Len(s) - 1 : f[n] = s[n]
  <2>1. Len(s) - 1 \in 0 .. Len(s)
      BY <1>1
  <2> QED  BY <2>1, BeginningIs DEF Front
<1> HIDE DEF f
<1>3. Len(f) <= Len(t) /\ \A n \in 1 .. Len(f) : n \in 1 .. Len(s)
    BY <1>1, <1>2
<1>4. \A n \in 1 .. Len(f) : f[n] = t[n]
    BY <1>1, <1>2, <1>3
<1>5. IsPrefix(f, t)
    BY <1>2, <1>3, <1>4, PrefixIs
<1> QED  BY <1>5 DEF f

\* What is in front of an appended element is what was there before.
LEMMA FrontOfAppend ==
    ASSUME NEW S, NEW s \in Seq(S), NEW x \in S
    PROVE  Front(Append(s, x)) = s /\ Append(s, x) # << >>
<1> DEFINE t == Append(s, x)
           f == SubSeq(t, 1, Len(s))
<1>1. t \in Seq(S) /\ Len(t) = Len(s) + 1 /\ \A n \in 1 .. Len(s) : t[n] = s[n]
    OBVIOUS
<1>2. Len(s) \in Nat /\ Len(s) \in 0 .. Len(s) + 1
    OBVIOUS
<1> HIDE DEF t
<1>3. f \in Seq(S) /\ Len(f) = Len(s) /\ \A n \in 1 .. Len(s) : f[n] = t[n]
    BY <1>1, <1>2, BeginningIs
<1>4. \A n \in 1 .. Len(s) : f[n] = s[n]
    BY <1>1, <1>3
<1> HIDE DEF f
<1>5. f = s
    BY <1>3, <1>4, SeqEqual
<1>6. Len(t) - 1 = Len(s) /\ t # << >>
    BY <1>1, <1>2
<1> QED  BY <1>5, <1>6 DEF Front, f, t

\* The end of a sequence, whatever stands in front of it.
LEMMA SuffixOfConcat ==
    ASSUME NEW S, NEW a \in Seq(S), NEW b \in Seq(S)
    PROVE  IsSuffix(b, a \o b)
<1> DEFINE c == a \o b
           p == Reverse(b)
           q == Reverse(c)
<1>1. /\ c \in Seq(S) /\ Len(c) = Len(a) + Len(b) /\ Len(a) \in Nat /\ Len(b) \in Nat
      /\ \A n \in 1 .. Len(a) + Len(b) : c[n] = IF n <= Len(a) THEN a[n] ELSE b[n - Len(a)]
    OBVIOUS
<1> HIDE DEF c
<1>2. p \in Seq(S) /\ Len(p) = Len(b) /\ \A n \in 1 .. Len(b) : p[n] = b[(Len(b) - n) + 1]
  <2>1. \A n \in 1 .. Len(b) : (Len(b) - n) + 1 \in 1 .. Len(b)
      BY <1>1
  <2>2. \A n \in 1 .. Len(b) : b[(Len(b) - n) + 1] \in S
      BY <2>1
  <2> QED  BY <2>2 DEF Reverse
<1>3. q \in Seq(S) /\ Len(q) = Len(c) /\ \A n \in 1 .. Len(c) : q[n] = c[(Len(c) - n) + 1]
  <2>1. \A n \in 1 .. Len(c) : (Len(c) - n) + 1 \in 1 .. Len(c)
      BY <1>1
  <2>2. \A n \in 1 .. Len(c) : c[(Len(c) - n) + 1] \in S
      BY <1>1, <2>1
  <2> QED  BY <1>1, <2>2 DEF Reverse
<1> HIDE DEF p, q
<1>4. ASSUME NEW n \in 1 .. Len(p)  PROVE p[n] = q[n]
  <2>1. /\ n \in 1 .. Len(b) /\ n \in 1 .. Len(c)
        /\ (Len(c) - n) + 1 \in 1 .. Len(a) + Len(b) /\ ~ ((Len(c) - n) + 1 <= Len(a))
        /\ ((Len(c) - n) + 1) - Len(a) = (Len(b) - n) + 1
      BY <1>1, <1>2
  <2>2. c[(Len(c) - n) + 1] = b[((Len(c) - n) + 1) - Len(a)]
      BY <1>1, <2>1
  <2> QED  BY <1>2, <1>3, <2>1, <2>2
<1>5. Len(p) <= Len(q)
    BY <1>1, <1>2, <1>3
<1>6. IsPrefix(p, q)
    BY <1>2, <1>3, <1>4, <1>5, PrefixIs
<1> QED  BY <1>6 DEF IsSuffix, c, p, q

-----------------------------------------------------------------------------
(* Lines.                                                                  *)

Line == [stream : Stream, header : Entry]

\* Headers with their stream: one line for each.
LEMMA TaggedType ==
    ASSUME NEW T, NEW stream \in T, NEW hs \in Seq(Entry)
    PROVE  /\ Tagged(stream, hs) \in Seq([stream : T, header : Entry])
           /\ Len(Tagged(stream, hs)) = Len(hs)
           /\ \A n \in 1 .. Len(hs) : Tagged(stream, hs)[n] = [stream |-> stream, header |-> hs[n]]
<1>1. DOMAIN hs = 1 .. Len(hs) /\ Len(hs) \in Nat /\ \A n \in 1 .. Len(hs) : hs[n] \in Entry
    OBVIOUS
<1>2. \A n \in 1 .. Len(hs) : [stream |-> stream, header |-> hs[n]] \in [stream : T, header : Entry]
    BY <1>1
<1>3. Tagged(stream, hs) = [n \in 1 .. Len(hs) |-> [stream |-> stream, header |-> hs[n]]]
    BY <1>1 DEF Tagged
<1> QED  BY <1>1, <1>2, <1>3

\* Headers in two runs are tagged one run after the other.
LEMMA TaggedConcat ==
    ASSUME NEW T, NEW stream \in T, NEW a \in Seq(Entry), NEW b \in Seq(Entry)
    PROVE  Tagged(stream, a \o b) = Tagged(stream, a) \o Tagged(stream, b)
<1> DEFINE c == a \o b
           x == Tagged(stream, a)
           y == Tagged(stream, b)
           z == Tagged(stream, c)
           L == [stream : T, header : Entry]
           row(h) == [stream |-> stream, header |-> h]
<1>1. /\ c \in Seq(Entry) /\ Len(c) = Len(a) + Len(b) /\ Len(a) \in Nat /\ Len(b) \in Nat
      /\ \A n \in 1 .. Len(a) + Len(b) : c[n] = IF n <= Len(a) THEN a[n] ELSE b[n - Len(a)]
    OBVIOUS
<1> HIDE DEF c
<1>2. /\ x \in Seq(L) /\ Len(x) = Len(a) /\ \A n \in 1 .. Len(a) : x[n] = row(a[n])
      /\ y \in Seq(L) /\ Len(y) = Len(b) /\ \A n \in 1 .. Len(b) : y[n] = row(b[n])
      /\ z \in Seq(L) /\ Len(z) = Len(c) /\ \A n \in 1 .. Len(c) : z[n] = row(c[n])
    BY <1>1, TaggedType
<1> HIDE DEF x, y, z, L, row
<1> DEFINE w == x \o y
<1>3. /\ w \in Seq(L) /\ Len(w) = Len(x) + Len(y)
      /\ \A n \in 1 .. Len(x) + Len(y) : w[n] = IF n <= Len(x) THEN x[n] ELSE y[n - Len(x)]
  <2>1. x \in Seq(L) /\ y \in Seq(L)
      BY <1>2
  <2> QED  BY <2>1
<1> HIDE DEF w
<1>4. ASSUME NEW n \in 1 .. Len(z)  PROVE z[n] = w[n]
  <2>1. n \in 1 .. Len(a) + Len(b) /\ n \in 1 .. Len(c) /\ n \in 1 .. Len(x) + Len(y)
      BY <1>1, <1>2
  <2>2. CASE n <= Len(a)
    <3>1. n \in 1 .. Len(a)
        BY <1>1, <2>2
    <3> QED  BY <1>1, <1>2, <1>3, <2>1, <2>2, <3>1
  <2>3. CASE ~ (n <= Len(a))
    <3>1. n - Len(a) \in 1 .. Len(b) /\ Len(x) = Len(a)
        BY <1>1, <1>2, <2>3
    <3>2. c[n] = b[n - Len(a)] /\ w[n] = y[n - Len(a)]
        BY <1>1, <1>3, <2>1, <2>3, <3>1
    <3> QED  BY <1>2, <2>1, <3>1, <3>2
  <2> QED  BY <2>2, <2>3
<1>5. Len(z) = Len(w)
    BY <1>1, <1>2, <1>3
<1>6. z = w
    BY <1>2, <1>3, <1>4, <1>5, SeqEqual
<1> QED  BY <1>6 DEF c, w, x, y, z

\* No headers give no lines.
LEMMA TaggedNone == \A stream : Tagged(stream, << >>) = << >>
<1> SUFFICES ASSUME NEW stream  PROVE Tagged(stream, << >>) = << >>
    OBVIOUS
<1>1. << >> \in Seq(Entry) /\ Len(<< >>) = 0
    OBVIOUS
<1>2. /\ Tagged(stream, << >>) \in Seq([stream : {stream}, header : Entry])
      /\ Len(Tagged(stream, << >>)) = 0
    BY <1>1, TaggedType
<1> HIDE DEF Tagged
<1> QED  BY <1>2, EmptySeq

-----------------------------------------------------------------------------
(* The numbers in a frame.                                                 *)

\* An octet is a number below Shift8, which has room for the bits of the frames.
LEMMA ShiftType == Shift8 \in Nat /\ Shift8 >= 16 /\ Octet = 0 .. Shift8 - 1 /\ 0 \in Octet
<1>1. More \in Nat /\ More >= 16
  <2>1. GroupBits \in Nat /\ GroupBits >= 4
      BY OctetAssumption
  <2>2. 2 ^ 4 <= 2 ^ GroupBits /\ 2 ^ GroupBits \in Nat
      BY <2>1, PowerMonotone, PowerOfTwo
  <2>3. 2 ^ 4 = 16
      OBVIOUS
  <2> QED  BY <2>2, <2>3 DEF More
<1> QED  BY <1>1 DEF Shift8, Octet

\* A number below a product, in two digits.
LEMMA TwoDigits ==
    ASSUME NEW p \in Nat \ {0}, NEW q \in Nat \ {0}, NEW v \in 0 .. p * q - 1
    PROVE  /\ v \div q \in 0 .. p - 1 /\ v % q \in 0 .. q - 1
           /\ (v \div q) * q + (v % q) = v
<1> DEFINE d == v \div q
           r == v % q
<1>1. d \in Int /\ r \in 0 .. q - 1 /\ v = q * d + r /\ v \in Nat /\ p * q \in Int
    BY ModFacts
<1>2. d \in Nat
    BY <1>1, DivZero
<1> HIDE DEF d, r
<1>3. q * d + r < p * q
    BY <1>1
<1>4. d < p
  <2> SUFFICES ASSUME d >= p  PROVE FALSE
      BY <1>2
  <2>1. q * d >= q * p
    <3>1. d - p \in Nat /\ d = p + (d - p)
        BY <1>2
    <3>2. q * d = q * p + q * (d - p) /\ q * (d - p) >= 0 /\ q * p \in Int /\ q * (d - p) \in Int
        BY <3>1
    <3> QED  BY <3>2
  <2>2. q * p = p * q /\ q * d \in Int /\ r \in Nat
      BY <1>1, <1>2
  <2> QED  BY <1>1, <1>3, <2>1, <2>2
<1>5. d * q = q * d
    BY <1>2
<1> QED  BY <1>1, <1>2, <1>4, <1>5 DEF d, r

\* What read_u8 and the others read is what is in front.
LEMMA ReadsType ==
    ASSUME NEW os \in Seq(Octet)
    PROVE  /\ ReadU8(os) \in 0 .. Shift8 - 1
           /\ ReadU16(os) \in 0 .. Shift8 * Shift8 - 1
           /\ ReadU24(os) \in 0 .. Shift8 * Shift8 * Shift8 - 1
           /\ ReadU32(os) \in 0 .. Shift8 * Shift8 * Shift8 * Shift8 - 1
<1> DEFINE s == Shift8
<1>1. s \in Nat /\ s >= 16 /\ s * s \in Nat /\ Octet = 0 .. s - 1
    BY ShiftType
<1>2. \A n \in Nat : Drop(n, os) \in Seq(Octet)
    BY EndIs DEF Drop
<1>3. ASSUME NEW t \in Seq(Octet)  PROVE ReadU8(t) \in 0 .. s - 1
  <2>1. t # << >> => Head(t) \in Octet
      OBVIOUS
  <2> QED  BY <1>1, <2>1 DEF ReadU8
<1>4. ASSUME NEW p \in Nat, NEW q \in Nat, NEW x \in 0 .. p - 1, NEW y \in 0 .. q - 1
      PROVE  x * q + y \in 0 .. p * q - 1
  <2>1. x * q \in Nat /\ (p - 1 - x) * q \in Nat /\ p * q \in Nat
        /\ p * q = x * q + (p - 1 - x) * q + q
    <3>1. x \in Nat /\ p - 1 - x \in Nat
        OBVIOUS
    <3> QED  BY <3>1
  <2> QED  BY <2>1
<1> HIDE DEF s
<1>5. ASSUME NEW t \in Seq(Octet)  PROVE ReadU16(t) \in 0 .. s * s - 1
  <2>1. ReadU8(t) \in 0 .. s - 1 /\ ReadU8(Drop(1, t)) \in 0 .. s - 1
    <3>1. Drop(1, t) \in Seq(Octet)
        BY EndIs DEF Drop
    <3> QED  BY <1>3, <3>1
  <2>2. ReadU8(t) * s + ReadU8(Drop(1, t)) \in 0 .. s * s - 1
      BY <1>1, <1>4, <2>1
  <2> QED  BY <2>2 DEF ReadU16, s
<1>6. Drop(2, os) \in Seq(Octet)
    BY <1>2
<1>7. ReadU24(os) \in 0 .. s * s * s - 1
  <2>1. ReadU16(os) * s + ReadU8(Drop(2, os)) \in 0 .. (s * s) * s - 1
      BY <1>1, <1>3, <1>4, <1>5, <1>6
  <2> QED  BY <2>1 DEF ReadU24, s
<1>8. ReadU32(os) \in 0 .. s * s * s * s - 1
  <2>1. ReadU16(os) * (s * s) + ReadU16(Drop(2, os)) \in 0 .. (s * s) * (s * s) - 1
      BY <1>1, <1>4, <1>5, <1>6
  <2>2. (s * s) * (s * s) = s * s * s * s
      BY <1>1
  <2> QED  BY <2>1, <2>2 DEF ReadU32, s
<1> QED  BY <1>3, <1>5, <1>7, <1>8 DEF s

\* What is left behind n elements.
LEMMA DropIs ==
    ASSUME NEW S, NEW os \in Seq(S), NEW n \in Nat
    PROVE  /\ Drop(n, os) \in Seq(S)
           /\ Len(Drop(n, os)) = IF n <= Len(os) THEN Len(os) - n ELSE 0
           /\ \A k \in 1 .. Len(Drop(n, os)) : Drop(n, os)[k] = os[n + k]
BY EndIs DEF Drop

\* What stands where in a sequence with others in front.
LEMMA DropFront ==
    ASSUME NEW S, NEW a \in Seq(S), NEW b \in Seq(S)
    PROVE  Drop(Len(a), a \o b) = b
<1> DEFINE c == a \o b
           d == SubSeq(c, Len(a) + 1, Len(c))
<1>1. /\ c \in Seq(S) /\ Len(c) = Len(a) + Len(b) /\ Len(a) \in Nat /\ Len(b) \in Nat
      /\ \A n \in 1 .. Len(a) + Len(b) : c[n] = IF n <= Len(a) THEN a[n] ELSE b[n - Len(a)]
    OBVIOUS
<1> HIDE DEF c
<1>2. d \in Seq(S) /\ Len(d) = Len(b) /\ \A n \in 1 .. Len(d) : d[n] = c[Len(a) + n]
  <2>1. /\ d \in Seq(S) /\ Len(d) = IF Len(a) <= Len(c) THEN Len(c) - Len(a) ELSE 0
        /\ \A n \in 1 .. Len(d) : d[n] = c[Len(a) + n]
      BY <1>1, EndIs
  <2> HIDE DEF d
  <2> QED  BY <1>1, <2>1
<1> HIDE DEF d
<1>3. ASSUME NEW n \in 1 .. Len(b)  PROVE d[n] = b[n]
  <2>1. Len(a) + n \in 1 .. Len(a) + Len(b) /\ ~ (Len(a) + n <= Len(a)) /\ (Len(a) + n) - Len(a) = n
      BY <1>1
  <2> QED  BY <1>1, <1>2, <2>1
<1>4. d = b
    BY <1>2, <1>3, SeqEqual
<1> QED  BY <1>4 DEF Drop, c, d

\* Two sequences, one behind the other; and three.
LEMMA ConcatType ==
    ASSUME NEW S, NEW x \in Seq(S), NEW y \in Seq(S)
    PROVE  /\ x \o y \in Seq(S) /\ Len(x \o y) = Len(x) + Len(y)
           /\ Len(x) \in Nat /\ Len(y) \in Nat
OBVIOUS

\* Concatenation associates, stated the other way round.
LEMMA ConcatThree ==
    ASSUME NEW S, NEW x \in Seq(S), NEW y \in Seq(S), NEW z \in Seq(S)
    PROVE  (x \o y) \o z = x \o (y \o z)
BY ConcatAssociative

\* Concatenation of octets is associative.
LEMMA ConcatOctets ==
    \A x \in Seq(Octet), y \in Seq(Octet), z \in Seq(Octet) : (x \o y) \o z = x \o (y \o z)
BY ConcatThree

\* read_u16 of what is written as such, whatever follows.
LEMMA ReadOfU16 ==
    ASSUME NEW v \in 0 .. Shift8 * Shift8 - 1, NEW tail \in Seq(Octet)
    PROVE  /\ U16(v) \in Seq(Octet) /\ Len(U16(v)) = 2
           /\ ReadU16(U16(v) \o tail) = v
<1> DEFINE s == Shift8
           d == v \div s
           r == v % s
           a == << d, r >>
           os == a \o tail
<1>1. s \in Nat \ {0} /\ Octet = 0 .. s - 1
    BY ShiftType
<1>2. d \in Octet /\ r \in Octet /\ d * s + r = v
  <2> HIDE DEF d, r
  <2> QED  BY <1>1, TwoDigits DEF d, r
<1> HIDE DEF d, r
<1>3. a \in Seq(Octet) /\ Len(a) = 2 /\ a[1] = d /\ a[2] = r
    BY <1>2
<1> HIDE DEF a
<1>4. /\ os \in Seq(Octet) /\ Len(os) = 2 + Len(tail) /\ Len(tail) \in Nat
      /\ os[1] = d /\ os[2] = r
  <2>1. /\ os \in Seq(Octet) /\ Len(os) = Len(a) + Len(tail) /\ Len(tail) \in Nat
        /\ \A n \in 1 .. Len(a) : os[n] = a[n]
    <3>1. a \in Seq(Octet)
        BY <1>3
    <3> QED  BY <3>1
  <2> HIDE DEF os
  <2> QED  BY <1>3, <2>1
<1> HIDE DEF os
<1>5. os # << >> /\ Head(os) = d
    BY <1>4
<1>6. Drop(1, os) # << >> /\ Head(Drop(1, os)) = r
  <2> DEFINE e == Drop(1, os)
  <2>1. /\ e \in Seq(Octet) /\ Len(e) = IF 1 <= Len(os) THEN Len(os) - 1 ELSE 0
        /\ \A n \in 1 .. Len(e) : e[n] = os[1 + n]
      BY <1>4, DropIs
  <2> HIDE DEF e
  <2>2. Len(e) >= 1 /\ 1 \in 1 .. Len(e) /\ 1 + 1 = 2
      BY <1>4, <2>1
  <2>3. e # << >> /\ Head(e) = e[1] /\ e[1] = r
      BY <1>4, <2>1, <2>2
  <2> QED  BY <2>3 DEF e
<1>7. ReadU16(os) = v
    BY <1>2, <1>5, <1>6 DEF ReadU16, ReadU8, s
<1> QED  BY <1>3, <1>7 DEF U16, os, a, d, r, s

\* So with read_u24 and read_u32.
LEMMA ReadOfU24 ==
    ASSUME NEW v \in 0 .. Shift8 * Shift8 * Shift8 - 1, NEW tail \in Seq(Octet)
    PROVE  /\ U24(v) \in Seq(Octet) /\ Len(U24(v)) = 3
           /\ ReadU24(U24(v) \o tail) = v
<1> DEFINE s == Shift8
           d == v \div s
           r == v % s
           a == U16(d)
           last == << r >>
           os == (a \o last) \o tail
<1>1. s \in Nat \ {0} /\ Octet = 0 .. s - 1 /\ s * s \in Nat \ {0}
    BY ShiftType
<1>2. d \in 0 .. s * s - 1 /\ r \in Octet /\ d * s + r = v
  <2>1. v \in 0 .. (s * s) * s - 1
      OBVIOUS
  <2> HIDE DEF d, r, s
  <2> QED  BY <1>1, <2>1, TwoDigits DEF d, r
<1> HIDE DEF d, r
<1>3. last \in Seq(Octet) /\ Len(last) = 1 /\ last[1] = r
    BY <1>2
<1> HIDE DEF last
<1>4. last \o tail \in Seq(Octet) /\ last \o tail # << >> /\ Head(last \o tail) = r
  <2> DEFINE c == last \o tail
  <2>1. /\ c \in Seq(Octet) /\ Len(c) = Len(last) + Len(tail) /\ Len(tail) \in Nat
        /\ \A n \in 1 .. Len(last) : c[n] = last[n]
    <3>1. last \in Seq(Octet)
        BY <1>3
    <3> QED  BY <3>1
  <2> HIDE DEF c
  <2>2. c # << >> /\ Head(c) = c[1] /\ c[1] = r
      BY <1>3, <2>1
  <2> QED  BY <2>1, <2>2 DEF c
<1>5. /\ a \in Seq(Octet) /\ Len(a) = 2 /\ ReadU16(a \o (last \o tail)) = d
    BY <1>2, <1>4, ReadOfU16 DEF s
<1> HIDE DEF a
<1>6. os = a \o (last \o tail)
  <2>1. a \in Seq(Octet) /\ last \in Seq(Octet)
      BY <1>3, <1>5
  <2> QED  BY <2>1, ConcatThree
<1>7. Drop(2, os) = last \o tail
  <2>1. Drop(Len(a), a \o (last \o tail)) = last \o tail
      BY <1>4, <1>5, DropFront
  <2> QED  BY <1>5, <1>6, <2>1
<1>8. a \o last \in Seq(Octet) /\ Len(a \o last) = 3
  <2>1. a \o last \in Seq(Octet) /\ Len(a \o last) = Len(a) + Len(last)
      BY <1>3, <1>5, ConcatType, Zenon
  <2> QED  BY <1>3, <1>5, <2>1
<1> HIDE DEF os
<1>9. ReadU24(os) = v
    BY <1>2, <1>4, <1>5, <1>6, <1>7 DEF ReadU24, ReadU8, s
<1> QED  BY <1>8, <1>9 DEF U24, os, a, d, last, r, s

\* read_u32 of what is written as such, whatever follows.
LEMMA ReadOfU32 ==
    ASSUME NEW v \in 0 .. Shift8 * Shift8 * Shift8 * Shift8 - 1, NEW tail \in Seq(Octet)
    PROVE  /\ U32(v) \in Seq(Octet) /\ Len(U32(v)) = 4
           /\ ReadU32(U32(v) \o tail) = v
<1> DEFINE s == Shift8 * Shift8
           d == v \div s
           r == v % s
           a == U16(d)
           b == U16(r)
           os == (a \o b) \o tail
<1>1. s \in Nat \ {0} /\ Shift8 \in Nat \ {0}
    BY ShiftType
<1>2. d \in 0 .. s - 1 /\ r \in 0 .. s - 1 /\ d * s + r = v
  <2>1. v \in 0 .. s * s - 1
    <3>1. Shift8 * Shift8 * Shift8 * Shift8 = s * s
        BY <1>1
    <3> QED  BY <3>1
  <2> HIDE DEF d, r, s
  <2> QED  BY <1>1, <2>1, TwoDigits DEF d, r
<1> HIDE DEF d, r
<1>3. b \in Seq(Octet) /\ Len(b) = 2 /\ ReadU16(b \o tail) = r
    BY <1>2, ReadOfU16
<1> HIDE DEF b
<1>4. b \o tail \in Seq(Octet)
    BY <1>3
<1>5. a \in Seq(Octet) /\ Len(a) = 2 /\ ReadU16(a \o (b \o tail)) = d
    BY <1>2, <1>4, ReadOfU16
<1> HIDE DEF a
<1>6. os = a \o (b \o tail)
  <2>1. a \in Seq(Octet) /\ b \in Seq(Octet)
      BY <1>3, <1>5
  <2> QED  BY <2>1, ConcatThree
<1>7. Drop(2, os) = b \o tail
  <2>1. Drop(Len(a), a \o (b \o tail)) = b \o tail
      BY <1>4, <1>5, DropFront
  <2> QED  BY <1>5, <1>6, <2>1
<1>8. a \o b \in Seq(Octet) /\ Len(a \o b) = 4
  <2>1. a \o b \in Seq(Octet) /\ Len(a \o b) = Len(a) + Len(b)
      BY <1>3, <1>5, ConcatType, Zenon
  <2> QED  BY <1>3, <1>5, <2>1
<1> HIDE DEF os
<1>9. ReadU32(os) = v
    BY <1>2, <1>3, <1>5, <1>6, <1>7 DEF ReadU32, s
<1> QED  BY <1>8, <1>9 DEF U32, os, a, d, b, r, s

\* What read_frame reads of the header of a frame is what was written there,
\* and what is left is what follows (h2unpack.cc:88-91).
LEMMA HeadRead ==
    ASSUME NEW size \in 0 .. Shift8 * Shift8 * Shift8 - 1, NEW type \in Octet, NEW flags \in Octet,
           NEW stream \in 0 .. Shift8 * Shift8 * Shift8 * Shift8 - 1, NEW tail \in Seq(Octet),
           input = FrameHead(size, type, flags, stream) \o tail
    PROVE  /\ FrameHead(size, type, flags, stream) \in Seq(Octet)
           /\ Len(FrameHead(size, type, flags, stream)) = 9
           /\ Size = size /\ Type = type /\ Flags = flags /\ Sender = stream /\ Rest = tail
<1> DEFINE a == U24(size)
           b == << type, flags >>
           c == U32(stream)
           os == ((a \o b) \o c) \o tail
<1>1. c \in Seq(Octet) /\ Len(c) = 4 /\ ReadU32(c \o tail) = stream
    BY ReadOfU32
<1>2. b \in Seq(Octet) /\ Len(b) = 2 /\ b[1] = type /\ b[2] = flags
    OBVIOUS
<1> HIDE DEF b, c
<1> DEFINE t == c \o tail
           u == b \o t
<1>3. t \in Seq(Octet)
    BY <1>1
<1> HIDE DEF t
<1>4. /\ u \in Seq(Octet) /\ Len(u) = 2 + Len(t) /\ Len(t) \in Nat
      /\ u[1] = type /\ u[2] = flags /\ u # << >> /\ Head(u) = type
  <2>1. /\ u \in Seq(Octet) /\ Len(u) = Len(b) + Len(t) /\ Len(t) \in Nat
        /\ \A n \in 1 .. Len(b) : u[n] = b[n]
    <3>1. b \in Seq(Octet) /\ t \in Seq(Octet)
        BY <1>2, <1>3
    <3> QED  BY <3>1
  <2> HIDE DEF u
  <2> QED  BY <1>2, <2>1
<1> HIDE DEF u
<1>5. a \in Seq(Octet) /\ Len(a) = 3 /\ ReadU24(a \o u) = size
    BY <1>4, ReadOfU24
<1> HIDE DEF a
<1>6. os = a \o u
  <2>1. ((a \o b) \o c) \o tail = (a \o b) \o (c \o tail)
    <3>1. a \o b \in Seq(Octet)
        BY <1>2, <1>5, ConcatType, Zenon
    <3>2. c \in Seq(Octet)
        BY <1>1
    <3> DEFINE x == a \o b
    <3> HIDE DEF x
    <3>3. x \in Seq(Octet)
        BY <3>1 DEF x
    <3>4. (x \o c) \o tail = x \o (c \o tail)
        BY <3>2, <3>3, ConcatThree, SMTT(40)
    <3> QED  BY <3>4 DEF x
  <2>2. (a \o b) \o t = a \o (b \o t)
    <3>1. a \in Seq(Octet) /\ b \in Seq(Octet) /\ t \in Seq(Octet)
        BY <1>2, <1>3, <1>5
    <3> QED  BY <3>1, ConcatOctets, Zenon
  <2> QED  BY <2>1, <2>2 DEF t, u
<1>7. FrameHead(size, type, flags, stream) = (a \o b) \o c
  <2>1. (a \o b) \o c = a \o b \o c
      OBVIOUS
  <2> QED  BY <2>1 DEF FrameHead, a, b, c
<1>8. input = os
    BY <1>7
<1>9. ((a \o b) \o c) \in Seq(Octet) /\ Len((a \o b) \o c) = 9
  <2>1. a \o b \in Seq(Octet) /\ Len(a \o b) = 5
    <3>1. a \o b \in Seq(Octet) /\ Len(a \o b) = Len(a) + Len(b)
        BY <1>2, <1>5, ConcatType, Zenon
    <3> QED  BY <1>2, <1>5, <3>1
  <2> DEFINE x == a \o b
  <2> HIDE DEF x
  <2>2. x \o c \in Seq(Octet) /\ Len(x \o c) = 9
    <3>1. x \in Seq(Octet) /\ Len(x) = 5
        BY <2>1 DEF x
    <3>2. x \o c \in Seq(Octet) /\ Len(x \o c) = Len(x) + Len(c)
        BY <1>1, <3>1, ConcatType, Zenon
    <3> QED  BY <1>1, <3>1, <3>2
  <2> QED  BY <2>2 DEF x
<1> HIDE DEF os
<1>10. input = a \o u /\ input \in Seq(Octet) /\ Len(input) = 3 + Len(u) /\ Len(input) = 9 + Len(tail)
  <2>1. input = a \o u
      BY <1>6, <1>8
  <2>2. a \o u \in Seq(Octet) /\ Len(a \o u) = Len(a) + Len(u)
      BY <1>4, <1>5, ConcatType, Zenon
  <2>3. Len(t) = Len(c) + Len(tail)
      BY <1>1, ConcatType, Zenon DEF t
  <2>4. Len(tail) \in Nat
      OBVIOUS
  <2>5. Len(a) = 3 /\ Len(c) = 4 /\ Len(u) = 2 + Len(t) /\ Len(t) \in Nat
      BY <1>1, <1>4, <1>5
  <2>6. Len(a) + Len(u) = 3 + Len(u) /\ Len(a) + Len(u) = 9 + Len(tail)
    <3> DEFINE la == Len(a)
               lc == Len(c)
               lt == Len(t)
               lu == Len(u)
               rest == Len(tail)
    <3>1. la = 3 /\ lc = 4 /\ lu = 2 + lt /\ lt = lc + rest /\ rest \in Nat
        BY <2>3, <2>4, <2>5, Zenon
    <3> HIDE DEF la, lc, lt, lu, rest
    <3>2. la + lu = 3 + lu /\ la + lu = 9 + rest
        BY <3>1
    <3> QED  BY <3>2 DEF la, lu, rest
  <2> QED  BY <2>1, <2>2, <2>6, Zenon
<1>11. Drop(3, input) = u
  <2>1. Drop(Len(a), a \o u) = u
      BY <1>4, <1>5, DropFront
  <2> QED  BY <1>5, <1>10, <2>1
<1>12. Drop(4, input) # << >> /\ Head(Drop(4, input)) = flags
  <2> DEFINE e == Drop(4, input)
  <2>0. input \in Seq(Octet) /\ 3 \in Nat /\ 4 \in Nat
      BY <1>10
  <2>1. /\ e \in Seq(Octet) /\ Len(e) = IF 4 <= Len(input) THEN Len(input) - 4 ELSE 0
        /\ \A n \in 1 .. Len(e) : e[n] = input[4 + n]
      BY <2>0, DropIs, Zenon
  <2>2. \A n \in 1 .. Len(Drop(3, input)) : Drop(3, input)[n] = input[3 + n]
      BY <2>0, DropIs, Zenon
  <2> HIDE DEF e
  <2>3. 2 \in 1 .. Len(u) /\ Len(e) >= 1 /\ 1 \in 1 .. Len(e) /\ 4 + 1 = 5 /\ 3 + 2 = 5
      BY <1>4, <1>10, <2>1
  <2>4. u[2] = input[5] /\ e[1] = input[5]
      BY <1>11, <2>1, <2>2, <2>3
  <2>5. e # << >> /\ Head(e) = e[1]
      BY <2>1, <2>3
  <2> QED  BY <1>4, <2>4, <2>5 DEF e
<1>13. Drop(5, input) = t
  <2>1. a \o b \in Seq(Octet) /\ Len(a \o b) = 5
    <3>1. a \o b \in Seq(Octet) /\ Len(a \o b) = Len(a) + Len(b)
        BY <1>2, <1>5, ConcatType, Zenon
    <3> QED  BY <1>2, <1>5, <3>1
  <2>2. Drop(Len(a \o b), (a \o b) \o t) = t
      BY <1>3, <2>1, DropFront
  <2>3. (a \o b) \o t = a \o (b \o t)
    <3>1. a \in Seq(Octet) /\ b \in Seq(Octet) /\ t \in Seq(Octet)
        BY <1>2, <1>3, <1>5
    <3> QED  BY <3>1, ConcatOctets, Zenon
  <2> QED  BY <1>10, <2>1, <2>2, <2>3 DEF u
<1>14. Drop(9, input) = tail
  <2>1. Drop(Len((a \o b) \o c), ((a \o b) \o c) \o tail) = tail
      BY <1>9, DropFront
  <2> QED  BY <1>8, <1>9, <2>1 DEF os
<1>15. Size = size
    BY <1>5, <1>10 DEF Size
<1>16. Type = type
    BY <1>4, <1>11 DEF Type, ReadU8
<1>17. Flags = flags
    BY <1>12 DEF Flags, ReadU8
<1>18. Sender = stream
    BY <1>1, <1>13 DEF Sender, t
<1> QED  BY <1>7, <1>9, <1>14, <1>15, <1>16, <1>17, <1>18 DEF Rest

-----------------------------------------------------------------------------
(* What the peer has written.                                              *)


FrameType ==
    [octets : Seq(Octet), block : Seq(Octet), odd : BOOLEAN,
     stream : Nat, headers : Seq(Line), upto : Nat]

\* This peer spells as the standard allows.
LEMMA PlainIsSpelling == PlainSpelling \in Spelling
BY DEF PlainSpelling, Spelling

\* The instruction is on the wire as this peer writes it.
PlainlySpelled(instr, os) == os = InstructionOctets(instr, PlainSpelling)

\* A turn on a beginning of such octets and of what follows carries out the
\* instruction or, with only some of its octets, spoils it.
LEMMA TurnOnPlain ==
    ASSUME NEW instr, Wireable(instr), NEW piece \in Seq(Octet), PlainlySpelled(instr, piece),
           NEW rest \in Seq(Octet), NEW m \in 0 .. Len(piece) + Len(rest),
           buffer = SubSeq(piece \o rest, 1, m), Turn
    PROVE  /\ m # 0
           /\ \/ /\ m - Len(piece) \in 0 .. Len(rest)
                 /\ CarriesOut(instr)
                 /\ buffer' = SubSeq(rest, 1, m - Len(piece))
                 /\ aborted' = aborted
              \/ m < Len(piece) /\ Spoils(instr)
<1>1. CodedTexts(instr, PlainSpelling) = {}
    BY DEF CodedTexts, PlainSpelling
<1>2. ~ Overran(instr, PlainSpelling)
    BY <1>1 DEF Overran
<1>3. piece = InstructionOctets(instr, PlainSpelling)
    BY DEF PlainlySpelled
<1> QED  BY <1>2, <1>3, PlainIsSpelling, TurnOnBeginning

\* The octets of the instructions written, and those of a run of them.
Spellings == [k \in 1 .. Len(out) |-> InstructionOctets(out[k], PlainSpelling)]
Pieces(i, j) == Flat(Spellings, i, j)

\* The headers of a run of instructions.
HeadersOf(i, j) == SubSeq(sent, moments[i + 1].count + 1, moments[j + 1].count)

\* The instructions encoded when the first k frames were written.
End(k) == IF k = 0 THEN 0 ELSE frames[k].upto

\* The encoder keeps its table within its limit, and what it writes fits the
\* integers of the wire; its moments are those of the instructions.
EncoderInv ==
    /\ sent \in Seq(Header) /\ out \in Seq(Instruction)
    /\ stdTable \in Seq(Entry) /\ stdMax \in 0 .. SizeLimit /\ Bytes(stdTable) <= stdMax
    /\ moments \in Seq(MomentType) /\ Len(moments) = Len(out) + 1
    /\ moments[Len(out) + 1].count = Len(sent)
    /\ \A k \in 1 .. Len(out) : Wireable(out[k])
    /\ \A i, j \in 1 .. Len(moments) : i <= j => moments[i].count <= moments[j].count

\* What a frame is made of: one that h2unpack does not handle, a block of
\* headers, one of a promise, or what is skipped.
Made(f, type, flags, sender, payload, extra) ==
    /\ f.octets = Frame(type, flags, sender, payload) \o extra
    /\ \/ /\ f.odd /\ type = HEADERS /\ flags \in {0, END_HEADERS + PADDED}
       \/ /\ ~ f.odd /\ extra = << >> /\ f.block # << >> /\ f.stream \in Stream
          /\ \/ /\ type = HEADERS /\ flags = END_HEADERS + END_STREAM
                /\ sender = f.stream /\ payload = f.block
             \/ /\ type = PUSH_PROMISE /\ flags = END_HEADERS
                /\ payload = U32(f.stream) \o f.block
       \/ /\ ~ f.odd /\ extra = << >> /\ f.block = << >> /\ f.headers = << >>
          /\ type \in OtherType /\ flags = 0

MadeSo(f) ==
    \E type, flags \in Octet, sender \in 0 .. Shift8 * Shift8 * Shift8 * Shift8 - 1,
       payload, extra \in Seq(Octet) :
        Len(payload) <= MaxFrameSize /\ Made(f, type, flags, sender, payload, extra)

\* A frame carries the instructions written since the one before it.
Carries(k) ==
    /\ End(k - 1) <= frames[k].upto /\ frames[k].upto <= Len(out)
    /\ frames[k].block = Pieces(End(k - 1), frames[k].upto)
    /\ frames[k].headers = Tagged(frames[k].stream, HeadersOf(End(k - 1), frames[k].upto))
    /\ frames[k].block = << >> => frames[k].upto = End(k - 1)

FramesInv ==
    /\ frames \in Seq(FrameType)
    /\ \A k \in 1 .. Len(frames) : MadeSo(frames[k]) /\ Carries(k)
    /\ End(Len(frames)) <= Len(out)
    /\ block = Pieces(End(Len(frames)), Len(out))
    /\ opened = HeadersOf(End(Len(frames)), Len(out))

PeerInv == EncoderInv /\ FramesInv

\* The octets of the instructions are octets, and of each there are some.
LEMMA SpellingsType ==
    ASSUME EncoderInv
    PROVE  /\ Spellings \in Seq(Seq(Octet)) /\ Len(Spellings) = Len(out) /\ Len(out) \in Nat
           /\ \A k \in 1 .. Len(out) :
                 /\ Wireable(out[k]) /\ PlainlySpelled(out[k], Spellings[k])
                 /\ Spellings[k] \in Seq(Octet) /\ Spellings[k] # << >>
<1>1. out \in Seq(Instruction) /\ Len(out) \in Nat /\ \A k \in 1 .. Len(out) : Wireable(out[k])
    BY DEF EncoderInv
<1>2. ASSUME NEW instr, Wireable(instr)
      PROVE  LET piece == InstructionOctets(instr, PlainSpelling)
             IN  piece \in Seq(Octet) /\ piece # << >> /\ PlainlySpelled(instr, piece)
  <2> DEFINE piece == InstructionOctets(instr, PlainSpelling)
             p == IntOctets(FormOf(instr, PlainSpelling.unpushed), ValueOf(instr))
             rest == StringsOf(instr, PlainSpelling)
  <2>1. p \in Seq(Octet) /\ p # << >> /\ rest \in Seq(Octet) /\ piece = p \o rest
      BY <1>2, PlainIsSpelling, PieceIs
  <2>2. PlainlySpelled(instr, piece)
      BY DEF PlainlySpelled
  <2> HIDE DEF p, rest, piece
  <2>3. p \o rest \in Seq(Octet) /\ Len(p \o rest) = Len(p) + Len(rest) /\ Len(rest) \in Nat
      BY <2>1, ConcatType, Zenon
  <2>4. Len(p) \in Nat \ {0}
      BY <2>1, EmptySeq
  <2>5. Len(piece) # 0 /\ piece \in Seq(Octet)
      BY <2>1, <2>3, <2>4
  <2>6. piece # << >>
      BY <2>5, EmptySeq
  <2> QED  BY <2>2, <2>5, <2>6 DEF piece
<1>3. \A k \in 1 .. Len(out) : /\ PlainlySpelled(out[k], Spellings[k])
                               /\ Spellings[k] \in Seq(Octet) /\ Spellings[k] # << >>
    BY <1>1, <1>2 DEF Spellings
<1>4. Spellings \in Seq(Seq(Octet)) /\ Len(Spellings) = Len(out)
  <2>1. Spellings = [k \in 1 .. Len(out) |-> Spellings[k]]
      BY DEF Spellings
  <2> QED  BY <1>1, <1>3, <2>1
<1> QED  BY <1>1, <1>3, <1>4

\* The octets of a run are split anywhere.
LEMMA PiecesSplit ==
    ASSUME EncoderInv, NEW i \in 0 .. Len(out), NEW j \in i .. Len(out), NEW k \in j .. Len(out)
    PROVE  /\ Pieces(i, j) \in Seq(Octet) /\ Pieces(j, k) \in Seq(Octet)
           /\ Pieces(i, k) = Pieces(i, j) \o Pieces(j, k)
           /\ Pieces(i, i) = << >>
<1>1. /\ Spellings \in Seq(Seq(Octet)) /\ i \in Nat /\ j \in Nat
      /\ i \in i .. Len(Spellings) /\ j \in i .. Len(Spellings) /\ k \in j .. Len(Spellings)
    BY SpellingsType
<1>2. Pieces(i, k) = Pieces(i, j) \o Pieces(j, k)
    BY <1>1, FlatSplit DEF Pieces
<1>3. Pieces(i, j) \in Seq(Octet) /\ Pieces(j, k) \in Seq(Octet) /\ Pieces(i, i) = << >>
    BY <1>1, FlatType DEF Pieces
<1> QED  BY <1>2, <1>3

\* A run that is not empty begins with the octets of its first instruction.
LEMMA PiecesFirst ==
    ASSUME EncoderInv, NEW i \in 0 .. Len(out) - 1, NEW j \in i + 1 .. Len(out)
    PROVE  /\ Spellings[i + 1] \in Seq(Octet) /\ Pieces(i + 1, j) \in Seq(Octet)
           /\ Pieces(i, j) = Spellings[i + 1] \o Pieces(i + 1, j)
           /\ Pieces(i, j) # << >>
<1>1. /\ Spellings \in Seq(Seq(Octet)) /\ i \in Nat /\ i + 1 \in Nat
      /\ j \in i + 1 .. Len(Spellings) /\ i + 1 \in 1 .. Len(out)
    BY SpellingsType
<1>2. Spellings[i + 1] \in Seq(Octet) /\ Pieces(i, j) = Spellings[i + 1] \o Pieces(i + 1, j)
    BY <1>1, FlatFirst DEF Pieces
<1>3. Pieces(i + 1, j) \in Seq(Octet)
    BY <1>1, FlatType DEF Pieces
<1>4. Spellings[i + 1] # << >>
    BY <1>1, SpellingsType
<1> DEFINE p == Spellings[i + 1]
           rest == Pieces(i + 1, j)
<1>5. p \o rest # << >>
  <2>1. p \in Seq(Octet) /\ rest \in Seq(Octet) /\ p # << >>
      BY <1>2, <1>3, <1>4
  <2> HIDE DEF p, rest
  <2>2. Len(p \o rest) = Len(p) + Len(rest) /\ Len(rest) \in Nat /\ p \o rest \in Seq(Octet)
      BY <2>1, ConcatType, Zenon
  <2>3. Len(p) \in Nat \ {0}
      BY <2>1, EmptySeq
  <2>4. Len(p \o rest) # 0
      BY <2>2, <2>3
  <2> QED  BY <2>2, <2>4, EmptySeq
<1> QED  BY <1>2, <1>3, <1>5

\* So are its headers.
LEMMA HeadersSplit ==
    ASSUME EncoderInv, NEW i \in 0 .. Len(out), NEW j \in i .. Len(out), NEW k \in j .. Len(out)
    PROVE  /\ HeadersOf(i, j) \in Seq(Entry) /\ HeadersOf(j, k) \in Seq(Entry)
           /\ HeadersOf(i, k) = HeadersOf(i, j) \o HeadersOf(j, k)
           /\ HeadersOf(i, i) = << >>
<1> DEFINE a == moments[i + 1].count
           b == moments[j + 1].count
           c == moments[k + 1].count
<1>1. sent \in Seq(Entry)
    BY HeaderAssumption DEF EncoderInv
<1>2. /\ i + 1 \in 1 .. Len(moments) /\ j + 1 \in 1 .. Len(moments) /\ k + 1 \in 1 .. Len(moments)
      /\ Len(out) + 1 \in 1 .. Len(moments)
      /\ i + 1 <= j + 1 /\ j + 1 <= k + 1 /\ k + 1 <= Len(out) + 1
    BY DEF EncoderInv
<1>3. /\ moments[i + 1] \in MomentType /\ moments[j + 1] \in MomentType
      /\ moments[k + 1] \in MomentType
    BY <1>2, ElementOfSeq DEF EncoderInv
<1>4. a \in Nat /\ b \in Nat /\ c \in Nat
    BY <1>3 DEF MomentType
<1>5. a <= b /\ b <= c /\ c <= Len(sent)
    BY <1>2 DEF EncoderInv
<1>6. b \in a .. Len(sent) /\ c \in b .. Len(sent)
  <2> HIDE DEF a, b, c
  <2> QED  BY <1>1, <1>4, <1>5
<1> HIDE DEF a, b, c
<1>7. /\ SubSeq(sent, a + 1, c) = SubSeq(sent, a + 1, b) \o SubSeq(sent, b + 1, c)
      /\ SubSeq(sent, a + 1, b) \in Seq(Entry) /\ SubSeq(sent, b + 1, c) \in Seq(Entry)
      /\ SubSeq(sent, a + 1, a) = << >>
    BY <1>1, <1>4, <1>6, PartSplit
<1> QED  BY <1>7 DEF HeadersOf, a, b, c

\* A run only depends on its elements.
LEMMA FlatSame ==
    ASSUME NEW g, NEW h, NEW i \in Nat, NEW j \in Nat,
           \A n \in 1 .. j - i : g[i + n] = h[i + n]
    PROVE  Flat(g, i, j) = Flat(h, i, j)
<1>1. [n \in 1 .. j - i |-> g[i + n]] = [n \in 1 .. j - i |-> h[i + n]]
    OBVIOUS
<1> QED  BY <1>1, Zenon DEF Flat

\* The encoder adds an instruction, and a header or none.
LEMMA EncodeGrows ==
    ASSUME EncoderInv, Encode
    PROVE  /\ EncoderInv'
           /\ \E instr :
                /\ out' = Append(out, instr)
                /\ Spellings' = Append(Spellings, InstructionOctets(instr, PlainSpelling))
                /\ block' = block \o InstructionOctets(instr, PlainSpelling)
           /\ Len(sent') \in Nat /\ Len(sent) \in 0 .. Len(sent') /\ SubSeq(sent', 1, Len(sent)) = sent
           /\ Len(moments') = Len(moments) + 1
           /\ \A k \in 1 .. Len(moments) : moments'[k] = moments[k]
<1>1. PICK instr : Wrote(instr)
    BY FrameAssumption, EncoderWrote DEF EncoderInv, Encode
<1>2. /\ sent \in Seq(Header) /\ out \in Seq(Instruction) /\ moments \in Seq(MomentType)
      /\ Len(moments) = Len(out) + 1 /\ moments[Len(out) + 1].count = Len(sent)
    BY DEF EncoderInv
<1>3. Wireable(instr) /\ instr \in Instruction /\ out' = Append(out, instr)
      /\ sent' \in Seq(Header)
    BY <1>1 DEF Wrote, Wireable
<1>4. /\ Len(out) \in Nat /\ out' \in Seq(Instruction) /\ Len(out') = Len(out) + 1
      /\ out'[Len(out) + 1] = instr /\ \A k \in 1 .. Len(out) : out'[k] = out[k]
    BY <1>2, <1>3
<1>5. Last(out') = instr
    BY <1>4 DEF Last
<1>6. sent' = sent \/ \E h \in Header : sent' = Append(sent, h)
    BY DEF Encode, StdNext, StdEncode, StdIndexed, StdNamed, StdLiteral, StdResize, Write
<1>7. /\ Len(sent') \in Nat /\ Len(sent) \in 0 .. Len(sent')
      /\ \A k \in 1 .. Len(sent) : sent'[k] = sent[k]
    BY <1>2, <1>6
<1>8. SubSeq(sent', 1, Len(sent)) = sent
  <2>1. /\ SubSeq(sent', 1, Len(sent)) \in Seq(Header) /\ Len(SubSeq(sent', 1, Len(sent))) = Len(sent)
        /\ \A k \in 1 .. Len(sent) : SubSeq(sent', 1, Len(sent))[k] = sent'[k]
      BY <1>3, <1>7, BeginningIs
  <2> DEFINE s == SubSeq(sent', 1, Len(sent))
  <2> HIDE DEF s
  <2>2. s \in Seq(Header) /\ Len(s) = Len(sent) /\ \A k \in 1 .. Len(sent) : s[k] = sent[k]
      BY <1>7, <2>1 DEF s
  <2>3. s = sent
      BY <1>2, <2>2, SeqEqual
  <2> QED  BY <2>3 DEF s
<1> DEFINE m == [table |-> stdTable', count |-> Len(sent')]
           n == Len(out) + 1
<1>9. moments' = Append(moments, m) /\ m \in MomentType /\ m.count = Len(sent')
    BY <1>1, <1>7 DEF Encode, Wrote, MomentType
<1> HIDE DEF m
<1>10. /\ moments' \in Seq(MomentType) /\ Len(moments') = n + 1 /\ moments'[n + 1] = m
       /\ n \in Nat /\ Len(moments) = n
       /\ \A k \in 1 .. n : moments'[k] = moments[k]
  <2>1. n \in Nat /\ Len(moments) = n
      BY <1>2, <1>4
  <2> HIDE DEF n
  <2> QED  BY <1>2, <1>9, <2>1
<1>11. ASSUME NEW i \in 1 .. Len(moments'), NEW j \in 1 .. Len(moments'), i <= j
       PROVE  moments'[i].count <= moments'[j].count
  <2> HIDE DEF n
  <2>1. CASE j \in 1 .. n
    <3>1. i \in 1 .. n
        BY <1>10, <1>11, <2>1
    <3> QED  BY <1>10, <1>11, <2>1, <3>1 DEF EncoderInv
  <2>2. CASE j = n + 1 /\ i = n + 1
    <3>1. moments'[i].count = Len(sent')
        BY <1>9, <1>10, <2>2
    <3> QED  BY <1>7, <2>2, <3>1
  <2>3. CASE j = n + 1 /\ i \in 1 .. n
    <3>1. n \in 1 .. n /\ i <= n
        BY <1>10, <2>3 DEF n
    <3>2. moments[i].count <= moments[n].count
        BY <1>10, <2>3, <3>1 DEF EncoderInv
    <3>3. moments[n].count = Len(sent)
        BY <1>2 DEF n
    <3>4. moments'[i].count = moments[i].count /\ moments'[j].count = Len(sent')
        BY <1>9, <1>10, <2>3
    <3>5. moments[i].count \in Nat
      <4>1. moments[i] \in MomentType
          BY <1>2, <1>10, <2>3, ElementOfSeq
      <4> QED  BY <4>1 DEF MomentType
    <3> QED  BY <1>7, <3>2, <3>3, <3>4, <3>5
  <2>4. j \in 1 .. n \/ j = n + 1
      BY <1>10
  <2>5. i \in 1 .. n \/ i = n + 1
      BY <1>10
  <2>6. ~ (i = n + 1 /\ j \in 1 .. n)
      BY <1>10, <1>11
  <2> QED  BY <2>1, <2>2, <2>3, <2>4, <2>5, <2>6
<1>12. \A k \in 1 .. Len(out') : Wireable(out'[k])
  <2> SUFFICES ASSUME NEW k \in 1 .. Len(out')  PROVE Wireable(out'[k])
      OBVIOUS
  <2>1. k \in 1 .. Len(out) \/ k = Len(out) + 1
      BY <1>4
  <2> QED  BY <1>3, <1>4, <2>1 DEF EncoderInv
<1>13. EncoderInv'
  <2>1. moments'[Len(out') + 1].count = Len(sent') /\ Len(moments') = Len(out') + 1
      BY <1>4, <1>9, <1>10
  <2>2. /\ stdTable' \in Seq(Entry) /\ stdMax' \in 0 .. SizeLimit /\ Bytes(stdTable') <= stdMax'
      BY <1>1 DEF Wrote
  <2>3. \A k \in 1 .. Len(out') : Wireable(out[k])'
      BY <1>12 DEF Wireable
  <2> QED  BY <1>3, <1>4, <1>10, <1>11, <2>1, <2>2, <2>3 DEF EncoderInv
<1>14. Spellings' = Append(Spellings, InstructionOctets(instr, PlainSpelling))
  <2> DEFINE piece == InstructionOctets(instr, PlainSpelling)
             row(k) == InstructionOctets(out'[k], PlainSpelling)
             s == [k \in 1 .. Len(out') |-> row(k)]
             t == Append(Spellings, piece)
  <2>1. Spellings' = s
      BY DEF Spellings
  <2>2. Spellings \in Seq({piece} \cup Seq(Octet)) /\ Len(Spellings) = Len(out)
    <3>1. Spellings \in Seq(Seq(Octet)) /\ Len(Spellings) = Len(out)
        BY SpellingsType
    <3> HIDE DEF piece
    <3> QED  BY <3>1
  <2>3. \A k \in 1 .. Len(out) : Spellings[k] = row(k)
      BY <1>4 DEF Spellings
  <2>4. row(Len(out) + 1) = piece
      BY <1>4
  <2> HIDE DEF piece, row
  <2>5. /\ t \in Seq({piece} \cup Seq(Octet)) /\ Len(t) = Len(out) + 1
        /\ t[Len(out) + 1] = piece /\ \A k \in 1 .. Len(out) : t[k] = row(k)
      BY <2>2, <2>3
  <2>6. \A k \in 1 .. Len(out) + 1 : t[k] = row(k)
    <3> SUFFICES ASSUME NEW k \in 1 .. Len(out) + 1  PROVE t[k] = row(k)
        OBVIOUS
    <3>1. k \in 1 .. Len(out) \/ k = Len(out) + 1
        BY <1>4
    <3> QED  BY <2>4, <2>5, <3>1
  <2> HIDE DEF t
  <2>7. t = [k \in 1 .. Len(t) |-> t[k]]
      BY <2>5
  <2>8. t = s
      BY <1>4, <2>5, <2>6, <2>7
  <2> QED  BY <2>1, <2>8 DEF piece, t
<1>15. block' = block \o InstructionOctets(instr, PlainSpelling)
    BY <1>5 DEF Encode
<1>16. Len(moments') = Len(moments) + 1 /\ \A k \in 1 .. Len(moments) : moments'[k] = moments[k]
    BY <1>10
<1> QED  BY <1>3, <1>7, <1>8, <1>13, <1>14, <1>15, <1>16

\* Where blocks end.
LEMMA EndType ==
    ASSUME EncoderInv, FramesInv
    PROVE  /\ Len(frames) \in Nat
           /\ \A k \in 0 .. Len(frames) : End(k) \in 0 .. Len(out)
           /\ \A k \in 1 .. Len(frames) :
                 /\ k - 1 \in 0 .. Len(frames) /\ frames[k] \in FrameType
                 /\ End(k) = frames[k].upto /\ End(k) \in End(k - 1) .. Len(out)
<1>1. /\ frames \in Seq(FrameType) /\ Len(frames) \in Nat /\ Len(out) \in Nat
      /\ \A k \in 1 .. Len(frames) : Carries(k)
    BY SpellingsType DEF FramesInv
<1>2. ASSUME NEW k \in 1 .. Len(frames)
      PROVE  /\ k - 1 \in 0 .. Len(frames) /\ frames[k] \in FrameType
             /\ End(k) = frames[k].upto /\ End(k) \in 0 .. Len(out)
             /\ End(k - 1) <= End(k)
  <2>1. frames[k] \in FrameType
      BY <1>1, ElementOfSeq
  <2>2. frames[k].upto \in Nat /\ frames[k].upto <= Len(out) /\ End(k - 1) <= frames[k].upto
      BY <1>1, <2>1 DEF Carries, FrameType
  <2>3. End(k) = frames[k].upto
      BY DEF End
  <2> QED  BY <1>1, <2>1, <2>2, <2>3
<1>3. ASSUME NEW k \in 0 .. Len(frames)  PROVE End(k) \in 0 .. Len(out)
  <2>1. k = 0 \/ k \in 1 .. Len(frames)
      BY <1>1
  <2>2. End(0) = 0
      BY DEF End
  <2> QED  BY <1>1, <1>2, <2>1, <2>2
<1>4. \A k \in 1 .. Len(frames) : End(k) \in End(k - 1) .. Len(out)
  <2> SUFFICES ASSUME NEW k \in 1 .. Len(frames)  PROVE End(k) \in End(k - 1) .. Len(out)
      OBVIOUS
  <2>1. End(k) \in 0 .. Len(out) /\ End(k - 1) <= End(k) /\ End(k - 1) \in 0 .. Len(out)
      BY <1>2, <1>3
  <2> QED  BY <2>1
<1> QED  BY <1>1, <1>2, <1>3, <1>4

\* What has been encoded stays what it was.
LEMMA EncodeKeeps ==
    ASSUME PeerInv, Encode
    PROVE  PeerInv'
<1>1. EncoderInv /\ FramesInv
    BY DEF PeerInv
<1>2. /\ EncoderInv'
      /\ Len(sent') \in Nat /\ Len(sent) \in 0 .. Len(sent') /\ SubSeq(sent', 1, Len(sent)) = sent
      /\ \A k \in 1 .. Len(moments) : moments'[k] = moments[k]
    BY <1>1, EncodeGrows
<1>3. PICK instr : /\ out' = Append(out, instr)
                   /\ Spellings' = Append(Spellings, InstructionOctets(instr, PlainSpelling))
                   /\ block' = block \o InstructionOctets(instr, PlainSpelling)
    BY <1>1, EncodeGrows
<1> DEFINE piece == InstructionOctets(instr, PlainSpelling)
           n == Len(out)
           e == End(Len(frames))
<1>4. /\ n \in Nat /\ Len(out') = n + 1
      /\ Spellings \in Seq(Seq(Octet)) /\ Len(Spellings) = n
      /\ Spellings' \in Seq(Seq(Octet)) /\ Len(Spellings') = n + 1
      /\ Spellings'[n + 1] = piece
      /\ \A k \in 1 .. n : Spellings'[k] = Spellings[k]
  <2>1. n \in Nat /\ Spellings \in Seq(Seq(Octet)) /\ Len(Spellings) = n
      BY <1>1, SpellingsType
  <2>2. out \in Seq(Instruction)
      BY <1>1 DEF EncoderInv
  <2>3. Wireable(instr)
    <3>1. \A k \in 1 .. Len(out') : Wireable(out[k])'
        BY <1>2 DEF EncoderInv
    <3>2. n + 1 \in 1 .. Len(out') /\ out'[n + 1] = instr
        BY <1>3, <2>1, <2>2
    <3>4. \A k \in 1 .. Len(out') : Wireable(out'[k])
        BY <3>1 DEF Wireable
    <3> QED  BY <3>2, <3>4
  <2>4. piece \in Seq(Octet)
    <3>1. piece = IntOctets(FormOf(instr, PlainSpelling.unpushed), ValueOf(instr))
                      \o StringsOf(instr, PlainSpelling)
          /\ IntOctets(FormOf(instr, PlainSpelling.unpushed), ValueOf(instr)) \in Seq(Octet)
          /\ StringsOf(instr, PlainSpelling) \in Seq(Octet)
        BY <2>3, PlainIsSpelling, PieceIs
    <3> QED  BY <3>1, ConcatType, Zenon
  <2> HIDE DEF piece, n
  <2>5. Spellings' = Append(Spellings, piece)
      BY <1>3 DEF piece
  <2>6. /\ Spellings' \in Seq(Seq(Octet)) /\ Len(Spellings') = n + 1
        /\ Spellings'[n + 1] = piece
        /\ \A k \in 1 .. n : Spellings'[k] = Spellings[k]
      BY <2>1, <2>4, <2>5
  <2>7. Len(out') = n + 1
      BY <1>3, <2>2 DEF n
  <2> QED  BY <2>1, <2>6, <2>7
<1>5. frames' = frames /\ \A k : End(k)' = End(k)
    BY DEF Encode, End
<1>6. /\ e \in 0 .. n /\ Len(frames) \in Nat
      /\ \A k \in 1 .. Len(frames) : End(k - 1) \in 0 .. n /\ frames[k].upto \in End(k - 1) .. n
    BY <1>1, EndType
<1> HIDE DEF e
<1>7. ASSUME NEW i \in 0 .. n, NEW j \in 0 .. n
      PROVE  Pieces(i, j)' = Pieces(i, j)
  <2>1. \A m \in 1 .. j - i : i + m \in 1 .. n
      BY <1>4
  <2>2. \A m \in 1 .. j - i : Spellings'[i + m] = Spellings[i + m]
      BY <1>4, <2>1
  <2>3. i \in Nat /\ j \in Nat
      BY <1>4
  <2> HIDE DEF n
  <2>4. Flat(Spellings', i, j) = Flat(Spellings, i, j)
      BY <2>2, <2>3, FlatSame
  <2>5. Pieces(i, j)' = Flat(Spellings', i, j)
      BY DEF Pieces, Flat
  <2> QED  BY <2>4, <2>5 DEF Pieces
<1>8. ASSUME NEW i \in 0 .. n, NEW j \in 0 .. n
      PROVE  HeadersOf(i, j)' = HeadersOf(i, j)
  <2> DEFINE a == moments[i + 1].count
             b == moments[j + 1].count
  <2>1. /\ i + 1 \in 1 .. Len(moments) /\ j + 1 \in 1 .. Len(moments)
        /\ moments \in Seq(MomentType) /\ n + 1 \in 1 .. Len(moments) /\ j + 1 <= n + 1
      BY <1>1, <1>4 DEF EncoderInv
  <2>2. moments'[i + 1].count = a /\ moments'[j + 1].count = b
      BY <1>2, <2>1
  <2>3. moments[i + 1] \in MomentType /\ moments[j + 1] \in MomentType
      BY <2>1, ElementOfSeq
  <2>4. a \in Nat /\ b \in Nat /\ b <= Len(sent)
      BY <1>1, <2>1, <2>3 DEF MomentType, EncoderInv
  <2>5. sent \in Seq(Header) /\ sent' \in Seq(Header)
      BY <1>1, <1>2 DEF EncoderInv
  <2> HIDE DEF a, b
  <2>6. SubSeq(sent', a + 1, b) = SubSeq(sent, a + 1, b)
    <3>1. \A k \in 1 .. Len(sent) : sent'[k] = sent[k]
      <4>1. \A k \in 1 .. Len(sent) : SubSeq(sent', 1, Len(sent))[k] = sent'[k]
          BY <1>2, <2>5, BeginningIs
      <4> QED  BY <1>2, <4>1
    <3>2. \A k \in a + 1 .. b : k \in 1 .. Len(sent)
        BY <2>4, <2>5
    <3>3. \A k \in 1 .. b - a : a + k \in a + 1 .. b
        BY <2>4
    <3> DEFINE s == SubSeq(sent', a + 1, b)
               t == SubSeq(sent, a + 1, b)
    <3>4. CASE a <= b
      <4>1. t \in Seq(Header) /\ Len(t) = b - a /\ \A k \in 1 .. b - a : t[k] = sent[a + k]
        <5>1. \A k \in a + 1 .. b : sent[k] \in Header
            BY <2>5, <3>2
        <5> QED  BY <2>4, <2>5, <3>4, <5>1
      <4>2. s \in Seq(Header) /\ Len(s) = b - a /\ \A k \in 1 .. b - a : s[k] = sent'[a + k]
        <5>1. \A k \in a + 1 .. b : sent'[k] \in Header
            BY <2>5, <3>1, <3>2
        <5>2. b <= Len(sent')
            BY <1>2, <2>4
        <5> QED  BY <2>4, <2>5, <3>4, <5>1, <5>2
      <4> HIDE DEF s, t
      <4>3. \A k \in 1 .. b - a : s[k] = t[k]
          BY <3>1, <3>2, <3>3, <4>1, <4>2
      <4>4. s = t
          BY <4>1, <4>2, <4>3, SeqEqual
      <4> QED  BY <4>4 DEF s, t
    <3>5. CASE ~ (a <= b)
      <4>1. s = << >> /\ t = << >>
          BY <2>4, <2>5, <3>5
      <4> QED  BY <4>1
    <3> QED  BY <3>4, <3>5
  <2> QED  BY <2>2, <2>6 DEF HeadersOf, a, b
<1> HIDE DEF n
<1>9. ASSUME NEW k \in 1 .. Len(frames)  PROVE (MadeSo(frames[k]) /\ Carries(k))'
  <2> DEFINE i == End(k - 1)
             j == frames[k].upto
  <2>1. i \in 0 .. n /\ j \in 0 .. n
      BY <1>4, <1>6
  <2>2. MadeSo(frames[k]) /\ Carries(k)
      BY <1>1 DEF FramesInv
  <2>3. MadeSo(frames[k])'
    <3>1. frames'[k] = frames[k]
        BY <1>5
    <3>2. MadeSo(frames'[k]) => MadeSo(frames[k])'
        BY Zenon DEF MadeSo, Made
    <3> QED  BY <2>2, <3>1, <3>2, Zenon
  <2>4. Pieces(i, j)' = Pieces(i, j) /\ HeadersOf(i, j)' = HeadersOf(i, j)
    <3> HIDE DEF i, j
    <3>1. \A x, y \in 0 .. n : Pieces(x, y)' = Pieces(x, y) /\ HeadersOf(x, y)' = HeadersOf(x, y)
        BY <1>7, <1>8
    <3>2. i' = i /\ j' = j
        BY <1>5 DEF i, j
    <3>3. Pieces(i, j)' = Flat(Spellings', i, j)
        BY <3>2 DEF Pieces, Flat
    <3>4. HeadersOf(i, j)' = SubSeq(sent', moments'[i + 1].count + 1, moments'[j + 1].count)
        BY <3>2 DEF HeadersOf
    <3>5. PICK x \in 0 .. n, y \in 0 .. n : x = i /\ y = j
        BY <2>1
    <3>6. Pieces(x, y)' = Flat(Spellings', x, y)
        BY DEF Pieces, Flat
    <3>7. HeadersOf(x, y)' = SubSeq(sent', moments'[x + 1].count + 1, moments'[y + 1].count)
        BY DEF HeadersOf
    <3> QED  BY <3>1, <3>3, <3>4, <3>5, <3>6, <3>7
  <2>5. Carries(k)'
    <3>1. /\ frames'[k] = frames[k] /\ End(k - 1)' = End(k - 1)
          /\ Len(out) <= Len(out') /\ j <= Len(out)
        BY <1>4, <1>5, <2>1 DEF n
    <3>2. /\ Pieces(End(k - 1), frames[k].upto)' = Pieces(End(k - 1), frames[k].upto)
          /\ HeadersOf(End(k - 1), frames[k].upto)' = HeadersOf(End(k - 1), frames[k].upto)
        BY <2>4
    <3>3. Tagged(frames[k].stream, HeadersOf(End(k - 1), frames[k].upto))'
              = Tagged(frames[k].stream, HeadersOf(End(k - 1), frames[k].upto))
        BY <3>1, <3>2 DEF Tagged
    <3>4. /\ frames[k].block = Pieces(End(k - 1), frames[k].upto)
          /\ frames[k].headers = Tagged(frames[k].stream, HeadersOf(End(k - 1), frames[k].upto))
          /\ End(k - 1) <= frames[k].upto
          /\ frames[k].block = << >> => frames[k].upto = End(k - 1)
        BY <2>2 DEF Carries
    <3>5. frames[k].upto <= Len(out')
      <4>1. j \in 0 .. n /\ n \in Nat /\ Len(out') = n + 1
          BY <1>4, <2>1
      <4> QED  BY <4>1
    <3> QED  BY <3>1, <3>2, <3>3, <3>4, <3>5 DEF Carries
  <2> QED  BY <2>3, <2>5
<1>10. e' = e /\ e \in 0 .. n /\ n \in 0 .. n /\ n \in e .. n /\ n + 1 \in Nat
    BY <1>4, <1>5, <1>6 DEF e
<1>11. block' = Pieces(End(Len(frames)), Len(out))'
  <2>1. block = Pieces(e, n)
      BY <1>1 DEF FramesInv, e, n
  <2>2. Flat(Spellings', e, n) = Flat(Spellings, e, n)
    <3>1. \A m \in 1 .. n - e : e + m \in 1 .. n
        BY <1>10
    <3>2. \A m \in 1 .. n - e : Spellings'[e + m] = Spellings[e + m]
        BY <1>4, <3>1
    <3>3. e \in Nat /\ n \in Nat
        BY <1>10
    <3> QED  BY <3>2, <3>3, FlatSame
  <2>3. Flat(Spellings', e, n + 1) = Flat(Spellings', e, n) \o piece
    <3>1. e \in Nat /\ n \in e .. Len(Spellings') - 1
        BY <1>4, <1>10
    <3> HIDE DEF piece
    <3>2. Spellings' \in Seq(Seq(Octet)) /\ Spellings'[n + 1] = piece
        BY <1>4
    <3> QED  BY <3>1, <3>2, FlatLast
  <2>4. block' = Flat(Spellings', e, n + 1)
      BY <1>3, <2>1, <2>2, <2>3 DEF Pieces
  <2>5. Pieces(End(Len(frames)), Len(out))' = Flat(Spellings', e, n + 1)
      BY <1>4, <1>5, <1>10 DEF Pieces, Flat, e
  <2> QED  BY <2>4, <2>5
<1>12. opened' = HeadersOf(End(Len(frames)), Len(out))'
  <2> DEFINE a == moments[e + 1].count
             l == Len(sent)
  <2>1. /\ opened = SubSeq(sent, a + 1, moments[n + 1].count)
        /\ moments[n + 1].count = l
      BY <1>1 DEF FramesInv, EncoderInv, HeadersOf, e, n
  <2>2. /\ e + 1 \in 1 .. Len(moments) /\ e + 1 <= n + 1 /\ n + 1 \in 1 .. Len(moments)
        /\ moments \in Seq(MomentType)
      BY <1>1, <1>4, <1>10 DEF EncoderInv, n
  <2>3. moments[e + 1] \in MomentType /\ moments'[e + 1].count = a
      BY <1>2, <2>2, ElementOfSeq
  <2>4. a \in Nat /\ a <= l /\ l \in Nat
    <3>1. a \in Nat
        BY <2>3 DEF MomentType
    <3>2. a <= moments[n + 1].count
        BY <1>1, <2>2 DEF EncoderInv
    <3>3. l \in Nat
        BY <1>2
    <3> HIDE DEF a, l
    <3> QED  BY <2>1, <3>1, <3>2, <3>3
  <2>5. moments'[(n + 1) + 1].count = Len(sent')
      BY <1>2, <1>4 DEF EncoderInv
  <2>6. sent' \in Seq(Header) /\ l \in a .. Len(sent') /\ Len(sent') \in l .. Len(sent')
      BY <1>2, <2>4 DEF EncoderInv
  <2> HIDE DEF a, l
  <2>7. SubSeq(sent', a + 1, Len(sent')) = SubSeq(sent', a + 1, l) \o SubSeq(sent', l + 1, Len(sent'))
      BY <2>4, <2>6, PartSplit, ZenonT(60)
  <2>8. SubSeq(sent', a + 1, l) = SubSeq(sent, a + 1, l)
    <3>1. PICK x \in 0 .. n, y \in 0 .. n : x = e /\ y = n
        BY <1>10
    <3>2. HeadersOf(x, y)' = HeadersOf(x, y)
        BY <1>8
    <3>3. SubSeq(sent', moments'[x + 1].count + 1, moments'[y + 1].count)
              = SubSeq(sent, moments[x + 1].count + 1, moments[y + 1].count)
        BY <3>2 DEF HeadersOf
    <3>4. moments'[n + 1].count = l
        BY <1>2, <2>1, <2>2
    <3>5. SubSeq(sent', moments'[e + 1].count + 1, moments'[n + 1].count)
              = SubSeq(sent, moments[e + 1].count + 1, moments[n + 1].count)
        BY <3>1, <3>3
    <3> QED  BY <2>1, <2>3, <3>4, <3>5 DEF a
  <2>9. opened' = opened \o SubSeq(sent', l + 1, Len(sent'))
      BY DEF Encode, l
  <2>10. HeadersOf(End(Len(frames)), Len(out))'
             = SubSeq(sent', moments'[e + 1].count + 1, moments'[(n + 1) + 1].count)
    <3>1. (End(Len(frames)))' = e
        BY <1>5 DEF e
    <3> QED  BY <1>4, <3>1 DEF HeadersOf
  <2>11. opened' = SubSeq(sent', a + 1, Len(sent'))
    <3>1. opened = SubSeq(sent, a + 1, l)
        BY <2>1 DEF a
    <3> QED  BY <2>7, <2>8, <2>9, <3>1
  <2> QED  BY <2>3, <2>5, <2>10, <2>11
<1>13. (End(Len(frames)) <= Len(out))'
  <2>1. (End(Len(frames)))' = e
      BY <1>5 DEF e
  <2>2. e <= Len(out')
      BY <1>4, <1>10
  <2> QED  BY <2>1, <2>2
<1>14. FramesInv'
  <2>1. frames' \in Seq(FrameType)
      BY <1>1, <1>5 DEF FramesInv
  <2>2. \A k \in 1 .. Len(frames') : (MadeSo(frames[k]) /\ Carries(k))'
      BY <1>5, <1>9
  <2> QED  BY <1>11, <1>12, <1>13, <2>1, <2>2 DEF FramesInv
<1> QED  BY <1>2, <1>14 DEF PeerInv

\* Without octets there is no instruction, hence no header.
LEMMA NoBlock ==
    ASSUME PeerInv, block = << >>
    PROVE  End(Len(frames)) = Len(out) /\ opened = << >>
<1>1. EncoderInv /\ FramesInv
    BY DEF PeerInv
<1> DEFINE e == End(Len(frames))
           n == Len(out)
<1>2. e \in 0 .. n /\ n \in Nat
    BY <1>1, EndType, SpellingsType
<1>3. Pieces(e, n) = << >> /\ opened = HeadersOf(e, n)
    BY <1>1 DEF FramesInv
<1> HIDE DEF e
<1>4. e = n
  <2> SUFFICES ASSUME e # n  PROVE FALSE
      OBVIOUS
  <2>1. e \in 0 .. Len(out) - 1 /\ n \in e + 1 .. Len(out)
      BY <1>2
  <2>2. Pieces(e, n) # << >>
      BY <1>1, <2>1, PiecesFirst
  <2> QED  BY <1>3, <2>2
<1>5. HeadersOf(e, e) = << >>
  <2>1. e \in 0 .. Len(out) /\ e \in e .. Len(out)
      BY <1>2
  <2> QED  BY <1>1, <2>1, HeadersSplit
<1> QED  BY <1>3, <1>4, <1>5 DEF e

\* A frame takes with it the block that was encoded.
LEMMA SendKeeps ==
    ASSUME PeerInv, NEW octets \in Seq(Octet), NEW stream \in Nat, NEW odd \in BOOLEAN,
           stream \in Stream \/ block = << >>,
           NEW f, f = [octets |-> octets, block |-> block, odd |-> odd, stream |-> stream,
                       headers |-> Tagged(stream, opened), upto |-> Len(out)],
           MadeSo(f), frames' = Append(frames, f),
           UNCHANGED << stdVars, moments >>, block' = << >>, opened' = << >>
    PROVE  PeerInv'
<1>1. EncoderInv /\ FramesInv
    BY DEF PeerInv
<1> DEFINE e == End(Len(frames))
           n == Len(out)
           N == Len(frames)
<1>2. /\ e \in 0 .. n /\ n \in Nat /\ N \in Nat
      /\ block = Pieces(e, n) /\ opened = HeadersOf(e, n)
      /\ frames \in Seq(FrameType)
    BY <1>1, EndType, SpellingsType DEF FramesInv
<1>3. UNCHANGED << sent, out, stdTable, stdMax, moments >>
    BY DEF stdVars
<1>4. e \in 0 .. Len(out) /\ n \in e .. Len(out) /\ n \in n .. Len(out) /\ n \in 0 .. Len(out)
    BY <1>2
<1>5. /\ block \in Seq(Octet) /\ opened \in Seq(Entry)
      /\ Pieces(n, n) = << >> /\ HeadersOf(n, n) = << >>
  <2> HIDE DEF e, n
  <2>1. n \in 0 .. Len(out) /\ n \in n .. Len(out) /\ e \in 0 .. Len(out) /\ n \in e .. Len(out)
      BY <1>4 DEF n
  <2> QED  BY <1>1, <1>2, <2>1, PiecesSplit, HeadersSplit
<1>6. EncoderInv'
    BY <1>1, <1>3 DEF EncoderInv, Bytes, Ledger, EntrySize, Wireable
<1>7. Tagged(stream, opened) \in Seq(Line)
  <2>1. CASE stream \in Stream
      BY <1>5, <2>1, TaggedType DEF Line
  <2>2. CASE block = << >>
    <3>1. Tagged(stream, opened) = << >>
        BY <2>2, NoBlock, TaggedNone
    <3> QED  BY <3>1
  <2> QED  BY <2>1, <2>2
<1>8. f \in FrameType
    BY <1>2, <1>5, <1>7 DEF FrameType
<1>9. /\ frames' \in Seq(FrameType) /\ Len(frames') = N + 1
      /\ frames'[N + 1] = f /\ \A k \in 1 .. N : frames'[k] = frames[k]
  <2> HIDE DEF N
  <2>1. N = Len(frames)
      BY DEF N
  <2> QED  BY <1>2, <1>8, <2>1
<1>10. ASSUME NEW k \in 0 .. N  PROVE End(k)' = End(k)
  <2>1. k = 0 \/ k \in 1 .. N
      BY <1>2
  <2> QED  BY <1>9, <2>1 DEF End
<1>11. Spellings' = Spellings
    BY <1>3 DEF Spellings
<1>12. ASSUME NEW k \in 1 .. N  PROVE (MadeSo(frames[k]) /\ Carries(k))'
  <2>1. frames'[k] = frames[k] /\ k - 1 \in 0 .. N
      BY <1>2, <1>9
  <2>2. MadeSo(frames'[k]) => MadeSo(frames[k])'
      BY Zenon DEF MadeSo, Made
  <2>3. MadeSo(frames[k]) /\ Carries(k)
      BY <1>1 DEF FramesInv
  <2>4. MadeSo(frames[k])'
      BY <2>1, <2>2, <2>3, Zenon
  <2>5. /\ End(k - 1)' = End(k - 1) /\ Len(out') = Len(out)
      BY <1>3, <1>10, <2>1
  <2>6. /\ Pieces(End(k - 1), frames[k].upto)' = Pieces(End(k - 1), frames[k].upto)
        /\ HeadersOf(End(k - 1), frames[k].upto)' = HeadersOf(End(k - 1), frames[k].upto)
    <3>1. frames[k].upto' = frames[k].upto
        BY <2>1
    <3> QED  BY <1>3, <1>11, <2>5, <3>1 DEF Pieces, HeadersOf, Flat
  <2>7. Tagged(frames[k].stream, HeadersOf(End(k - 1), frames[k].upto))'
            = Tagged(frames[k].stream, HeadersOf(End(k - 1), frames[k].upto))
      BY <2>1, <2>6 DEF Tagged
  <2>8. Carries(k)'
      BY <2>1, <2>3, <2>5, <2>6, <2>7 DEF Carries
  <2> QED  BY <2>4, <2>8
<1>13. ASSUME NEW k, k = N + 1  PROVE (MadeSo(frames[k]) /\ Carries(k))'
  <2> DEFINE m == N + 1
  <2>1. frames'[m] = f /\ m - 1 = N
      BY <1>2, <1>9
  <2>2. \A j : MadeSo(frames'[j]) => MadeSo(frames[j])'
      BY Zenon DEF MadeSo, Made
  <2>3. k = m
      BY <1>13
  <2>4. MadeSo(frames[k])'
      BY <2>1, <2>2, <2>3, Zenon
  <2>5. PICK l \in 0 .. N : l = N
      BY <1>2, SMTT(40)
  <2>6. End(k - 1)' = e
    <3>1. End(l)' = End(l)
        BY <1>10
    <3> QED  BY <2>1, <2>3, <2>5, <3>1, Zenon DEF End
  <2>7. /\ frames[k].upto' = n /\ frames[k].block' = block /\ frames[k].stream' = stream
        /\ frames[k].headers' = Tagged(stream, opened)
      BY <2>1, <2>3
  <2>8. Pieces(End(k - 1), frames[k].upto)' = block
        /\ HeadersOf(End(k - 1), frames[k].upto)' = opened
    <3>1. /\ Pieces(End(k - 1), frames[k].upto)' = Pieces(e, n)
          /\ HeadersOf(End(k - 1), frames[k].upto)' = HeadersOf(e, n)
        BY <1>3, <1>11, <2>6, <2>7 DEF Pieces, HeadersOf, Flat
    <3> QED  BY <1>2, <3>1
  <2>9. Tagged(frames[k].stream, HeadersOf(End(k - 1), frames[k].upto))' = Tagged(stream, opened)
      BY <2>7, <2>8 DEF Tagged
  <2>10. block = << >> => n = e
      BY NoBlock
  <2>11. Carries(k)'
    <3>1. e <= n /\ n <= n /\ Len(out') = n
        BY <1>2, <1>3
    <3> QED  BY <2>6, <2>7, <2>8, <2>9, <2>10, <3>1 DEF Carries
  <2> QED  BY <2>4, <2>11
<1>14. FramesInv'
  <2>1. ASSUME NEW k \in 1 .. Len(frames')  PROVE (MadeSo(frames[k]) /\ Carries(k))'
    <3>1. k \in 1 .. N \/ k = N + 1
        BY <1>2, <1>9
    <3>2. CASE k = N + 1
        BY <1>13, <3>2
    <3> QED  BY <1>12, <3>1, <3>2
  <2>2. (End(Len(frames)))' = n
    <3>1. Len(frames') # 0 /\ frames'[Len(frames')].upto = n
        BY <1>2, <1>9
    <3> QED  BY <3>1 DEF End
  <2>3. /\ Pieces(End(Len(frames)), Len(out))' = Pieces(n, n)
        /\ HeadersOf(End(Len(frames)), Len(out))' = HeadersOf(n, n)
      BY <1>3, <1>11, <2>2 DEF Pieces, HeadersOf, Flat
  <2>4. (End(Len(frames)) <= Len(out))'
      BY <1>2, <1>3, <2>2
  <2> QED  BY <1>5, <1>9, <2>1, <2>3, <2>4 DEF FramesInv
<1> QED  BY <1>6, <1>14 DEF PeerInv

\* The first nine octets of a frame.
LEMMA FrameHeadType ==
    ASSUME NEW size \in 0 .. Shift8 * Shift8 * Shift8 - 1, NEW type \in Octet, NEW flags \in Octet,
           NEW stream \in 0 .. Shift8 * Shift8 * Shift8 * Shift8 - 1
    PROVE  /\ FrameHead(size, type, flags, stream) \in Seq(Octet)
           /\ Len(FrameHead(size, type, flags, stream)) = 9
<1> DEFINE a == U24(size)
           b == << type, flags >>
           c == U32(stream)
           x == a \o b
<1>1. << >> \in Seq(Octet)
    OBVIOUS
<1>2. a \in Seq(Octet) /\ Len(a) = 3
    BY <1>1, ReadOfU24
<1>3. c \in Seq(Octet) /\ Len(c) = 4
    BY <1>1, ReadOfU32
<1>4. b \in Seq(Octet) /\ Len(b) = 2
    OBVIOUS
<1> HIDE DEF a, b, c
<1>5. x \in Seq(Octet) /\ Len(x) = Len(a) + Len(b)
    BY <1>2, <1>4, ConcatType, Zenon
<1> HIDE DEF x
<1>6. x \o c \in Seq(Octet) /\ Len(x \o c) = Len(x) + Len(c)
    BY <1>3, <1>5, ConcatType, Zenon
<1>7. Len(x \o c) = 9
  <2> DEFINE k == Len(x \o c)
  <2> HIDE DEF k
  <2>1. k = Len(x) + Len(c)
      BY <1>6 DEF k
  <2>2. k = 9
      BY <1>2, <1>3, <1>4, <1>5, <2>1
  <2> QED  BY <2>2 DEF k
<1>8. FrameHead(size, type, flags, stream) = x \o c
    BY Zenon DEF FrameHead, a, b, c, x
<1> QED  BY <1>6, <1>7, <1>8

\* A frame is as long as its payload says, however long that is.
LEMMA FrameLength ==
    ASSUME NEW type \in Octet, NEW flags \in Octet, NEW stream \in Nat, NEW payload \in Seq(Octet),
           NEW extra \in Seq(Nat)
    PROVE  /\ Len(Frame(type, flags, stream, payload) \o extra) = 9 + Len(payload) + Len(extra)
           /\ Frame(type, flags, stream, payload) \in Seq(Nat)
           /\ Len(payload) \in Nat /\ Len(extra) \in Nat
<1>1. Octet \subseteq Nat /\ Shift8 \in Nat \ {0} /\ Shift8 * Shift8 \in Nat \ {0}
    BY ShiftType
<1>2. ASSUME NEW v \in Nat, NEW u \in Nat \ {0}  PROVE v \div u \in Nat /\ v % u \in Nat
  <2>1. v \div u \in Nat
      BY DivZero
  <2>2. v \in Int /\ v % u \in 0 .. u - 1
      BY ModFacts
  <2> QED  BY <2>1, <2>2
<1>3. ASSUME NEW v \in Nat  PROVE U16(v) \in Seq(Nat) /\ Len(U16(v)) = 2
  <2>1. v \div Shift8 \in Nat /\ v % Shift8 \in Nat
      BY <1>1, <1>2
  <2> DEFINE x == v \div Shift8
             y == v % Shift8
  <2> HIDE DEF x, y
  <2>2. << x, y >> \in Seq(Nat) /\ Len(<< x, y >>) = 2
      BY <2>1 DEF x, y
  <2> QED  BY <2>2 DEF U16, x, y
<1> DEFINE size == Len(payload)
           a == U16(size \div Shift8)
           b == << size % Shift8 >>
           c == << type, flags >>
           d == U16(stream \div (Shift8 * Shift8))
           e == U16(stream % (Shift8 * Shift8))
<1>4. a \in Seq(Nat) /\ Len(a) = 2 /\ d \in Seq(Nat) /\ Len(d) = 2 /\ e \in Seq(Nat) /\ Len(e) = 2
  <2>1. size \in Nat
      OBVIOUS
  <2>2. size \div Shift8 \in Nat /\ stream \div (Shift8 * Shift8) \in Nat
        /\ stream % (Shift8 * Shift8) \in Nat
      BY <1>1, <1>2, <2>1
  <2> QED  BY <1>3, <2>2
<1>5. b \in Seq(Nat) /\ Len(b) = 1
  <2>1. size % Shift8 \in Nat
      BY <1>1, <1>2
  <2> DEFINE x == size % Shift8
  <2> HIDE DEF x
  <2> QED  BY <2>1 DEF x
<1>6. c \in Seq(Nat) /\ Len(c) = 2
    BY <1>1
<1> HIDE DEF a, b, c, d, e
<1>7. payload \in Seq(Nat)
  <2>1. \A k \in 1 .. Len(payload) : payload[k] \in Nat
    <3>1. \A k \in 1 .. Len(payload) : payload[k] \in Octet
        OBVIOUS
    <3> QED  BY <1>1, <3>1, Zenon
  <2>2. payload = [k \in 1 .. Len(payload) |-> payload[k]] /\ Len(payload) \in Nat
      OBVIOUS
  <2> QED  BY <2>1, <2>2
<1> DEFINE ab == a \o b
           abc == ab \o c
           de == d \o e
           head == abc \o de
           fr == head \o payload
           all == fr \o extra
<1>8. ab \in Seq(Nat) /\ Len(ab) = Len(a) + Len(b)
    BY <1>4, <1>5, ConcatType, Zenon
<1>9. de \in Seq(Nat) /\ Len(de) = Len(d) + Len(e)
    BY <1>4, ConcatType, Zenon
<1> HIDE DEF ab, de
<1>10. abc \in Seq(Nat) /\ Len(abc) = Len(ab) + Len(c)
    BY <1>6, <1>8, ConcatType, Zenon
<1> HIDE DEF abc
<1>11. head \in Seq(Nat) /\ Len(head) = Len(abc) + Len(de)
    BY <1>9, <1>10, ConcatType, Zenon
<1> HIDE DEF head
<1>12. fr \in Seq(Nat) /\ Len(fr) = Len(head) + Len(payload) /\ Len(payload) \in Nat
    BY <1>7, <1>11, ConcatType, Zenon
<1> HIDE DEF fr
<1>13. all \in Seq(Nat) /\ Len(all) = Len(fr) + Len(extra) /\ Len(extra) \in Nat
    BY <1>12, ConcatType, Zenon
<1> HIDE DEF all
<1>14. Len(all) = 9 + Len(payload) + Len(extra)
    BY <1>4, <1>5, <1>6, <1>8, <1>9, <1>10, <1>11, <1>12, <1>13
<1>15. fr = Frame(type, flags, stream, payload)
    BY Zenon DEF Frame, FrameHead, U24, U32, a, b, c, d, e, ab, abc, de, head, fr
<1> QED  BY <1>12, <1>13, <1>14, <1>15 DEF all

\* What is not larger than a frame may be.
LEMMA FrameIs ==
    ASSUME NEW type \in Octet, NEW flags \in Octet,
           NEW stream \in 0 .. Shift8 * Shift8 * Shift8 * Shift8 - 1,
           NEW payload \in Seq(Octet), Len(payload) <= MaxFrameSize
    PROVE  /\ Len(payload) \in 0 .. Shift8 * Shift8 * Shift8 - 1
           /\ Frame(type, flags, stream, payload) \in Seq(Octet)
           /\ Len(Frame(type, flags, stream, payload)) = 9 + Len(payload)
<1> DEFINE size == Len(payload)
           head == FrameHead(size, type, flags, stream)
<1>1. size \in 0 .. Shift8 * Shift8 * Shift8 - 1
  <2> DEFINE s == Shift8 * Shift8 * Shift8
  <2>1. size \in Nat /\ MaxFrameSize \in 1 .. s - 1
      BY FrameAssumption
  <2>2. s \in Nat
      BY ShiftType
  <2> HIDE DEF s
  <2>3. size \in 0 .. s - 1
      BY <2>1, <2>2
  <2> QED  BY <2>3 DEF s
<1>2. head \in Seq(Octet) /\ Len(head) = 9
    BY <1>1, FrameHeadType
<1> HIDE DEF head
<1>3. head \o payload \in Seq(Octet) /\ Len(head \o payload) = Len(head) + Len(payload)
    BY <1>2, ConcatType, Zenon
<1>4. Len(head) + Len(payload) = 9 + Len(payload)
    BY <1>2
<1>5. Frame(type, flags, stream, payload) = head \o payload
    BY Zenon DEF Frame, head
<1> QED  BY <1>1, <1>3, <1>4, <1>5

\* Octets are numbers.
LEMMA OctetsAreNumbers ==
    ASSUME NEW os \in Seq(Octet)
    PROVE  os \in Seq(Nat)
<1>1. \A k \in 1 .. Len(os) : os[k] \in Octet
    OBVIOUS
<1>2. Octet \subseteq Nat
    BY ShiftType
<1>3. \A k \in 1 .. Len(os) : os[k] \in Nat
    BY <1>1, <1>2, Zenon
<1>4. os = [k \in 1 .. Len(os) |-> os[k]] /\ Len(os) \in Nat
    OBVIOUS
<1> QED  BY <1>3, <1>4

\* A frame is sent with what it is made of.
LEMMA SentKeeps ==
    ASSUME PeerInv, NEW type \in Octet, NEW flags \in Octet,
           NEW sender \in 0 .. Shift8 * Shift8 * Shift8 * Shift8 - 1,
           NEW payload \in Seq(Octet), NEW extra \in Seq(Octet),
           NEW stream \in Nat, NEW odd \in BOOLEAN, stream \in Stream \/ block = << >>,
           NEW octets, octets = Frame(type, flags, sender, payload) \o extra,
           SendFrame(octets, stream, block, opened, odd), block' = << >>, opened' = << >>,
           NEW f, f = [octets |-> octets, block |-> block, odd |-> odd, stream |-> stream,
                       headers |-> Tagged(stream, opened), upto |-> Len(out)],
           Made(f, type, flags, sender, payload, extra)
    PROVE  PeerInv'
<1>1. Len(octets) <= 9 + MaxFrameSize
    BY DEF SendFrame
<1>2. extra \in Seq(Nat)
    BY OctetsAreNumbers, Zenon
<1>3. sender \in Nat
    OBVIOUS
<1>4. /\ Len(octets) = 9 + Len(payload) + Len(extra)
      /\ Len(payload) \in Nat /\ Len(extra) \in Nat
  <2>1. /\ Len(Frame(type, flags, sender, payload) \o extra) = 9 + Len(payload) + Len(extra)
        /\ Frame(type, flags, sender, payload) \in Seq(Nat)
        /\ Len(payload) \in Nat /\ Len(extra) \in Nat
      BY <1>2, <1>3, FrameLength, Zenon
  <2> QED  BY <2>1, Zenon
<1>5. Len(payload) <= MaxFrameSize
  <2>1. MaxFrameSize \in Nat
    <3> DEFINE s == Shift8 * Shift8 * Shift8
    <3>1. MaxFrameSize \in 1 .. s - 1
        BY FrameAssumption
    <3> HIDE DEF s
    <3> QED  BY <3>1
  <2> DEFINE l == Len(octets)
  <2> HIDE DEF l
  <2>2. l <= 9 + MaxFrameSize /\ l = 9 + Len(payload) + Len(extra)
      BY <1>1, <1>4 DEF l
  <2> QED  BY <1>4, <2>1, <2>2
<1>6. Frame(type, flags, sender, payload) \in Seq(Octet)
    BY <1>5, FrameIs
<1>7. octets \in Seq(Octet)
    BY <1>6, ConcatType, Zenon
<1>8. MadeSo(f)
    BY <1>5, Zenon DEF MadeSo
<1>9. frames' = Append(frames, f) /\ UNCHANGED << stdVars, moments >>
    BY Zenon DEF SendFrame
<1> QED  BY <1>7, <1>8, <1>9, SendKeeps, Zenon

\* The block to come is octets.
LEMMA BlockType ==
    ASSUME PeerInv
    PROVE  block \in Seq(Octet) /\ opened \in Seq(Entry)
<1> DEFINE e == End(Len(frames))
           n == Len(out)
<1>1. EncoderInv /\ FramesInv
    BY DEF PeerInv
<1>2. e \in 0 .. Len(out) /\ n \in e .. Len(out) /\ n \in n .. Len(out)
    BY <1>1, EndType, SpellingsType
<1>3. block = Pieces(e, n) /\ opened = HeadersOf(e, n)
    BY <1>1 DEF FramesInv
<1> HIDE DEF e, n
<1>4. Pieces(e, n) \in Seq(Octet) /\ HeadersOf(e, n) \in Seq(Entry)
    BY <1>1, <1>2, PiecesSplit, HeadersSplit
<1> QED  BY <1>3, <1>4

\* Streams and types are numbers that a frame has room for.
LEMMA NumbersFit ==
    /\ \A s \in Stream : s \in Nat /\ s \in 0 .. Shift8 * Shift8 * Shift8 * Shift8 - 1
    /\ 0 \in 0 .. Shift8 * Shift8 * Shift8 * Shift8 - 1
    /\ HEADERS \in Octet /\ PUSH_PROMISE \in Octet /\ CONTINUATION \in Octet
    /\ OtherType \subseteq Octet \ {HEADERS, PUSH_PROMISE, CONTINUATION}
    /\ 0 \in Octet /\ 1 \in Octet /\ END_HEADERS \in Octet
    /\ END_HEADERS + PADDED \in Octet /\ END_HEADERS + END_STREAM \in Octet
<1> DEFINE s == Shift8 * Shift8 * Shift8 * Shift8
<1>1. Stream \subseteq 1 .. s - 1 /\ s \in Nat
  <2>1. s \in Nat
      BY ShiftType
  <2> QED  BY <2>1, FrameAssumption
<1>2. 0 \in 0 .. s - 1
  <2>1. Shift8 \in Nat /\ Shift8 >= 1
      BY ShiftType
  <2>2. ASSUME NEW x \in Nat, NEW y \in Nat, x >= 1, y >= 1  PROVE x * y \in Nat /\ x * y >= 1
      BY <2>2
  <2>3. Shift8 * Shift8 \in Nat /\ Shift8 * Shift8 >= 1
      BY <2>1, <2>2
  <2>4. Shift8 * Shift8 * Shift8 \in Nat /\ Shift8 * Shift8 * Shift8 >= 1
      BY <2>1, <2>2, <2>3
  <2>5. s >= 1 /\ s \in Nat
      BY <2>1, <2>2, <2>4
  <2> HIDE DEF s
  <2> QED  BY <2>5
<1> HIDE DEF s
<1>3. /\ \A x \in Stream : x \in Nat /\ x \in 0 .. s - 1
      /\ 0 \in 0 .. s - 1
    BY <1>1, <1>2
<1>4. \A x \in 0 .. 15 : x \in Octet
    BY ShiftType
<1>5. /\ HEADERS \in Octet /\ PUSH_PROMISE \in Octet /\ CONTINUATION \in Octet
      /\ 0 \in Octet /\ 1 \in Octet /\ END_HEADERS \in Octet
      /\ END_HEADERS + PADDED \in Octet /\ END_HEADERS + END_STREAM \in Octet
    BY <1>4 DEF HEADERS, PUSH_PROMISE, CONTINUATION, END_HEADERS, PADDED, END_STREAM
<1> QED  BY <1>3, <1>5, FrameAssumption DEF s

\* Every step of the peer keeps what it has written in order.
LEMMA PeerKeeps ==
    ASSUME PeerInv, PeerStep
    PROVE  PeerInv'
<1>1. block \in Seq(Octet) /\ opened \in Seq(Entry)
    BY BlockType
<1> DEFINE f(octets, stream, odd) ==
        [octets |-> octets, block |-> block, odd |-> odd, stream |-> stream,
         headers |-> Tagged(stream, opened), upto |-> Len(out)]
           none == << >>
<1>2. none \in Seq(Octet) /\ none = << >>
    OBVIOUS
<1>3. CASE Encode
    BY <1>3, EncodeKeeps
<1>4. ASSUME NEW type \in Octet, NEW flags \in Octet, NEW s \in Stream, NEW payload \in Seq(Octet)
      PROVE  Frame(type, flags, s, payload) \o none = Frame(type, flags, s, payload)
  <2>1. none \in Seq(Nat) /\ s \in Nat
      BY NumbersFit
  <2>2. Frame(type, flags, s, payload) \in Seq(Nat)
      BY <2>1, FrameLength, Zenon
  <2> QED  BY <1>2, <2>2, ConcatEmptySeq
<1>5. ASSUME NEW s \in Stream, SendHeaders(s)  PROVE PeerInv'
  <2> DEFINE octets == Frame(HEADERS, END_HEADERS + END_STREAM, s, block)
             g == f(octets, s, FALSE)
  <2>1. block # << >> /\ SendFrame(octets, s, block, opened, FALSE) /\ block' = << >> /\ opened' = << >>
      BY <1>5, Zenon DEF SendHeaders, SendBlock
  <2>2. octets \o none = octets
      BY <1>1, <1>4, NumbersFit
  <2>3. Made(g, HEADERS, END_HEADERS + END_STREAM, s, block, none)
      BY <1>2, <2>1, <2>2 DEF Made
  <2> QED  BY <1>1, <1>2, <2>1, <2>2, <2>3, NumbersFit, SentKeeps, Zenon
<1>6. ASSUME NEW s \in Stream, SendPromise(s)  PROVE PeerInv'
  <2>1. PICK p \in Stream : SendBlock(Frame(PUSH_PROMISE, END_HEADERS, s, U32(p) \o block), p, FALSE)
      BY <1>6 DEF SendPromise
  <2> DEFINE payload == U32(p) \o block
             octets == Frame(PUSH_PROMISE, END_HEADERS, s, payload)
             g == f(octets, p, FALSE)
  <2>2. /\ block # << >> /\ SendFrame(octets, p, block, opened, FALSE)
        /\ block' = << >> /\ opened' = << >>
      BY <2>1, Zenon DEF SendBlock
  <2>3. U32(p) \in Seq(Octet)
      BY <1>2, NumbersFit, ReadOfU32
  <2>4. payload \in Seq(Octet)
      BY <1>1, <2>3, ConcatType, Zenon
  <2>5. payload = U32(g.stream) \o g.block
      OBVIOUS
  <2> HIDE DEF payload
  <2>6. octets \o none = octets
      BY <1>4, <2>4, NumbersFit
  <2>7. Made(g, PUSH_PROMISE, END_HEADERS, s, payload, none)
      BY <1>2, <2>2, <2>5, <2>6 DEF Made
  <2> QED  BY <1>2, <2>2, <2>4, <2>6, <2>7, NumbersFit, SentKeeps, Zenon
<1>7. ASSUME NEW s \in Stream, SendPadded(s)  PROVE PeerInv'
  <2> DEFINE one == << 1 >>
             zero == << 0 >>
             front == one \o block
             payload == front \o zero
             octets == Frame(HEADERS, END_HEADERS + PADDED, s, payload)
             g == f(octets, s, TRUE)
  <2>1. /\ SendFrame(octets, s, block, opened, TRUE) /\ block' = << >> /\ opened' = << >>
      BY <1>7, Zenon DEF SendPadded, SendBlock
  <2>2. one \in Seq(Octet) /\ zero \in Seq(Octet)
      BY NumbersFit
  <2> HIDE DEF one, zero
  <2>3. front \in Seq(Octet)
      BY <1>1, <2>2, ConcatType, Zenon
  <2> HIDE DEF front
  <2>4. payload \in Seq(Octet)
      BY <2>2, <2>3, ConcatType, Zenon
  <2> HIDE DEF payload
  <2>5. octets \o none = octets
      BY <1>4, <2>4, NumbersFit
  <2>6. Made(g, HEADERS, END_HEADERS + PADDED, s, payload, none)
      BY <1>2, <2>5 DEF Made
  <2> QED  BY <1>2, <2>1, <2>4, <2>5, <2>6, NumbersFit, SentKeeps, Zenon
<1>8. ASSUME NEW s \in Stream, SendSplit(s)  PROVE PeerInv'
  <2>1. PICK k \in 0 .. Len(block) :
            SendBlock(Frame(HEADERS, 0, s, SubSeq(block, 1, k))
                          \o Frame(CONTINUATION, END_HEADERS, s, SubSeq(block, k + 1, Len(block))),
                      s, TRUE)
      BY <1>8 DEF SendSplit
  <2> DEFINE payload == SubSeq(block, 1, k)
             last == SubSeq(block, k + 1, Len(block))
             extra == Frame(CONTINUATION, END_HEADERS, s, last)
             octets == Frame(HEADERS, 0, s, payload) \o extra
             g == f(octets, s, TRUE)
  <2>2. /\ SendFrame(octets, s, block, opened, TRUE) /\ block' = << >> /\ opened' = << >>
      BY <2>1, Zenon DEF SendBlock
  <2>3. payload \in Seq(Octet)
      BY <1>1, BeginningIs
  <2>4. last \in Seq(Octet)
    <3>1. k \in Nat
        OBVIOUS
    <3> QED  BY <1>1, <3>1, EndIs
  <2> HIDE DEF payload, last
  <2>5. s \in Nat /\ s \in 0 .. Shift8 * Shift8 * Shift8 * Shift8 - 1
      BY NumbersFit, Zenon
  <2>6. CONTINUATION \in Octet /\ END_HEADERS \in Octet /\ 0 \in Octet /\ HEADERS \in Octet
      BY NumbersFit, Zenon
  <2>7. none \in Seq(Nat) /\ Len(none) = 0
      OBVIOUS
  <2>8. /\ Len(extra \o none) = 9 + Len(last) + Len(none) /\ extra \in Seq(Nat)
        /\ Len(last) \in Nat /\ Len(none) \in Nat
    <3>1. ASSUME NEW x \in Seq(Nat)
          PROVE  /\ Len(Frame(CONTINUATION, END_HEADERS, s, last) \o x) = 9 + Len(last) + Len(x)
                 /\ Frame(CONTINUATION, END_HEADERS, s, last) \in Seq(Nat)
                 /\ Len(last) \in Nat /\ Len(x) \in Nat
        BY <2>4, <2>5, <2>6, FrameLength, Zenon
    <3> HIDE DEF none, extra
    <3>2. none \in Seq(Nat)
        BY <2>7
    <3> QED  BY <3>1, <3>2, Zenon DEF extra
  <2>9. extra \o none = extra
      BY <2>8, ConcatEmptySeq
  <2>10. Len(octets) = 9 + Len(payload) + Len(extra) /\ Len(payload) \in Nat
    <3>1. /\ Len(Frame(HEADERS, 0, s, payload) \o extra) = 9 + Len(payload) + Len(extra)
          /\ Frame(HEADERS, 0, s, payload) \in Seq(Nat)
          /\ Len(payload) \in Nat /\ Len(extra) \in Nat
        BY <2>3, <2>5, <2>6, <2>8, FrameLength, Zenon
    <3> QED  BY <3>1, Zenon
  <2>11. Len(octets) <= 9 + MaxFrameSize
      BY <2>2 DEF SendFrame
  <2>12. Len(last) <= MaxFrameSize
    <3>1. MaxFrameSize \in Nat
      <4> DEFINE t == Shift8 * Shift8 * Shift8
      <4>1. MaxFrameSize \in 1 .. t - 1
          BY FrameAssumption
      <4> HIDE DEF t
      <4> QED  BY <4>1
    <3> DEFINE lo == Len(octets)
               le == Len(extra)
               ll == Len(last)
               lp == Len(payload)
    <3>2. le = 9 + ll
      <4>1. le = 9 + ll + 0
          BY <2>7, <2>8, <2>9, Zenon
      <4>2. ll \in Nat
          BY <2>8
      <4> HIDE DEF le, ll
      <4> QED  BY <4>1, <4>2
    <3>3. ll \in Nat /\ lp \in Nat /\ lo = 9 + lp + le /\ lo <= 9 + MaxFrameSize
        BY <2>8, <2>10, <2>11, Zenon
    <3> HIDE DEF lo, le, ll, lp
    <3>4. ll <= MaxFrameSize
        BY <3>1, <3>2, <3>3
    <3> QED  BY <3>4 DEF ll
  <2>13. extra \in Seq(Octet)
      BY <2>4, <2>5, <2>6, <2>12, FrameIs, Zenon
  <2> HIDE DEF extra
  <2>14. Made(g, HEADERS, 0, s, payload, extra)
      BY DEF Made
  <2> QED  BY <2>2, <2>3, <2>5, <2>6, <2>13, <2>14, SentKeeps, Zenon
<1>9. CASE SendOther
  <2>1. PICK type \in OtherType : SendFrame(Frame(type, 0, 0, Opaque), 0, << >>, << >>, FALSE)
      BY <1>9 DEF SendOther
  <2> DEFINE octets == Frame(type, 0, 0, Opaque)
             g == f(octets, 0, FALSE)
  <2>2. block = << >> /\ opened = << >> /\ block' = << >> /\ opened' = << >>
      BY <1>9, NoBlock DEF SendOther
  <2>3. SendFrame(octets, 0, block, opened, FALSE)
      BY <2>1, <2>2, Zenon
  <2>4. type \in Octet /\ Opaque \in Seq(Octet) /\ 0 \in Nat /\ 0 \in Octet
      BY NumbersFit, FrameAssumption
  <2>5. octets \o none = octets
    <3>1. none \in Seq(Nat)
        OBVIOUS
    <3>2. octets \in Seq(Nat)
        BY <2>4, <3>1, FrameLength, Zenon
    <3> QED  BY <1>2, <3>2, ConcatEmptySeq
  <2>6. Tagged(0, opened) = << >>
      BY <2>2, TaggedNone
  <2>7. Made(g, type, 0, 0, Opaque, none)
      BY <1>2, <2>2, <2>5, <2>6 DEF Made
  <2>8. 0 \in 0 .. Shift8 * Shift8 * Shift8 * Shift8 - 1
      BY NumbersFit, Zenon
  <2> QED  BY <1>2, <2>2, <2>3, <2>4, <2>5, <2>7, <2>8, SentKeeps, Zenon
<1> QED  BY <1>3, <1>5, <1>6, <1>7, <1>8, <1>9 DEF PeerStep

\* The moments of the peer say of each instruction what it was written for.
MomentsInv ==
    /\ Len(moments) = Len(out) + 1
    /\ moments[1].count = 0 /\ moments[1].table = << >>
    /\ \A k \in 1 .. Len(moments) : moments[k].count <= Len(sent)
    /\ \A k \in 1 .. Len(out) :
          Denotes(out[k], moments[k], sent[moments[k + 1].count], moments[k + 1])

\* The same, of the instruction after the first k.
LEMMA MomentsDenote ==
    ASSUME MomentsInv, EncoderInv, NEW k \in 0 .. Len(out) - 1
    PROVE  /\ moments[k + 1] \in MomentType /\ moments[k + 2] \in MomentType
           /\ moments[k + 1].count <= Len(sent) /\ moments[k + 2].count <= Len(sent)
           /\ Denotes(out[k + 1], moments[k + 1], sent[moments[k + 2].count], moments[k + 2])
<1>1. Len(moments) = Len(out) + 1 /\ moments \in Seq(MomentType) /\ Len(out) \in Nat
    BY DEF EncoderInv
<1>2. /\ k + 1 \in 1 .. Len(moments) /\ k + 2 \in 1 .. Len(moments) /\ k + 1 \in 1 .. Len(out)
      /\ (k + 1) + 1 = k + 2
    BY <1>1
<1>3. moments[k + 1] \in MomentType /\ moments[k + 2] \in MomentType
    BY <1>1, <1>2, ElementOfSeq
<1>4. /\ moments[k + 1].count <= Len(sent) /\ moments[k + 2].count <= Len(sent)
      /\ Denotes(out[k + 1], moments[k + 1], sent[moments[k + 2].count], moments[k + 2])
    BY <1>2 DEF MomentsInv
<1> QED  BY <1>3, <1>4

-----------------------------------------------------------------------------
(* Where h2unpack stands.                                                  *)

Written == [k \in 1 .. Len(frames) |-> frames[k].octets]
Listed  == [k \in 1 .. Len(frames) |-> frames[k].headers]

\* What was written behind the first k frames, and the lines of those.
Following(k) == Flat(Written, k, Len(frames))
Before(k)    == Flat(Listed, 0, k)

\* s is what was read of all.
Beginning(s, all) == \E r \in 0 .. Len(all) : s = SubSeq(all, 1, r) /\ (truncated \/ r = Len(all))

\* In front of frame k + 1, with all before it shown.
Between(k) ==
    /\ k \in 0 .. Len(frames)
    /\ buffer = << >>
    /\ Beginning(input, Following(k))
    /\ shown = Before(k)
    /\ DecoderAt(moments[End(k) + 1])
    /\ aborted => truncated \/ (k < Len(frames) /\ frames[k + 1].odd)

\* In the block of frame k, in front of instruction i + 1.
Within(k, i) ==
    /\ k \in 1 .. Len(frames) /\ i \in End(k - 1) .. End(k) - 1
    /\ \E m \in 1 .. Len(Pieces(i, End(k))) :
          /\ buffer = SubSeq(Pieces(i, End(k)), 1, m)
          /\ m < Len(Pieces(i, End(k))) => truncated /\ input = << >>
    /\ Beginning(input, Following(k))
    /\ target = frames[k].stream /\ target \in Stream
    /\ shown = Before(k - 1) \o Tagged(target, HeadersOf(End(k - 1), i))
    /\ DecoderAt(moments[i + 1])
    /\ aborted => truncated

\* At the end of input that was cut short.
Over ==
    /\ truncated /\ ~ aborted
    /\ buffer = << >> /\ input = << >>
    /\ ShownRight

ReaderInv ==
    IF reading
    THEN (\E k : Between(k)) \/ (\E k, i : Within(k, i)) \/ Over
    ELSE /\ ~ truncated /\ ~ aborted
         /\ buffer = << >> /\ input = << >> /\ shown = << >> /\ target = 0
         /\ decTable = EmptyTable /\ decoded = << >> /\ maxDynamicSize = SizeLimit

\* The octets of the frames and their lines, frame by frame.
LEMMA FollowingType ==
    ASSUME FramesInv
    PROVE  /\ Written \in Seq(Seq(Octet)) /\ Len(Written) = Len(frames)
           /\ Listed \in Seq(Seq(Line)) /\ Len(Listed) = Len(frames) /\ Len(frames) \in Nat
           /\ \A k \in 1 .. Len(frames) :
                 Written[k] = frames[k].octets /\ Listed[k] = frames[k].headers
<1>1. frames \in Seq(FrameType) /\ Len(frames) \in Nat
    BY DEF FramesInv
<1>2. \A k \in 1 .. Len(frames) : frames[k] \in FrameType
    BY <1>1, ElementOfSeq
<1>3. \A k \in 1 .. Len(frames) : frames[k].octets \in Seq(Octet) /\ frames[k].headers \in Seq(Line)
    BY <1>2 DEF FrameType
<1> QED  BY <1>1, <1>3 DEF Written, Listed

\* Frame by frame.
LEMMA FollowingFirst ==
    ASSUME FramesInv, NEW k \in 0 .. Len(frames)
    PROVE  /\ Following(k) \in Seq(Octet) /\ Before(k) \in Seq(Line)
           /\ k = Len(frames) => Following(k) = << >>
           /\ k = 0 => Before(k) = << >>
           /\ k < Len(frames) =>
                 /\ k + 1 \in 1 .. Len(frames) /\ k + 1 \in 0 .. Len(frames)
                 /\ frames[k + 1].octets \in Seq(Octet)
                 /\ Following(k) = frames[k + 1].octets \o Following(k + 1)
                 /\ frames[k + 1].headers \in Seq(Line)
                 /\ Before(k + 1) = Before(k) \o frames[k + 1].headers
<1> DEFINE n == Len(frames)
<1>1. /\ Written \in Seq(Seq(Octet)) /\ Len(Written) = n
      /\ Listed \in Seq(Seq(Line)) /\ Len(Listed) = n /\ n \in Nat
      /\ \A j \in 1 .. n : Written[j] = frames[j].octets /\ Listed[j] = frames[j].headers
    BY FollowingType
<1> HIDE DEF n
<1>2. k \in Nat /\ n \in k .. Len(Written) /\ k \in 0 .. n /\ k \in 0 .. Len(Listed) /\ 0 \in Nat
    BY <1>1 DEF n
<1>3. Flat(Written, k, n) \in Seq(Octet) /\ (k = n => Flat(Written, k, n) = << >>)
    BY <1>1, <1>2, FlatType
<1>4. Flat(Listed, 0, k) \in Seq(Line) /\ (0 = k => Flat(Listed, 0, k) = << >>)
    BY <1>1, <1>2, FlatType
<1>5. ASSUME k < n
      PROVE  /\ k + 1 \in 1 .. n /\ k + 1 \in 0 .. n
             /\ frames[k + 1].octets \in Seq(Octet)
             /\ Flat(Written, k, n) = frames[k + 1].octets \o Flat(Written, k + 1, n)
             /\ frames[k + 1].headers \in Seq(Line)
             /\ Flat(Listed, 0, k + 1) = Flat(Listed, 0, k) \o frames[k + 1].headers
  <2>1. /\ n \in k + 1 .. Len(Written) /\ k \in 0 .. Len(Listed) - 1 /\ k + 1 \in 1 .. n
        /\ k + 1 \in 0 .. n /\ k + 1 \in 1 .. Len(Listed)
      BY <1>1, <1>2, <1>5
  <2>2. /\ Written[k + 1] \in Seq(Octet)
        /\ Flat(Written, k, n) = Written[k + 1] \o Flat(Written, k + 1, n)
      BY <1>1, <1>2, <2>1, FlatFirst
  <2>3. Flat(Listed, 0, k + 1) = Flat(Listed, 0, k) \o Listed[k + 1]
      BY <1>1, <1>2, <2>1, FlatLast
  <2>4. Listed[k + 1] \in Seq(Line)
      BY <1>1, <2>1, ElementOfSeq
  <2> QED  BY <1>1, <2>1, <2>2, <2>3, <2>4
<1> QED  BY <1>3, <1>4, <1>5 DEF Following, Before, n

\* They are what Frames has of them.
LEMMA OctetsAre ==
    ASSUME FramesInv, NEW k \in 0 .. Len(frames)
    PROVE  Octets(k + 1, Len(frames)) = Following(k) /\ Carried(k) = Before(k)
<1> DEFINE n == Len(frames)
<1>1. k \in Nat /\ n \in Nat /\ k <= n
    BY FollowingType
<1>2. [i \in 1 .. n - (k + 1) + 1 |-> frames[(k + 1) + i - 1].octets]
          = [i \in 1 .. n - k |-> Written[k + i]]
  <2> HIDE DEF n
  <2>1. n - (k + 1) + 1 = n - k
      BY <1>1
  <2>2. ASSUME NEW i \in 1 .. n - k  PROVE frames[(k + 1) + i - 1].octets = Written[k + i]
    <3>1. (k + 1) + i - 1 = k + i /\ k + i \in 1 .. Len(frames)
        BY <1>1 DEF n
    <3> QED  BY <3>1, FollowingType
  <2> QED  BY <2>1, <2>2
<1>3. [i \in 1 .. k |-> frames[i].headers] = [i \in 1 .. k - 0 |-> Listed[0 + i]]
  <2>1. \A i \in 1 .. k : 0 + i = i /\ i \in 1 .. Len(frames)
      BY <1>1
  <2>2. \A i \in 1 .. k : frames[i].headers = Listed[0 + i]
      BY <2>1, FollowingType
  <2> QED  BY <1>1, <2>2
<1> QED  BY <1>2, <1>3, Zenon DEF Octets, Carried, Following, Before, Flat

\* The lines of the first frames are the first of the lines.
LEMMA BeforeIsPrefix ==
    ASSUME FramesInv, NEW k \in 0 .. Len(frames)
    PROVE  IsPrefix(Before(k), Before(Len(frames)))
<1> DEFINE n == Len(frames)
<1>1. Listed \in Seq(Seq(Line)) /\ Len(Listed) = n /\ n \in Nat
    BY FollowingType
<1>2. k \in 0 .. Len(Listed) /\ n \in k .. Len(Listed) /\ k \in Nat /\ n \in 0 .. n /\ 0 \in Nat
    BY <1>1
<1> HIDE DEF n
<1>3. Flat(Listed, 0, n) = Flat(Listed, 0, k) \o Flat(Listed, k, n)
    BY <1>1, <1>2, FlatSplit
<1>4. Flat(Listed, 0, k) \in Seq(Line) /\ Flat(Listed, k, n) \in Seq(Line)
    BY <1>1, <1>2, FlatType
<1>5. IsPrefix(Flat(Listed, 0, k), Flat(Listed, 0, n))
    BY <1>3, <1>4, PrefixOfConcat
<1> QED  BY <1>5 DEF Before, n

\* What was read of two sequences ends in the first or has all of it.
LEMMA BeginningSplit ==
    ASSUME NEW S, NEW a \in Seq(S), NEW b \in Seq(S), NEW s, Beginning(s, a \o b)
    PROVE  \/ truncated /\ \E n \in 0 .. Len(a) - 1 : s = SubSeq(a, 1, n)
           \/ \E t \in Seq(S) : s = a \o t /\ Beginning(t, b)
<1> DEFINE c == a \o b
<1>1. Len(c) = Len(a) + Len(b) /\ Len(a) \in Nat /\ Len(b) \in Nat
    BY ConcatType, Zenon
<1>2. PICK r \in 0 .. Len(c) : s = SubSeq(c, 1, r) /\ (truncated \/ r = Len(c))
    BY DEF Beginning
<1>3. /\ r <= Len(a) => SubSeq(c, 1, r) = SubSeq(a, 1, r)
      /\ r >= Len(a) => SubSeq(c, 1, r) = a \o SubSeq(b, 1, r - Len(a))
  <2>1. r \in 0 .. Len(a) + Len(b)
      BY <1>1, Zenon
  <2> QED  BY <2>1, BeginningOfConcat, Zenon
<1> HIDE DEF c
<1>4. CASE r < Len(a)
  <2>1. truncated /\ r \in 0 .. Len(a) - 1 /\ r <= Len(a)
      BY <1>1, <1>2, <1>4
  <2> QED  BY <1>2, <1>3, <2>1
<1>5. CASE ~ (r < Len(a))
  <2> DEFINE n == r - Len(a)
             t == SubSeq(b, 1, n)
  <2>1. n \in 0 .. Len(b) /\ (truncated \/ n = Len(b)) /\ r >= Len(a)
      BY <1>1, <1>2, <1>5
  <2> HIDE DEF n
  <2>2. t \in Seq(S) /\ Beginning(t, b)
      BY <2>1, BeginningIs DEF Beginning
  <2> HIDE DEF t
  <2>3. s = a \o t
      BY <1>2, <1>3, <2>1, Zenon DEF t, n
  <2> QED  BY <2>2, <2>3
<1> QED  BY <1>4, <1>5

\* A beginning is a sequence like the whole, and no longer.
LEMMA BeginningType ==
    ASSUME NEW S, NEW a \in Seq(S), NEW s, Beginning(s, a)
    PROVE  s \in Seq(S) /\ Len(s) \in Nat /\ Len(s) <= Len(a)
<1>1. PICK r \in 0 .. Len(a) : s = SubSeq(a, 1, r)
    BY DEF Beginning
<1>2. s \in Seq(S) /\ Len(s) = r
    BY <1>1, BeginningIs
<1> QED  BY <1>2

\* std::min of two numbers.
LEMMA LesserOf ==
    ASSUME NEW a \in Nat, NEW b \in Nat
    PROVE  Min({a, b}) = IF a <= b THEN a ELSE b
<1>1. \A x \in {a, b} : (\A y \in {a, b} : x <= y) => x = IF a <= b THEN a ELSE b
    OBVIOUS
<1>2. \E x \in {a, b} : \A y \in {a, b} : x <= y
    OBVIOUS
<1> QED  BY <1>1, <1>2 DEF Min

\* The input ends in the first octets of a frame.
Torn == truncated /\ Payload = << >> /\ Drop(Size, Rest) = << >>

\* Or they are those of the frame, and it ends in its payload or behind it.
Told(type, flags, sender, payload, extra, rest) ==
    /\ Type = type /\ Flags = flags /\ Sender = sender /\ Size = Len(payload)
    /\ \/ /\ truncated /\ Drop(Size, Rest) = << >>
          /\ \E n \in 0 .. Len(payload) - 1 : Payload = SubSeq(payload, 1, n)
       \/ /\ ~ (Size > Len(Rest)) /\ Payload = payload
          /\ Beginning(Drop(Size, Rest), extra \o rest)

\* What read_frame takes for a frame is one of the peer's, in order.
LEMMA FrameInput ==
    ASSUME PeerInv, NEW k, Between(k), input # << >>
    PROVE  /\ k \in 0 .. Len(frames) - 1 /\ k + 1 \in 1 .. Len(frames)
           /\ \E type, flags \in Octet, sender \in 0 .. Shift8 * Shift8 * Shift8 * Shift8 - 1,
                 payload, extra \in Seq(Octet) :
                 /\ Len(payload) <= MaxFrameSize
                 /\ Made(frames[k + 1], type, flags, sender, payload, extra)
                 /\ Torn \/ Told(type, flags, sender, payload, extra, Following(k + 1))
<1>1. FramesInv /\ k \in 0 .. Len(frames) /\ Beginning(input, Following(k)) /\ Len(frames) \in Nat
    BY FollowingType DEF PeerInv, Between
<1>2. k # Len(frames)
  <2> SUFFICES ASSUME k = Len(frames)  PROVE FALSE
      OBVIOUS
  <2>1. Following(k) = << >> /\ Following(k) \in Seq(Octet)
      BY <1>1, FollowingFirst
  <2> DEFINE a == Following(k)
  <2> HIDE DEF a
  <2>2. a = << >> /\ a \in Seq(Octet) /\ Beginning(input, a)
      BY <1>1, <2>1 DEF a
  <2>3. input \in Seq(Octet) /\ Len(input) \in Nat /\ Len(input) <= Len(a)
      BY <2>2, BeginningType
  <2>4. Len(input) = 0
      BY <2>2, <2>3
  <2> QED  BY <2>3, <2>4, EmptySeq
<1>3. k \in 0 .. Len(frames) - 1 /\ k < Len(frames) /\ k + 1 \in 1 .. Len(frames)
      /\ k + 1 \in 0 .. Len(frames)
    BY <1>1, <1>2
<1>4. PICK type \in Octet, flags \in Octet, sender \in 0 .. Shift8 * Shift8 * Shift8 * Shift8 - 1,
           payload \in Seq(Octet), extra \in Seq(Octet) :
           /\ Len(payload) <= MaxFrameSize
           /\ Made(frames[k + 1], type, flags, sender, payload, extra)
    BY <1>1, <1>3, Zenon DEF FramesInv, MadeSo
<1> DEFINE rest == Following(k + 1)
           head == FrameHead(Len(payload), type, flags, sender)
           more == extra \o rest
           body == payload \o more
<1>5. /\ rest \in Seq(Octet)
      /\ Following(k) = frames[k + 1].octets \o rest
    BY <1>1, <1>3, FollowingFirst
<1>6. Len(payload) \in 0 .. Shift8 * Shift8 * Shift8 - 1
    BY <1>4, FrameIs
<1>7. head \in Seq(Octet) /\ Len(head) = 9
    BY <1>6, FrameHeadType
<1>8. frames[k + 1].octets = (head \o payload) \o extra
    BY <1>4, Zenon DEF Made, Frame
<1> HIDE DEF rest, head
<1>9. more \in Seq(Octet)
    BY <1>5, ConcatType, Zenon
<1>10. Following(k) = head \o body
  <2> DEFINE x == head \o payload
  <2>1. x \in Seq(Octet)
      BY <1>7, ConcatType, Zenon
  <2> HIDE DEF x
  <2>2. (x \o extra) \o rest = x \o more
    <3>1. x \in Seq(Octet) /\ extra \in Seq(Octet) /\ rest \in Seq(Octet)
        BY <1>5, <2>1
    <3> QED  BY <3>1, ConcatOctets, Zenon
  <2> HIDE DEF more
  <2>3. (head \o payload) \o more = head \o (payload \o more)
    <3>1. head \in Seq(Octet) /\ payload \in Seq(Octet) /\ more \in Seq(Octet)
        BY <1>7, <1>9
    <3> QED  BY <3>1, ConcatOctets, Zenon
  <2> QED  BY <1>5, <1>8, <2>2, <2>3, Zenon DEF x
<1> HIDE DEF more
<1>11. body \in Seq(Octet)
    BY <1>9, ConcatType, Zenon
<1> HIDE DEF body
<1>12. \/ truncated /\ \E n \in 0 .. Len(head) - 1 : input = SubSeq(head, 1, n)
       \/ \E t \in Seq(Octet) : input = head \o t /\ Beginning(t, body)
    BY <1>1, <1>7, <1>10, <1>11, BeginningSplit
<1>13. CASE truncated /\ \E n \in 0 .. Len(head) - 1 : input = SubSeq(head, 1, n)
  <2>1. PICK n \in 0 .. 8 : input = SubSeq(head, 1, n)
    <3> DEFINE l == Len(head) - 1
    <3>1. l = 8
        BY <1>7
    <3>2. \E n \in 0 .. l : input = SubSeq(head, 1, n)
        BY <1>13, Zenon
    <3> HIDE DEF l
    <3> QED  BY <3>1, <3>2, Zenon
  <2>2. n \in 0 .. Len(head)
      BY <1>7
  <2>3. input \in Seq(Octet) /\ Len(input) = n
      BY <1>7, <2>1, <2>2, BeginningIs
  <2>4. Rest = << >>
    <3>1. Rest \in Seq(Octet) /\ Len(Rest) = IF 9 <= Len(input) THEN Len(input) - 9 ELSE 0
      <4>1. 9 \in Nat
          OBVIOUS
      <4> QED  BY <2>3, <4>1, DropIs, Zenon DEF Rest
    <3>2. Len(Rest) = 0
        BY <2>3, <3>1
    <3> QED  BY <3>1, <3>2, EmptySeq
  <2>5. Size \in Nat
    <3> DEFINE s == Shift8 * Shift8 * Shift8
    <3>1. Size \in 0 .. s - 1
        BY <2>3, ReadsType DEF Size
    <3> HIDE DEF s
    <3> QED  BY <3>1
  <2>6. << >> \in Seq(Octet) /\ Len(<< >>) = 0
      OBVIOUS
  <2>7. Drop(Size, << >>) = << >>
    <3>1. Drop(Size, << >>) \in Seq(Octet)
          /\ Len(Drop(Size, << >>)) = IF Size <= Len(<< >>) THEN Len(<< >>) - Size ELSE 0
        BY <2>5, <2>6, DropIs, Zenon
    <3>2. Len(Drop(Size, << >>)) = 0
        BY <2>5, <2>6, <3>1
    <3> QED  BY <3>1, <3>2, EmptySeq
  <2>8. Payload = << >>
    <3>1. Min({Size, Len(<< >>)}) = 0
        BY <2>5, <2>6, LesserOf
    <3> DEFINE none == << >>
    <3>2. Rest = none /\ Min({Size, Len(none)}) = 0
        BY <2>4, <3>1
    <3> HIDE DEF none
    <3>3. Payload = SubSeq(none, 1, 0)
        BY <3>2, Zenon DEF Payload
    <3> USE DEF none
    <3> QED  BY <3>3
  <2> QED  BY <1>3, <1>4, <1>13, <2>4, <2>7, <2>8, Zenon DEF Torn
<1>14. ASSUME NEW t \in Seq(Octet), input = head \o t, Beginning(t, body)
       PROVE  Told(type, flags, sender, payload, extra, rest)
  <2>1. /\ Size = Len(payload) /\ Type = type /\ Flags = flags /\ Sender = sender /\ Rest = t
    <3>1. input = FrameHead(Len(payload), type, flags, sender) \o t
        BY <1>14, Zenon DEF head
    <3> QED  BY <1>6, <3>1, HeadRead, Zenon
  <2>2. \/ truncated /\ \E n \in 0 .. Len(payload) - 1 : t = SubSeq(payload, 1, n)
        \/ \E u \in Seq(Octet) : t = payload \o u /\ Beginning(u, more)
      BY <1>9, <1>14, BeginningSplit, Zenon DEF body
  <2>3. Len(payload) \in Nat
      OBVIOUS
  <2>4. CASE truncated /\ \E n \in 0 .. Len(payload) - 1 : t = SubSeq(payload, 1, n)
    <3>1. PICK n \in 0 .. Len(payload) - 1 : t = SubSeq(payload, 1, n)
        BY <2>4
    <3>2. n \in 0 .. Len(payload) /\ n \in Nat /\ n <= Len(payload) /\ ~ (Len(payload) <= n)
        BY <2>3
    <3>3. Len(t) = n
        BY <3>1, <3>2, BeginningIs
    <3>4. Drop(Size, Rest) = << >>
      <4>1. /\ Drop(Len(payload), t) \in Seq(Octet)
            /\ Len(Drop(Len(payload), t)) = IF Len(payload) <= Len(t) THEN Len(t) - Len(payload) ELSE 0
          BY <2>3, DropIs, Zenon
      <4>2. Len(Drop(Len(payload), t)) = 0
          BY <3>2, <3>3, <4>1
      <4> QED  BY <2>1, <4>1, <4>2, EmptySeq
    <3>5. Payload = SubSeq(payload, 1, n)
      <4>1. Min({Len(payload), n}) = n
          BY <2>3, <3>2, LesserOf
      <4>2. Payload = SubSeq(t, 1, n)
          BY <2>1, <3>3, <4>1, Zenon DEF Payload
      <4>3. SubSeq(t, 1, Len(t)) = t
          OBVIOUS
      <4> QED  BY <3>1, <3>3, <4>2, <4>3, Zenon
    <3> QED  BY <2>1, <2>4, <3>4, <3>5, Zenon DEF Told
  <2>5. ASSUME NEW u \in Seq(Octet), t = payload \o u, Beginning(u, more)
        PROVE  Told(type, flags, sender, payload, extra, rest)
    <3>1. Len(t) = Len(payload) + Len(u) /\ Len(u) \in Nat
        BY <2>5, ConcatType, Zenon
    <3>2. Len(payload) <= Len(t) /\ Len(t) \in Nat /\ ~ (Len(payload) > Len(t))
      <4> DEFINE a == Len(payload)
                 b == Len(t)
                 c == Len(u)
      <4>1. b = a + c /\ a \in Nat /\ c \in Nat
          BY <2>3, <3>1, Zenon
      <4> HIDE DEF a, b, c
      <4>2. a <= b /\ b \in Nat /\ ~ (a > b)
          BY <4>1
      <4> QED  BY <4>2 DEF a, b
    <3>3. Drop(Size, Rest) = u
      <4>1. Drop(Len(payload), payload \o u) = u
          BY DropFront, Zenon
      <4> QED  BY <2>1, <2>5, <4>1, Zenon
    <3>4. Payload = payload
      <4>1. Min({Len(payload), Len(t)}) = Len(payload)
        <5> DEFINE b == Len(t)
        <5> HIDE DEF b
        <5>1. Len(payload) \in Nat /\ b \in Nat /\ Len(payload) <= b
            BY <2>3, <3>2, Zenon DEF b
        <5>2. Min({Len(payload), b}) = Len(payload)
            BY <5>1, LesserOf
        <5> QED  BY <5>2 DEF b
      <4>2. Payload = SubSeq(t, 1, Len(payload))
          BY <2>1, <4>1, Zenon DEF Payload
      <4>3. SubSeq(payload \o u, 1, Len(payload)) = SubSeq(payload, 1, Len(payload))
        <5>1. Len(payload) \in 0 .. Len(payload) + Len(u) /\ Len(payload) <= Len(payload)
            BY <2>3, <3>1
        <5> QED  BY <5>1, BeginningOfConcat, Zenon
      <4>4. SubSeq(payload, 1, Len(payload)) = payload
          OBVIOUS
      <4> QED  BY <2>5, <4>2, <4>3, <4>4, Zenon
    <3>5. ~ (Size > Len(Rest))
        BY <2>1, <3>2, Zenon
    <3> QED  BY <2>1, <2>5, <3>3, <3>4, <3>5, Zenon DEF Told, more
  <2> QED  BY <2>2, <2>4, <2>5, Zenon
<1> QED  BY <1>3, <1>4, <1>12, <1>13, <1>14, Zenon DEF rest

-----------------------------------------------------------------------------
(* Reading frames.                                                         *)

\* The flags that the peer writes, as read_frame looks at them.
LEMMA FlagsAre ==
    /\ Flags = 0 => ~ Flag(PADDED) /\ ~ Flag(END_HEADERS) /\ ~ Flag(PRIORITY)
    /\ Flags = END_HEADERS => ~ Flag(PADDED) /\ Flag(END_HEADERS) /\ ~ Flag(PRIORITY)
    /\ Flags = END_HEADERS + END_STREAM => ~ Flag(PADDED) /\ Flag(END_HEADERS) /\ ~ Flag(PRIORITY)
    /\ Flags = END_HEADERS + PADDED => Flag(PADDED)
<1> DEFINE f == Flags
<1> HIDE DEF f
<1>1. /\ (0 \div 8) % 2 = 0 /\ (0 \div 4) % 2 = 0 /\ (0 \div 32) % 2 = 0
      /\ (4 \div 8) % 2 = 0 /\ (4 \div 4) % 2 = 1 /\ (4 \div 32) % 2 = 0
      /\ (5 \div 8) % 2 = 0 /\ (5 \div 4) % 2 = 1 /\ (5 \div 32) % 2 = 0
      /\ (12 \div 8) % 2 = 1
    OBVIOUS
<1>2. /\ f = 0 => ~ ((f \div 8) % 2 = 1) /\ ~ ((f \div 4) % 2 = 1) /\ ~ ((f \div 32) % 2 = 1)
      /\ f = 4 => ~ ((f \div 8) % 2 = 1) /\ (f \div 4) % 2 = 1 /\ ~ ((f \div 32) % 2 = 1)
      /\ f = 4 + 1 => ~ ((f \div 8) % 2 = 1) /\ (f \div 4) % 2 = 1 /\ ~ ((f \div 32) % 2 = 1)
      /\ f = 4 + 8 => (f \div 8) % 2 = 1
    BY <1>1
<1> QED  BY <1>2, Zenon DEF Flag, f, PADDED, END_HEADERS, PRIORITY, END_STREAM

\* What the peer has written is not changed by h2unpack.
LEMMA PeerSame ==
    ASSUME UNCHANGED << stdVars, frames, moments >>
    PROVE  /\ \A k : Following(k)' = Following(k) /\ Before(k)' = Before(k) /\ End(k)' = End(k)
           /\ \A i, j : Pieces(i, j)' = Pieces(i, j) /\ HeadersOf(i, j)' = HeadersOf(i, j)
           /\ Carried(Len(frames))' = Carried(Len(frames))
<1>1. UNCHANGED << sent, out, frames, moments >>
    BY DEF stdVars
<1>2. Written' = Written /\ Listed' = Listed /\ Spellings' = Spellings
    BY <1>1 DEF Written, Listed, Spellings
<1> QED  BY <1>1, <1>2 DEF Following, Before, End, Pieces, HeadersOf, Flat, Carried

\* Nor does it change its own past.
LEMMA DecoderSame ==
    ASSUME UNCHANGED << stdVars, moments >>, UNCHANGED << decTable, decoded >>,
           NEW i, DecoderAt(moments[i])
    PROVE  DecoderAt(moments[i])'
BY DEF stdVars, DecoderAt, Agrees, Accounted

\* h2unpack is in front of a frame only between two of them.
LEMMA AtFrameIsBetween ==
    ASSUME PeerInv, ReaderInv, AtFrame
    PROVE  \E k : Between(k)
<1>1. reading /\ buffer = << >> /\ input # << >>
    BY DEF AtFrame
<1>2. ASSUME NEW k, NEW i, Within(k, i)  PROVE FALSE
  <2>1. k \in 1 .. Len(frames) /\ i \in End(k - 1) .. End(k) - 1
      BY <1>2 DEF Within
  <2> DEFINE p == Pieces(i, End(k))
  <2>2. PICK m \in 1 .. Len(p) : buffer = SubSeq(p, 1, m)
      BY <1>2 DEF Within
  <2>3. p \in Seq(Octet)
    <3>1. /\ EncoderInv /\ i \in 0 .. Len(out) /\ End(k) \in i .. Len(out)
      <4>1. /\ EncoderInv /\ End(k - 1) \in 0 .. Len(out) /\ End(k) \in End(k - 1) .. Len(out)
            /\ Len(out) \in Nat
          BY <2>1, EndType, SpellingsType DEF PeerInv
      <4> QED  BY <2>1, <4>1
    <3>2. Len(out) \in End(k) .. Len(out)
        BY <3>1
    <3> QED  BY <3>1, <3>2, PiecesSplit
  <2> HIDE DEF p
  <2>4. m \in 0 .. Len(p) /\ m # 0
      OBVIOUS
  <2>5. Len(buffer) = m
      BY <2>2, <2>3, <2>4, BeginningIs
  <2> QED  BY <1>1, <2>4, <2>5
<1> QED  BY <1>1, <1>2 DEF ReaderInv, Over

\* What is shown of the frames is right.
LEMMA ShownBefore ==
    ASSUME FramesInv, NEW k \in 0 .. Len(frames), shown = Before(k)
    PROVE  ShownRight /\ shown \in Seq(Line) /\ IsPrefix(shown, Carried(Len(frames)))
<1> DEFINE n == Len(frames)
<1>1. n \in 0 .. Len(frames)
    BY FollowingType
<1>2. Carried(n) = Before(n) /\ Before(n) \in Seq(Line) /\ shown \in Seq(Line)
    BY <1>1, OctetsAre, FollowingFirst
<1>3. IsPrefix(shown, Before(n))
    BY BeforeIsPrefix
<1> HIDE DEF n
<1>4. shown # << >> => IsPrefix(Front(shown), Before(n))
    BY <1>2, <1>3, FrontIsPrefix
<1>5. IsPrefix(shown, Carried(n))
    BY <1>2, <1>3, Zenon
<1>6. shown # << >> => IsPrefix(Front(shown), Carried(n))
    BY <1>2, <1>4, Zenon
<1> QED  BY <1>2, <1>5, <1>6 DEF ShownRight, n

\* The input ends where nothing is left to do.
LEMMA EndsHere ==
    ASSUME PeerInv, NEW k \in 0 .. Len(frames), shown = Before(k), truncated, reading,
           buffer' = << >>, input' = << >>, ~ aborted',
           UNCHANGED << stdVars, frames, moments, reading, truncated, shown, aborted >>
    PROVE  ReaderInv'
<1>1. ShownRight
    BY ShownBefore DEF PeerInv
<1>2. ShownRight'
    BY <1>1, PeerSame DEF ShownRight
<1> QED  BY <1>2 DEF ReaderInv, Over

\* What is fed of a block is where the decoder goes on.
LEMMA FedBlock ==
    ASSUME PeerInv, NEW k \in 0 .. Len(frames) - 1, shown = Before(k), reading, ~ aborted,
           DecoderAt(moments[End(k) + 1]),
           frames[k + 1].block # << >>, frames[k + 1].stream \in Stream,
           NEW m \in 0 .. Len(frames[k + 1].block),
           buffer' = SubSeq(frames[k + 1].block, 1, m),
           m < Len(frames[k + 1].block) => truncated /\ input' = << >>,
           Beginning(input', Following(k + 1)),
           m # 0 => target' = frames[k + 1].stream,
           UNCHANGED << stdVars, frames, moments, reading, truncated, shown, aborted,
                        decTable, decoded >>
    PROVE  ReaderInv'
<1>1. EncoderInv /\ FramesInv /\ Len(frames) \in Nat
    BY FollowingType DEF PeerInv
<1>2. k + 1 \in 1 .. Len(frames) /\ (k + 1) - 1 = k /\ k \in 0 .. Len(frames) /\ k \in Nat
    BY <1>1
<1>3. PICK b, i, j : b = frames[k + 1].block /\ i = End(k) /\ j = End(k + 1)
    OBVIOUS
<1>4. /\ i \in 0 .. Len(out) /\ j \in i .. Len(out) /\ Len(out) \in Nat
      /\ j = frames[k + 1].upto
    BY <1>1, <1>2, <1>3, EndType, SpellingsType
<1>5. b = Pieces(i, j)
    BY <1>1, <1>2, <1>3, <1>4 DEF FramesInv, Carries
<1>6. Pieces(i, i) = << >> /\ b \in Seq(Octet) /\ HeadersOf(i, i) = << >>
  <2>1. /\ i \in 0 .. Len(out) /\ i \in i .. Len(out) /\ j \in i .. Len(out)
        /\ Len(out) \in j .. Len(out)
      BY <1>4
  <2> QED  BY <1>1, <1>5, <2>1, PiecesSplit, HeadersSplit
<1>7. i \in i .. j - 1
  <2>1. i # j
      BY <1>3, <1>5, <1>6
  <2> QED  BY <1>4, <2>1
<1>8. CASE m = 0
  <2>1. buffer' = << >>
      BY <1>3, <1>6, <1>8
  <2>2. Len(b) # 0
      BY <1>3, <1>6, EmptySeq
  <2>3. 0 < Len(b)
      BY <1>6, <2>2
  <2>4. truncated /\ input' = << >>
      BY <1>3, <1>8, <2>3
  <2> QED  BY <1>2, <2>1, <2>4, EndsHere
<1>9. CASE m # 0
  <2>1. m \in 1 .. Len(b) /\ buffer' = SubSeq(b, 1, m) /\ (m < Len(b) => truncated /\ input' = << >>)
      BY <1>3, <1>9
  <2>2. /\ End(k)' = i /\ End(k + 1)' = j /\ End((k + 1) - 1)' = i
        /\ Pieces(i, j)' = b /\ HeadersOf(i, i)' = << >>
        /\ Following(k + 1)' = Following(k + 1) /\ Before((k + 1) - 1)' = shown
      BY <1>2, <1>3, <1>5, <1>6, PeerSame
  <2>3. DecoderAt(moments[i + 1])'
    <3>1. DecoderAt(moments[i + 1])
        BY <1>3
    <3> QED  BY <3>1, DecoderSame
  <2>4. /\ frames[k + 1].stream' = frames[k + 1].stream
        /\ Pieces(i, End(k + 1))' = b
        /\ HeadersOf(End((k + 1) - 1), i)' = << >>
    <3>1. frames' = frames /\ UNCHANGED << sent, out, moments >>
        BY DEF stdVars
    <3>2. Pieces(i, End(k + 1))' = Pieces(i, j)'
        BY <2>2 DEF Pieces, Flat
    <3>3. HeadersOf(End((k + 1) - 1), i)' = HeadersOf(i, i)'
        BY <2>2 DEF HeadersOf
    <3> QED  BY <2>2, <3>1, <3>2, <3>3
  <2>5. shown' = Before(k) \o Tagged(target', << >>)
    <3>1. Before(k) \in Seq(Line)
        BY <1>1, <1>2, FollowingFirst
    <3> QED  BY <3>1, TaggedNone, ConcatEmptySeq
  <2>6. Beginning(input, Following(k + 1))'
      BY <2>2 DEF Beginning
  <2>7. (k + 1 \in 1 .. Len(frames))' /\ (i \in End((k + 1) - 1) .. End(k + 1) - 1)'
      BY <1>2, <1>7, <2>2
  <2>8. (target = frames[k + 1].stream /\ target \in Stream)'
      BY <1>9, <2>4
  <2>9. \E n \in 1 .. Len(b) : buffer' = SubSeq(b, 1, n) /\ (n < Len(b) => truncated' /\ input' = << >>)
      BY <2>1
  <2>10. (shown = Before((k + 1) - 1) \o Tagged(target, HeadersOf(End((k + 1) - 1), i)))'
    <3>1. Tagged(target, HeadersOf(End((k + 1) - 1), i))' = Tagged(target', << >>)
        BY <2>4 DEF Tagged
    <3>2. Before((k + 1) - 1)' = Before(k)
        BY <2>2
    <3> QED  BY <2>5, <3>1, <3>2
  <2>11. (\E n \in 1 .. Len(Pieces(i, End(k + 1))) :
            /\ buffer = SubSeq(Pieces(i, End(k + 1)), 1, n)
            /\ n < Len(Pieces(i, End(k + 1))) => truncated /\ input = << >>)'
      BY <2>4, <2>9
  <2>12. Within(k + 1, i)'
      BY <2>3, <2>6, <2>7, <2>8, <2>10, <2>11 DEF Within
  <2> QED  BY <2>12 DEF ReaderInv
<1> QED  BY <1>8, <1>9

\* The assertions of read_frame fail of the frames that are odd, and of no
\* others (h2unpack.cc:97, 102, 106, 116, 122).
LEMMA HandledIsEven ==
    ASSUME NEW f, NEW type, NEW flags, NEW sender, NEW payload, NEW extra,
           Made(f, type, flags, sender, payload, extra), Len(payload) <= MaxFrameSize,
           Type = type, Flags = flags, Size = Len(payload)
    PROVE  Handled <=> ~ f.odd
<1> DEFINE both == END_HEADERS + PADDED
           ends == END_HEADERS + END_STREAM
<1>1. /\ Flags = 0 => ~ Flag(PADDED) /\ ~ Flag(END_HEADERS)
      /\ Flags = END_HEADERS => ~ Flag(PADDED) /\ Flag(END_HEADERS)
      /\ Flags = ends => ~ Flag(PADDED) /\ Flag(END_HEADERS)
      /\ Flags = both => Flag(PADDED)
    BY FlagsAre
<1>2. HEADERS # PUSH_PROMISE /\ HEADERS # CONTINUATION /\ PUSH_PROMISE # CONTINUATION
    BY DEF HEADERS, PUSH_PROMISE, CONTINUATION
<1> HIDE DEF both, ends
<1>3. \/ f.odd /\ type = HEADERS /\ (flags = 0 \/ flags = both)
      \/ ~ f.odd /\ type = HEADERS /\ flags = ends
      \/ ~ f.odd /\ type = PUSH_PROMISE /\ flags = END_HEADERS
      \/ ~ f.odd /\ type \in OtherType /\ flags = 0
    BY Zenon DEF Made, both, ends
<1>4. \A t \in OtherType : t \notin {HEADERS, PUSH_PROMISE, CONTINUATION}
    BY NumbersFit
<1>5. Size <= MaxFrameSize
    BY Zenon
<1>6. CASE f.odd /\ type = HEADERS /\ (flags = 0 \/ flags = both)
    BY <1>1, <1>6, Zenon DEF Handled
<1>7. CASE ~ f.odd /\ type = HEADERS /\ flags = ends
    BY <1>1, <1>2, <1>5, <1>7, Zenon DEF Handled
<1>8. CASE ~ f.odd /\ type = PUSH_PROMISE /\ flags = END_HEADERS
    BY <1>1, <1>2, <1>5, <1>8, Zenon DEF Handled
<1>9. CASE ~ f.odd /\ type \in OtherType /\ flags = 0
    BY <1>1, <1>4, <1>5, <1>9, Zenon DEF Handled
<1> QED  BY <1>3, <1>6, <1>7, <1>8, <1>9

\* Nothing at all is a beginning of a connection that is cut.
LEMMA BeginningNone ==
    ASSUME truncated, NEW S, NEW all \in Seq(S)
    PROVE  Beginning(<< >>, all)
<1>1. 0 \in 0 .. Len(all) /\ SubSeq(all, 1, 0) = << >>
    BY SubSeqEmpty
<1> QED  BY <1>1 DEF Beginning

\* The payload as far as it was read, and what follows it.
LEMMA ToldPart ==
    ASSUME NEW type, NEW flags, NEW sender, NEW payload \in Seq(Octet), NEW extra, extra = << >>,
           NEW rest \in Seq(Octet), Told(type, flags, sender, payload, extra, rest)
    PROVE  \E n \in 0 .. Len(payload) :
              /\ Payload = SubSeq(payload, 1, n)
              /\ n < Len(payload) => truncated /\ Drop(Size, Rest) = << >>
              /\ Beginning(Drop(Size, Rest), rest)
<1>1. CASE /\ truncated /\ Drop(Size, Rest) = << >>
           /\ \E n \in 0 .. Len(payload) - 1 : Payload = SubSeq(payload, 1, n)
  <2>1. PICK n \in 0 .. Len(payload) - 1 : Payload = SubSeq(payload, 1, n)
      BY <1>1
  <2>2. n \in 0 .. Len(payload)
    <3>1. Len(payload) \in Nat
        OBVIOUS
    <3> QED  BY <3>1
  <2>3. Beginning(<< >>, rest)
      BY <1>1, BeginningNone
  <2>4. Beginning(Drop(Size, Rest), rest)
      BY <1>1, <2>3
  <2> QED  BY <1>1, <2>1, <2>2, <2>4
<1>2. CASE /\ ~ (Size > Len(Rest)) /\ Payload = payload
           /\ Beginning(Drop(Size, Rest), extra \o rest)
  <2>1. extra \o rest = rest
      BY ConcatEmptySeq
  <2>2. SubSeq(payload, 1, Len(payload)) = payload /\ Len(payload) \in 0 .. Len(payload)
        /\ ~ (Len(payload) < Len(payload))
      OBVIOUS
  <2>3. Beginning(Drop(Size, Rest), rest)
      BY <1>2, <2>1
  <2> QED  BY <1>2, <2>2, <2>3, Zenon
<1> QED  BY <1>1, <1>2, Zenon DEF Told

\* Feeding what is empty, or to what is.
LEMMA FeedsAll ==
    ASSUME buffer = << >>, NEW S, NEW data \in Seq(S), Feed(data)
    PROVE  buffer' = data /\ UNCHANGED << decTable, maxDynamicSize, decoded >>
<1>1. << >> \o data = data
    BY ConcatEmptySeq
<1>2. buffer' = buffer \o data /\ UNCHANGED << decTable, maxDynamicSize, decoded >>
    BY Zenon DEF Feed
<1> QED  BY <1>1, <1>2

\* What a frame that is taken leaves alone.
LEMMA Taken ==
    ASSUME PeerInv, NEW k, Between(k), TakeFrame
    PROVE  /\ reading /\ ~ aborted /\ buffer = << >> /\ input # << >> /\ Handled
           /\ input' = Drop(Size, Rest)
           /\ UNCHANGED << stdVars, frames, moments, reading, truncated, shown, aborted >>
           /\ k \in 0 .. Len(frames) - 1 /\ k \in 0 .. Len(frames) /\ k + 1 \in 1 .. Len(frames)
           /\ shown = Before(k) /\ DecoderAt(moments[End(k) + 1])
           /\ Following(k + 1) \in Seq(Octet)
<1>1. /\ reading /\ ~ aborted /\ buffer = << >> /\ input # << >> /\ Handled
      /\ input' = Drop(Size, Rest)
      /\ UNCHANGED << stdVars, frames, moments, reading, truncated, shown, aborted >>
    BY Zenon DEF TakeFrame, AtFrame
<1>2. k \in 0 .. Len(frames) - 1 /\ k + 1 \in 1 .. Len(frames)
    BY <1>1, FrameInput, Zenon
<1>3. k \in 0 .. Len(frames) /\ k < Len(frames)
    BY <1>2
<1>4. Following(k + 1) \in Seq(Octet)
  <2>1. k + 1 \in 0 .. Len(frames)
      BY <1>2
  <2> QED  BY <2>1, FollowingFirst DEF PeerInv
<1> QED  BY <1>1, <1>2, <1>3, <1>4 DEF Between

\* A frame of headers feeds its block (h2unpack.cc:105-113).
LEMMA HeadersKeep ==
    ASSUME PeerInv, NEW k, Between(k), ReadHeaders
    PROVE  ReaderInv'
<1> DEFINE fed0 == IF Flag(PRIORITY) THEN Drop(1, Payload) ELSE Payload
           f == frames[k + 1]
<1>1. /\ TakeFrame /\ Type = HEADERS /\ target' = Sender /\ Feed(fed0)
    BY Zenon DEF ReadHeaders, HandleHeaders
<1>2. /\ reading /\ ~ aborted /\ buffer = << >> /\ input # << >> /\ Handled
      /\ input' = Drop(Size, Rest)
      /\ UNCHANGED << stdVars, frames, moments, reading, truncated, shown, aborted >>
      /\ k \in 0 .. Len(frames) - 1 /\ k \in 0 .. Len(frames) /\ k + 1 \in 1 .. Len(frames)
      /\ shown = Before(k) /\ DecoderAt(moments[End(k) + 1])
      /\ Following(k + 1) \in Seq(Octet)
    BY <1>1, Taken, Zenon
<1>3. PICK type \in Octet, flags \in Octet, sender \in 0 .. Shift8 * Shift8 * Shift8 * Shift8 - 1,
           payload \in Seq(Octet), extra \in Seq(Octet) :
           /\ Len(payload) <= MaxFrameSize
           /\ Made(f, type, flags, sender, payload, extra)
           /\ Torn \/ Told(type, flags, sender, payload, extra, Following(k + 1))
    BY <1>2, FrameInput, Zenon
<1>4. CASE Torn
  <2>1. truncated /\ Payload = << >> /\ Drop(Size, Rest) = << >>
      BY <1>4, Zenon DEF Torn
  <2>2. Drop(1, << >>) = << >>
      BY DEF Drop
  <2>3. fed0 = << >>
      BY <2>1, <2>2
  <2>4. << >> \in Seq(Octet)
      OBVIOUS
  <2>5. buffer' = << >>
      BY <1>1, <1>2, <2>3, <2>4, FeedsAll
  <2> QED  BY <1>2, <2>1, <2>5, EndsHere
<1>5. CASE Told(type, flags, sender, payload, extra, Following(k + 1))
  <2>1. Type = type /\ Flags = flags /\ Sender = sender /\ Size = Len(payload)
      BY <1>5, Zenon DEF Told
  <2>2. ~ f.odd
      BY <1>2, <1>3, <2>1, HandledIsEven, Zenon
  <2>3. /\ extra = << >> /\ f.block # << >> /\ f.stream \in Stream
        /\ flags = END_HEADERS + END_STREAM /\ sender = f.stream /\ payload = f.block
    <3>1. type = HEADERS /\ HEADERS # PUSH_PROMISE /\ HEADERS \notin OtherType
      <4>1. HEADERS \notin OtherType
          BY NumbersFit
      <4> QED  BY <1>1, <2>1, <4>1 DEF HEADERS, PUSH_PROMISE
    <3> QED  BY <1>3, <2>2, <3>1, Zenon DEF Made
  <2>4. PICK n \in 0 .. Len(payload) :
              /\ Payload = SubSeq(payload, 1, n)
              /\ n < Len(payload) => truncated /\ Drop(Size, Rest) = << >>
              /\ Beginning(Drop(Size, Rest), Following(k + 1))
      BY <1>2, <1>5, <2>3, ToldPart, Zenon
  <2>5. fed0 = Payload
      BY <2>1, <2>3, FlagsAre
  <2>6. Payload \in Seq(Octet)
      BY <2>4, BeginningIs
  <2>7. buffer' = Payload /\ UNCHANGED << decTable, maxDynamicSize, decoded >>
    <3>1. Feed(Payload)
        BY <1>1, <2>5, Zenon
    <3> QED  BY <1>2, <2>6, <3>1, FeedsAll, Zenon
  <2>8. /\ n \in 0 .. Len(f.block) /\ buffer' = SubSeq(f.block, 1, n)
        /\ n < Len(f.block) => truncated /\ input' = << >>
        /\ Beginning(input', Following(k + 1))
        /\ target' = f.stream
      BY <1>1, <1>2, <2>1, <2>3, <2>4, <2>7, Zenon
  <2>9. UNCHANGED << stdVars, frames, moments, reading, truncated, shown, aborted,
                        decTable, decoded >>
      BY <1>2, <2>7, Zenon
  <2> QED  BY <1>2, <2>3, <2>8, <2>9, FedBlock, Zenon
<1> QED  BY <1>3, <1>4, <1>5

\* So does one of a promise, behind the number of its stream
\* (h2unpack.cc:115-120).
LEMMA PromiseKeeps ==
    ASSUME PeerInv, NEW k, Between(k), ReadPromise
    PROVE  ReaderInv'
<1> DEFINE f == frames[k + 1]
<1>1. TakeFrame /\ Type = PUSH_PROMISE /\ target' = ReadU32(Payload) /\ Feed(Drop(4, Payload))
    BY Zenon DEF ReadPromise, HandleHeaders
<1>2. /\ reading /\ ~ aborted /\ buffer = << >> /\ input # << >> /\ Handled
      /\ input' = Drop(Size, Rest)
      /\ UNCHANGED << stdVars, frames, moments, reading, truncated, shown, aborted >>
      /\ k \in 0 .. Len(frames) - 1 /\ k \in 0 .. Len(frames) /\ k + 1 \in 1 .. Len(frames)
      /\ shown = Before(k) /\ DecoderAt(moments[End(k) + 1])
      /\ Following(k + 1) \in Seq(Octet)
    BY <1>1, Taken, Zenon
<1>3. PICK type \in Octet, flags \in Octet, sender \in 0 .. Shift8 * Shift8 * Shift8 * Shift8 - 1,
           payload \in Seq(Octet), extra \in Seq(Octet) :
           /\ Len(payload) <= MaxFrameSize
           /\ Made(f, type, flags, sender, payload, extra)
           /\ Torn \/ Told(type, flags, sender, payload, extra, Following(k + 1))
    BY <1>2, FrameInput, Zenon
<1>4. CASE Torn
  <2>1. truncated /\ Payload = << >> /\ Drop(Size, Rest) = << >>
      BY <1>4, Zenon DEF Torn
  <2>2. Drop(4, << >>) = << >>
      BY DEF Drop
  <2>3. Drop(4, Payload) = << >>
      BY <2>1, <2>2
  <2>4. << >> \in Seq(Octet)
      OBVIOUS
  <2>5. buffer' = << >>
      BY <1>1, <1>2, <2>3, <2>4, FeedsAll
  <2> QED  BY <1>2, <2>1, <2>5, EndsHere
<1>5. CASE Told(type, flags, sender, payload, extra, Following(k + 1))
  <2>1. Type = type /\ Flags = flags /\ Sender = sender /\ Size = Len(payload)
      BY <1>5, Zenon DEF Told
  <2>2. ~ f.odd
      BY <1>2, <1>3, <2>1, HandledIsEven, Zenon
  <2>3. /\ extra = << >> /\ f.block # << >> /\ f.stream \in Stream
        /\ payload = U32(f.stream) \o f.block
    <3>1. type = PUSH_PROMISE /\ HEADERS # PUSH_PROMISE /\ PUSH_PROMISE \notin OtherType
      <4>1. PUSH_PROMISE \notin OtherType
          BY NumbersFit
      <4> QED  BY <1>1, <2>1, <4>1 DEF HEADERS, PUSH_PROMISE
    <3> QED  BY <1>3, <2>2, <3>1, Zenon DEF Made
  <2>4. PICK n \in 0 .. Len(payload) :
              /\ Payload = SubSeq(payload, 1, n)
              /\ n < Len(payload) => truncated /\ Drop(Size, Rest) = << >>
              /\ Beginning(Drop(Size, Rest), Following(k + 1))
      BY <1>2, <1>5, <2>3, ToldPart, Zenon
  <2>5. Payload \in Seq(Octet) /\ Len(Payload) = n
      BY <2>4, BeginningIs
  <2>6. Drop(4, Payload) \in Seq(Octet)
        /\ Len(Drop(4, Payload)) = IF 4 <= Len(Payload) THEN Len(Payload) - 4 ELSE 0
    <3>1. 4 \in Nat
        OBVIOUS
    <3> QED  BY <2>5, <3>1, DropIs, Zenon
  <2>7. buffer' = Drop(4, Payload) /\ UNCHANGED << decTable, maxDynamicSize, decoded >>
      BY <1>1, <1>2, <2>6, FeedsAll, Zenon
  <2>8. f.block \in Seq(Octet)
    <3>1. f \in FrameType
        BY <1>2, EndType DEF PeerInv
    <3> QED  BY <3>1 DEF FrameType
  <2>9. /\ U32(f.stream) \in Seq(Octet) /\ Len(U32(f.stream)) = 4
        /\ \A tail \in Seq(Octet) : ReadU32(U32(f.stream) \o tail) = f.stream
    <3>1. f.stream \in 0 .. Shift8 * Shift8 * Shift8 * Shift8 - 1
        BY <2>3, NumbersFit, Zenon
    <3>2. << >> \in Seq(Octet)
        OBVIOUS
    <3>3. U32(f.stream) \in Seq(Octet) /\ Len(U32(f.stream)) = 4
        BY <3>1, <3>2, ReadOfU32, Zenon
    <3>4. \A tail \in Seq(Octet) : ReadU32(U32(f.stream) \o tail) = f.stream
        BY <3>1, ReadOfU32, Zenon
    <3> QED  BY <3>3, <3>4
  <2>10. Len(payload) = 4 + Len(f.block) /\ Len(f.block) \in Nat
    <3>1. Len(U32(f.stream) \o f.block) = Len(U32(f.stream)) + Len(f.block) /\ Len(f.block) \in Nat
        BY <2>8, <2>9, ConcatType, Zenon
    <3> QED  BY <2>3, <2>9, <3>1, Zenon
  <2>11. \E m \in 0 .. Len(f.block) :
            /\ Drop(4, Payload) = SubSeq(f.block, 1, m)
            /\ m < Len(f.block) => n < Len(payload)
            /\ m # 0 => target' = f.stream
    <3> DEFINE lp == Len(payload)
               lb == Len(f.block)
    <3>1. lp = 4 + lb /\ lb \in Nat /\ n \in 0 .. lp
        BY <2>10
    <3>2. CASE n < 4
      <4>1. Drop(4, Payload) = << >>
        <5>1. Len(Drop(4, Payload)) = 0
            BY <2>5, <2>6, <3>2
        <5> QED  BY <2>6, <5>1, EmptySeq
      <4>2. SubSeq(f.block, 1, 0) = << >>
          BY SubSeqEmpty
      <4> HIDE DEF lp, lb
      <4>3. n < lp /\ 0 \in 0 .. lb
          BY <3>1, <3>2
      <4> QED  BY <4>1, <4>2, <4>3, Zenon DEF lp, lb
    <3>3. CASE ~ (n < 4)
      <4> HIDE DEF lp, lb
      <4>1. n - 4 \in 0 .. lb /\ (n - 4 < lb => n < lp) /\ n >= 4
            /\ n \in 0 .. 4 + lb
          BY <3>1, <3>3
      <4>2. PICK m : m = n - 4
          OBVIOUS
      <4> DEFINE u == U32(f.stream)
                 t == SubSeq(f.block, 1, m)
      <4>3. t \in Seq(Octet)
        <5>1. m \in 0 .. Len(f.block)
            BY <4>1, <4>2 DEF lb
        <5> QED  BY <2>8, <5>1, BeginningIs
      <4>4. Payload = u \o t
        <5>1. n \in 0 .. Len(u) + Len(f.block) /\ n >= Len(u) /\ n - Len(u) = m
            BY <2>9, <4>1, <4>2 DEF lb
        <5>2. SubSeq(u \o f.block, 1, n) = u \o SubSeq(f.block, 1, n - Len(u))
            BY <2>8, <2>9, <5>1, BeginningOfConcat, Zenon
        <5> QED  BY <2>3, <2>4, <5>1, <5>2, Zenon
      <4>5. Drop(4, Payload) = t
        <5>1. Drop(Len(u), u \o t) = t
            BY <2>9, <4>3, DropFront, Zenon
        <5> QED  BY <2>9, <4>4, <5>1, Zenon
      <4>6. target' = f.stream
          BY <1>1, <2>9, <4>3, <4>4, Zenon
      <4> QED  BY <4>1, <4>2, <4>5, <4>6, Zenon DEF lp, lb
    <3> QED  BY <3>2, <3>3
  <2>12. PICK m \in 0 .. Len(f.block) :
            /\ buffer' = SubSeq(f.block, 1, m)
            /\ m < Len(f.block) => truncated /\ input' = << >>
            /\ m # 0 => target' = f.stream
      BY <1>2, <2>4, <2>7, <2>11, Zenon
  <2>13. Beginning(input', Following(k + 1))
      BY <1>2, <2>4, Zenon
  <2>14. UNCHANGED << stdVars, frames, moments, reading, truncated, shown, aborted,
                        decTable, decoded >>
      BY <1>2, <2>7, Zenon
  <2> QED  BY <1>2, <2>3, <2>12, <2>13, <2>14, FedBlock, Zenon
<1> QED  BY <1>3, <1>4, <1>5

\* h2unpack stands in front of the next frame.
LEMMA BetweenThen ==
    ASSUME PeerInv, NEW k \in 0 .. Len(frames), reading,
           UNCHANGED << stdVars, frames, moments, reading, truncated, decTable, decoded >>,
           buffer' = << >>, Beginning(input', Following(k)), shown' = Before(k),
           NEW i, End(k) + 1 = i, DecoderAt(moments[i]),
           aborted' => truncated \/ (k < Len(frames) /\ frames[k + 1].odd)
    PROVE  ReaderInv'
<1>1. DecoderAt(moments[i])'
    BY DecoderSame
<1>2. /\ Following(k)' = Following(k) /\ Before(k)' = Before(k) /\ (End(k) + 1)' = i
    BY PeerSame
<1>3. DecoderAt(moments[End(k) + 1])'
    BY <1>1, <1>2 DEF DecoderAt, Agrees, Accounted
<1>4. Beginning(input, Following(k))'
    BY <1>2 DEF Beginning
<1>5. (aborted => truncated \/ (k < Len(frames) /\ frames[k + 1].odd))'
    OBVIOUS
<1>6. Between(k)'
    BY <1>2, <1>3, <1>4, <1>5 DEF Between
<1> QED  BY <1>6 DEF ReaderInv

\* What is not handled is skipped (h2unpack.cc:122-126).
LEMMA OtherKeeps ==
    ASSUME PeerInv, NEW k, Between(k), ReadOther
    PROVE  ReaderInv'
<1> DEFINE f == frames[k + 1]
<1>1. TakeFrame /\ Type \notin {HEADERS, PUSH_PROMISE} /\ UNCHANGED << target, unpackVars >>
    BY Zenon DEF ReadOther
<1>2. /\ reading /\ ~ aborted /\ buffer = << >> /\ input # << >> /\ Handled
      /\ input' = Drop(Size, Rest)
      /\ UNCHANGED << stdVars, frames, moments, reading, truncated, shown, aborted >>
      /\ k \in 0 .. Len(frames) - 1 /\ k \in 0 .. Len(frames) /\ k + 1 \in 1 .. Len(frames)
      /\ shown = Before(k) /\ DecoderAt(moments[End(k) + 1])
      /\ Following(k + 1) \in Seq(Octet)
    BY <1>1, Taken, Zenon
<1>3. PICK type \in Octet, flags \in Octet, sender \in 0 .. Shift8 * Shift8 * Shift8 * Shift8 - 1,
           payload \in Seq(Octet), extra \in Seq(Octet) :
           /\ Len(payload) <= MaxFrameSize
           /\ Made(f, type, flags, sender, payload, extra)
           /\ Torn \/ Told(type, flags, sender, payload, extra, Following(k + 1))
    BY <1>2, FrameInput, Zenon
<1>4. buffer' = << >> /\ UNCHANGED << decTable, decoded >>
    BY <1>1, <1>2 DEF unpackVars
<1>5. CASE Torn
  <2>1. truncated /\ input' = << >>
      BY <1>2, <1>5, Zenon DEF Torn
  <2> QED  BY <1>2, <1>4, <2>1, EndsHere
<1>6. CASE Told(type, flags, sender, payload, extra, Following(k + 1))
  <2>1. Type = type /\ Flags = flags /\ Sender = sender /\ Size = Len(payload)
      BY <1>6, Zenon DEF Told
  <2>2. ~ f.odd
      BY <1>2, <1>3, <2>1, HandledIsEven, Zenon
  <2>3. /\ extra = << >> /\ f.block = << >> /\ f.headers = << >>
    <3>1. type # HEADERS /\ type # PUSH_PROMISE
        BY <1>1, <2>1
    <3> QED  BY <1>3, <2>2, <3>1, Zenon DEF Made
  <2>4. PICK n \in 0 .. Len(payload) :
              /\ n < Len(payload) => truncated /\ Drop(Size, Rest) = << >>
              /\ Beginning(Drop(Size, Rest), Following(k + 1))
      BY <1>2, <1>6, <2>3, ToldPart, Zenon
  <2>5. Beginning(input', Following(k + 1))
      BY <1>2, <2>4, Zenon
  <2>6. (k + 1) - 1 = k /\ k + 1 \in 0 .. Len(frames) /\ k < Len(frames)
      BY <1>2
  <2>7. End(k + 1) = End(k)
    <3>1. End(k + 1) = f.upto
        BY <1>2, EndType DEF PeerInv
    <3>2. f.upto = End((k + 1) - 1)
        BY <1>2, <2>3 DEF PeerInv, FramesInv, Carries
    <3> QED  BY <2>6, <3>1, <3>2
  <2>8. shown' = Before(k + 1)
    <3>1. Before(k) \in Seq(Line) /\ Before(k + 1) = Before(k) \o f.headers
        BY <1>2, <2>6, FollowingFirst DEF PeerInv
    <3>2. Before(k) \o << >> = Before(k)
        BY <3>1, ConcatEmptySeq
    <3> QED  BY <1>2, <2>3, <3>1, <3>2
  <2>9. PICK i : i = End(k + 1) + 1
      OBVIOUS
  <2>10. DecoderAt(moments[i])
    <3>1. moments[i] = moments[End(k) + 1]
        BY <2>7, <2>9
    <3> QED  BY <1>2, <3>1
  <2>11. ~ aborted'
      BY <1>2
  <2> QED  BY <1>2, <1>4, <2>5, <2>6, <2>8, <2>9, <2>10, <2>11, BetweenThen
<1> QED  BY <1>3, <1>5, <1>6

\* An assertion of read_frame fails at the end of what was read, or of a frame
\* that is not handled.
LEMMA AbortKeeps ==
    ASSUME PeerInv, NEW k, Between(k), ReadFrameAborts
    PROVE  ReaderInv'
<1> DEFINE f == frames[k + 1]
<1>1. /\ reading /\ ~ aborted /\ buffer = << >> /\ input # << >>
      /\ ~ Handled \/ Size > Len(Rest)
      /\ UNCHANGED << stdVars, unpackVars, frames, moments, reading, input, truncated, shown >>
    BY Zenon DEF ReadFrameAborts, AtFrame
<1>2. k \in 0 .. Len(frames) - 1 /\ k + 1 \in 1 .. Len(frames)
    BY <1>1, FrameInput, Zenon
<1>3. PICK type \in Octet, flags \in Octet, sender \in 0 .. Shift8 * Shift8 * Shift8 * Shift8 - 1,
           payload \in Seq(Octet), extra \in Seq(Octet) :
           /\ Len(payload) <= MaxFrameSize
           /\ Made(f, type, flags, sender, payload, extra)
           /\ Torn \/ Told(type, flags, sender, payload, extra, Following(k + 1))
    BY <1>1, FrameInput, Zenon
<1>4. truncated \/ f.odd
  <2>1. CASE Torn
      BY <2>1, Zenon DEF Torn
  <2>2. CASE Told(type, flags, sender, payload, extra, Following(k + 1))
    <3>1. Type = type /\ Flags = flags /\ Size = Len(payload)
        BY <2>2, Zenon DEF Told
    <3>2. truncated \/ ~ (Size > Len(Rest))
        BY <2>2, Zenon DEF Told
    <3>3. Handled <=> ~ f.odd
        BY <1>3, <3>1, HandledIsEven, Zenon
    <3> QED  BY <1>1, <3>2, <3>3, Zenon
  <2> QED  BY <1>3, <2>1, <2>2, Zenon
<1>5. k \in 0 .. Len(frames) /\ k < Len(frames)
    BY <1>2
<1>6. /\ buffer' = << >> /\ Beginning(input', Following(k)) /\ shown' = Before(k)
      /\ DecoderAt(moments[End(k) + 1]) /\ UNCHANGED << decTable, decoded >>
  <2>1. UNCHANGED << buffer, decTable, decoded, input, shown >>
      BY <1>1 DEF unpackVars
  <2>2. buffer = << >> /\ Beginning(input, Following(k)) /\ shown = Before(k)
        /\ DecoderAt(moments[End(k) + 1])
      BY DEF Between
  <2> QED  BY <2>1, <2>2
<1>7. PICK i : i = End(k) + 1
    OBVIOUS
<1> QED  BY <1>1, <1>4, <1>5, <1>6, <1>7, BetweenThen

\* Nothing has been read of what was written.
LEMMA StdinKeeps ==
    ASSUME PeerInv, MomentsInv, ReaderInv, ReadStdin
    PROVE  ReaderInv'
<1> DEFINE all == Octets(1, Len(frames))
<1>1. /\ ~ reading /\ reading'
      /\ \E r \in 0 .. Len(all) : input' = SubSeq(all, 1, r) /\ truncated' = (r < Len(all))
      /\ UNCHANGED << stdVars, wireVars, block, opened, frames, moments, target, shown >>
    BY Zenon DEF ReadStdin
<1>2. /\ ~ aborted /\ buffer = << >> /\ shown = << >>
      /\ decTable = EmptyTable /\ decoded = << >>
    BY <1>1 DEF ReaderInv
<1>3. 0 \in 0 .. Len(frames) /\ Len(frames) \in Nat
    BY FollowingType DEF PeerInv
<1>4. all = Following(0) /\ Before(0) = << >> /\ Following(0) \in Seq(Octet)
  <2>1. FramesInv
      BY DEF PeerInv
  <2>2. Octets(0 + 1, Len(frames)) = Following(0) /\ 0 + 1 = 1
      BY <1>3, <2>1, OctetsAre
  <2> QED  BY <1>3, <2>1, <2>2, FollowingFirst
<1>5. PICK r \in 0 .. Len(Following(0)) :
         input' = SubSeq(Following(0), 1, r) /\ truncated' = (r < Len(Following(0)))
    BY <1>1, <1>4, Zenon
<1>6. truncated' \/ r = Len(Following(0))
  <2> DEFINE l == Len(Following(0))
  <2>1. l \in Nat
      BY <1>4
  <2> HIDE DEF l
  <2>2. r \in 0 .. l /\ truncated' = (r < l)
      BY <1>5 DEF l
  <2>3. r < l \/ r = l
      BY <2>1, <2>2
  <2> QED  BY <2>2, <2>3, Zenon DEF l
<1>7. Following(0)' = Following(0) /\ Before(0)' = Before(0) /\ End(0)' = 0
    BY <1>1, PeerSame DEF End
<1>8. UNCHANGED << sent, moments, buffer, aborted, decTable, decoded, frames, shown >>
    BY <1>1 DEF stdVars, wireVars, unpackVars
<1>9. Beginning(input, Following(0))'
    BY <1>5, <1>6, <1>7 DEF Beginning
<1>10. DecoderAt(moments[1])
  <2>1. moments[1].count = 0 /\ moments[1].table = << >>
      BY DEF MomentsInv
  <2>2. Accounted(decTable)
      BY <1>2, EmptyAccounted
  <2>3. decTable \in Table
      BY <1>2 DEF EmptyTable, Table
  <2>4. decoded \in Seq(Entry) /\ Len(decoded) = 0
      BY <1>2
  <2>5. Agrees(<< >>, decTable.table)
      BY <1>2 DEF Agrees, EmptyTable
  <2> QED  BY <2>1, <2>2, <2>3, <2>4, <2>5 DEF DecoderAt
<1>11. DecoderAt(moments[End(0) + 1])'
  <2>1. DecoderAt(moments[1])'
      BY <1>1, <1>8, <1>10, DecoderSame
  <2>2. (End(0) + 1)' = 1
      BY <1>7
  <2> QED  BY <2>1, <2>2 DEF DecoderAt, Agrees, Accounted
<1>12. Between(0)'
    BY <1>2, <1>3, <1>4, <1>7, <1>8, <1>9, <1>11 DEF Between
<1> QED  BY <1>1, <1>12 DEF ReaderInv

\* A beginning of the lines of the frames is right, and so is one more line at
\* the end of what was cut short.
LEMMA ShownPrefix ==
    ASSUME FramesInv, shown \in Seq(Line), IsPrefix(shown, Carried(Len(frames)))
    PROVE  ShownRight
<1> DEFINE c == Carried(Len(frames))
<1>1. c \in Seq(Line)
  <2>1. Len(frames) \in 0 .. Len(frames)
      BY FollowingType
  <2> QED  BY <2>1, OctetsAre, FollowingFirst
<1>2. shown # << >> => IsPrefix(Front(shown), c)
    BY <1>1, FrontIsPrefix
<1> QED  BY <1>2 DEF ShownRight

\* What is shown of a frame in the middle of its block.
LEMMA ShownPart ==
    ASSUME PeerInv, NEW k \in 1 .. Len(frames), frames[k].stream \in Stream,
           NEW d, d = End(k - 1), NEW e, e = End(k), NEW i \in d .. e, NEW s,
           s = Before(k - 1) \o Tagged(frames[k].stream, HeadersOf(d, i))
    PROVE  /\ s \in Seq(Line)
           /\ IsPrefix(s, Carried(Len(frames)))
           /\ i = e => s = Before(k)
<1> DEFINE t == frames[k].stream
           b == Before(k - 1)
           x == Tagged(t, HeadersOf(d, i))
           y == Tagged(t, HeadersOf(i, e))
           n == Len(frames)
<1>1. EncoderInv /\ FramesInv /\ Len(frames) \in Nat
    BY FollowingType DEF PeerInv
<1>2. /\ k - 1 \in 0 .. n /\ k \in 0 .. n /\ n \in 0 .. n /\ (k - 1) + 1 = k /\ k - 1 < n
    BY <1>1
<1>3. d \in 0 .. Len(out) /\ e \in d .. Len(out) /\ e = frames[k].upto /\ Len(out) \in Nat
    BY <1>1, <1>2, EndType, SpellingsType
<1>4. i \in d .. Len(out) /\ e \in i .. Len(out) /\ i \in 0 .. Len(out)
    BY <1>3
<1>5. /\ HeadersOf(d, i) \in Seq(Entry) /\ HeadersOf(i, e) \in Seq(Entry)
      /\ HeadersOf(d, e) = HeadersOf(d, i) \o HeadersOf(i, e)
      /\ HeadersOf(i, i) = << >>
  <2>1. i \in i .. Len(out)
      BY <1>4
  <2>2. HeadersOf(i, i) = << >>
      BY <1>1, <1>4, <2>1, HeadersSplit
  <2> QED  BY <1>1, <1>3, <1>4, <2>2, HeadersSplit
<1>6. Tagged(t, HeadersOf(d, i) \o HeadersOf(i, e)) = x \o y
    BY <1>5, TaggedConcat
<1>7. x \in Seq(Line) /\ y \in Seq(Line)
    BY <1>5, TaggedType DEF Line
<1>8. frames[k].headers = x \o y
    BY <1>1, <1>3, <1>5, <1>6 DEF FramesInv, Carries
<1>9. b \in Seq(Line) /\ Before(k) = b \o (x \o y) /\ Before(k) \in Seq(Line)
  <2>1. PICK j : j = k - 1
      OBVIOUS
  <2>2. j \in 0 .. Len(frames) /\ j < Len(frames) /\ j + 1 = k
      BY <1>2, <2>1
  <2>3. Before(j) \in Seq(Line) /\ Before(j + 1) = Before(j) \o frames[j + 1].headers
      BY <1>1, <2>2, FollowingFirst
  <2>4. Before(k) \in Seq(Line)
      BY <1>1, <1>2, FollowingFirst
  <2> QED  BY <1>8, <2>1, <2>2, <2>3, <2>4
<1>10. i = e => y = << >>
    BY <1>5, TaggedNone
<1>11. IsPrefix(Before(k), Before(n)) /\ Before(n) \in Seq(Line) /\ Carried(n) = Before(n)
    BY <1>1, <1>2, BeforeIsPrefix, FollowingFirst, OctetsAre
<1>12. s = b \o x
    OBVIOUS
<1> HIDE DEF b, x, y, n
<1>13. s \in Seq(Line)
    BY <1>7, <1>9, <1>12, ConcatType, Zenon
<1>14. b \o (x \o y) = s \o y
  <2>1. b \in Seq(Line) /\ x \in Seq(Line) /\ y \in Seq(Line)
      BY <1>7, <1>9
  <2>2. (b \o x) \o y = b \o (x \o y)
      BY <2>1, ConcatThree, SMTT(40)
  <2> QED  BY <1>12, <2>2
<1>15. IsPrefix(s, Before(k))
    BY <1>7, <1>9, <1>13, <1>14, PrefixOfConcat
<1>16. IsPrefix(s, Before(n))
    BY <1>9, <1>11, <1>13, <1>15, PrefixTransitive, Zenon
<1>17. i = e => s = Before(k)
    BY <1>9, <1>10, <1>13, <1>14, ConcatEmptySeq
<1> QED  BY <1>11, <1>13, <1>16, <1>17 DEF n

\* The instruction that the decoder is in front of in a block.
LEMMA WithinIs ==
    ASSUME PeerInv, NEW k, NEW i, Within(k, i), NEW d, d = End(k - 1), NEW e, e = End(k)
    PROVE  /\ EncoderInv /\ FramesInv
           /\ k \in 1 .. Len(frames) /\ k - 1 \in 0 .. Len(frames) /\ k \in 0 .. Len(frames)
           /\ d \in 0 .. Len(out) /\ i \in d .. e - 1 /\ i \in d .. e /\ e \in i + 1 .. Len(out)
           /\ i \in 0 .. Len(out) - 1 /\ i \in 0 .. Len(out) /\ i + 1 \in d .. e /\ i + 1 \in 1 .. Len(out)
           /\ Wireable(out[i + 1]) /\ PlainlySpelled(out[i + 1], Spellings[i + 1])
           /\ Spellings[i + 1] \in Seq(Octet) /\ Pieces(i + 1, e) \in Seq(Octet)
           /\ Pieces(i, e) = Spellings[i + 1] \o Pieces(i + 1, e)
<1>1. EncoderInv /\ FramesInv /\ Len(frames) \in Nat /\ Len(out) \in Nat
    BY FollowingType, SpellingsType DEF PeerInv
<1>2. k \in 1 .. Len(frames) /\ i \in d .. e - 1
    BY DEF Within
<1>3. d \in 0 .. Len(out) /\ e \in d .. Len(out) /\ k - 1 \in 0 .. Len(frames)
    BY <1>1, <1>2, EndType
<1>4. /\ k \in 0 .. Len(frames) /\ i \in d .. e /\ e \in i + 1 .. Len(out)
      /\ i \in 0 .. Len(out) - 1 /\ i \in 0 .. Len(out) /\ i + 1 \in d .. e /\ i + 1 \in 1 .. Len(out)
    BY <1>1, <1>2, <1>3
<1>5. Wireable(out[i + 1]) /\ PlainlySpelled(out[i + 1], Spellings[i + 1])
    BY <1>1, <1>4, SpellingsType
<1>6. /\ Spellings[i + 1] \in Seq(Octet) /\ Pieces(i + 1, e) \in Seq(Octet)
      /\ Pieces(i, e) = Spellings[i + 1] \o Pieces(i + 1, e)
    BY <1>1, <1>4, PiecesFirst
<1> QED  BY <1>1, <1>2, <1>3, <1>4, <1>5, <1>6

\* Sequences that begin alike have the same parts there.
LEMMA PartOfSame ==
    ASSUME NEW S, NEW s \in Seq(S), NEW t \in Seq(S), Len(s) <= Len(t),
           \A n \in 1 .. Len(s) : s[n] = t[n], NEW m \in 0 .. Len(s)
    PROVE  SubSeq(s, m + 1, Len(s)) = SubSeq(t, m + 1, Len(s))
<1> DEFINE a == SubSeq(s, m + 1, Len(s))
           b == SubSeq(t, m + 1, Len(s))
<1>1. Len(s) \in Nat /\ Len(t) \in Nat /\ m \in Nat
    OBVIOUS
<1>2. /\ a \in Seq(S) /\ Len(a) = Len(s) - m /\ \A n \in 1 .. Len(s) - m : a[n] = s[m + n]
      /\ b \in Seq(S) /\ Len(b) = Len(s) - m /\ \A n \in 1 .. Len(s) - m : b[n] = t[m + n]
    BY <1>1
<1>3. \A n \in 1 .. Len(s) - m : m + n \in 1 .. Len(s)
    BY <1>1
<1> HIDE DEF a, b
<1>4. \A n \in 1 .. Len(a) : a[n] = b[n]
    BY <1>2, <1>3
<1>5. a = b
    BY <1>2, <1>4, SeqEqual
<1> QED  BY <1>5 DEF a, b

\* A turn on all the octets of an instruction shows the headers that were
\* encoded with it.
LEMMA TurnShows ==
    ASSUME PeerInv, MomentsInv, NEW i \in 0 .. Len(out) - 1,
           DecoderAt(moments[i + 1]), CarriesOut(out[i + 1]),
           UNCHANGED << stdVars, moments >>
    PROVE  /\ DecoderAt(moments[i + 2])'
           /\ SubSeq(decoded', Len(decoded) + 1, Len(decoded')) = HeadersOf(i, i + 1)
<1>1. EncoderInv
    BY DEF PeerInv
<1> DEFINE a == moments[i + 1]
           b == moments[i + 2]
           instr == out[i + 1]
<1>2. /\ a \in MomentType /\ b \in MomentType
      /\ a.count <= Len(sent) /\ b.count <= Len(sent)
      /\ Denotes(instr, a, sent[b.count], b)
    BY <1>1, MomentsDenote
<1>3. /\ Wireable(instr) /\ sent \in Seq(Header) /\ sent \in Seq(Entry)
      /\ a.count <= b.count /\ sent' = sent /\ moments' = moments
  <2>1. /\ i + 1 \in 1 .. Len(moments) /\ i + 2 \in 1 .. Len(moments) /\ i + 1 <= i + 2
        /\ i + 1 \in 1 .. Len(out)
      BY <1>1, SpellingsType DEF EncoderInv
  <2>2. sent \in Seq(Entry) /\ sent' = sent /\ moments' = moments
      BY <1>1, HeaderAssumption DEF EncoderInv, stdVars
  <2>3. Wireable(instr)
      BY <1>1, <2>1, SpellingsType
  <2>4. moments[i + 1].count <= moments[i + 2].count
      BY <1>1, <2>1 DEF EncoderInv
  <2>5. sent \in Seq(Header)
      BY <1>1 DEF EncoderInv
  <2> QED  BY <2>2, <2>3, <2>4, <2>5
<1>4. DecoderAt(a) /\ CarriesOut(instr)
    OBVIOUS
<1>5. HeadersOf(i, i + 1) = SubSeq(sent, a.count + 1, b.count)
  <2>1. (i + 1) + 1 = i + 2
      OBVIOUS
  <2> QED  BY <2>1 DEF HeadersOf
<1>6. DecoderAt(moments[i + 2])' <=> DecoderAt(b)'
    BY <1>3
<1> HIDE DEF a, b, instr
<1>7. a.count \in Nat /\ b.count \in Nat
    BY <1>2 DEF MomentType
<1>8. CarriedOut(b)
    BY <1>2, <1>3, <1>4, MeantIsDone
<1>10. /\ decoded' \in Seq(Entry) /\ Len(decoded') = b.count
       /\ \A n \in 1 .. Len(decoded') : decoded'[n] = sent[n]
    BY <1>3, <1>8 DEF CarriedOut
<1>11. Len(decoded) = a.count /\ a.count \in Nat /\ b.count \in Nat
    BY <1>4, <1>7 DEF DecoderAt
<1>12. SubSeq(decoded', Len(decoded) + 1, Len(decoded')) = SubSeq(sent, a.count + 1, b.count)
  <2>1. PICK s, t, m : s = decoded' /\ t = sent /\ m = a.count
      OBVIOUS
  <2>2. /\ s \in Seq(Entry) /\ t \in Seq(Entry) /\ Len(s) <= Len(t)
        /\ \A n \in 1 .. Len(s) : s[n] = t[n]
        /\ m \in 0 .. Len(s)
      BY <1>2, <1>3, <1>10, <1>11, <2>1
  <2>3. SubSeq(s, m + 1, Len(s)) = SubSeq(t, m + 1, Len(s))
      BY <2>2, PartOfSame
  <2> QED  BY <1>10, <1>11, <2>1, <2>3
<1>13. DecoderAt(b)'
    BY <1>3, <1>8 DEF a, b, CarriedOut, DecoderAt, Agrees,
       Accounted
<1> QED  BY <1>5, <1>6, <1>12, <1>13

\* One on some of them shows a line or none, which may be wrong.
LEMMA TurnSpoilsLine ==
    ASSUME NEW instr, Spoils(instr), ~ UNCHANGED unpackVars, decoded \in Seq(Entry),
           decTable \in Table
    PROVE  /\ buffer' = << >> /\ aborted' = aborted
           /\ LET new == SubSeq(decoded', Len(decoded) + 1, Len(decoded'))
              IN  new = << >> \/ \E e \in Entry : new = << e >>
<1>1. buffer' = << >> /\ aborted' = aborted
    BY DEF Spoils
<1>2. decoded' = decoded \/ \E e \in Entry : decoded' = Append(decoded, e)
  <2>1. \A i \in UInt : Get(decTable.table, i) \in Entry
      BY UIntType, AnyGetType DEF Table
  <2> QED  BY <2>1 DEF Spoils, Deliver
<1>3. PICK d : d = decoded
    OBVIOUS
<1>4. d \in Seq(Entry) /\ Len(d) \in Nat
    BY <1>3
<1>5. CASE decoded' = decoded
  <2>1. SubSeq(d, Len(d) + 1, Len(d)) = << >>
      BY <1>4, SubSeqEmpty
  <2> QED  BY <1>1, <1>3, <1>5, <2>1
<1>6. ASSUME NEW e \in Entry, decoded' = Append(decoded, e)
      PROVE  SubSeq(decoded', Len(decoded) + 1, Len(decoded')) = << e >>
  <2> DEFINE c == Append(d, e)
             s == SubSeq(c, Len(d) + 1, Len(c))
  <2>1. c \in Seq(Entry) /\ Len(c) = Len(d) + 1 /\ c[Len(d) + 1] = e
      BY <1>4, <1>6
  <2> HIDE DEF c
  <2>2. s \in Seq(Entry) /\ Len(s) = 1 /\ s[1] = c[Len(d) + 1]
      BY <1>4, <2>1
  <2> HIDE DEF s
  <2>3. s = << e >>
      BY <2>1, <2>2
  <2> QED  BY <1>3, <1>6, <2>3 DEF s, c
<1> QED  BY <1>1, <1>2, <1>5, <1>6

\* What is shown is right, and stays so.
LEMMA RightThen ==
    ASSUME FramesInv, shown' \in Seq(Line), IsPrefix(shown', Carried(Len(frames))),
           UNCHANGED << stdVars, frames, moments >>
    PROVE  ShownRight'
<1> DEFINE c == Carried(Len(frames))
<1>1. c \in Seq(Line)
  <2>1. Len(frames) \in 0 .. Len(frames)
      BY FollowingType
  <2> QED  BY <2>1, OctetsAre, FollowingFirst
<1>2. c' = c
    BY PeerSame
<1>3. PICK s : s = shown'
    OBVIOUS
<1> HIDE DEF c
<1>4. s \in Seq(Line) /\ IsPrefix(s, c)
    BY <1>3 DEF c
<1>5. s # << >> => IsPrefix(Front(s), c)
    BY <1>1, <1>4, FrontIsPrefix
<1>6. (IF truncated' /\ ~ aborted' /\ s # << >> THEN IsPrefix(Front(s), c) ELSE IsPrefix(s, c))
    BY <1>4, <1>5
<1> QED  BY <1>2, <1>3, <1>6 DEF ShownRight, c

\* The decoder goes on behind an instruction: to the next of the block, or
\* the next frame.
LEMMA WithinThen ==
    ASSUME PeerInv, NEW k, NEW i, Within(k, i), reading, ~ aborted,
           UNCHANGED << stdVars, frames, moments, reading, truncated, input, target, aborted >>,
           NEW e, e = End(k), NEW m \in 0 .. Len(Pieces(i + 1, e)),
           buffer' = SubSeq(Pieces(i + 1, e), 1, m),
           m < Len(Pieces(i + 1, e)) => truncated /\ input = << >>,
           shown' = shown \o Tagged(target, HeadersOf(i, i + 1)),
           DecoderAt(moments[i + 2])'
    PROVE  ReaderInv'
<1>1. PICK d, j : d = End(k - 1) /\ j = i + 1
    OBVIOUS
<1>2. /\ EncoderInv /\ FramesInv
      /\ k \in 1 .. Len(frames) /\ k - 1 \in 0 .. Len(frames) /\ k \in 0 .. Len(frames)
      /\ d \in 0 .. Len(out) /\ i \in d .. e /\ e \in j .. Len(out) /\ i \in 0 .. Len(out)
      /\ j \in d .. e /\ j \in 1 .. Len(out) /\ Pieces(j, e) \in Seq(Octet)
  <2>1. /\ EncoderInv /\ FramesInv
        /\ k \in 1 .. Len(frames) /\ k - 1 \in 0 .. Len(frames) /\ k \in 0 .. Len(frames)
        /\ d \in 0 .. Len(out) /\ i \in d .. e /\ e \in i + 1 .. Len(out) /\ i \in 0 .. Len(out)
        /\ i + 1 \in d .. e /\ i + 1 \in 1 .. Len(out) /\ Pieces(i + 1, e) \in Seq(Octet)
      BY <1>1, WithinIs
  <2> QED  BY <1>1, <2>1
<1>3. Len(out) \in Nat /\ Len(frames) \in Nat /\ j \in 0 .. Len(out) /\ j \in i .. Len(out)
  <2>1. Len(out) \in Nat /\ Len(frames) \in Nat
      BY <1>2, FollowingType, SpellingsType
  <2> QED  BY <1>1, <1>2, <2>1
<1>4. target = frames[k].stream /\ target \in Stream /\ Beginning(input, Following(k))
      /\ shown = Before(k - 1) \o Tagged(target, HeadersOf(d, i))
    BY <1>1 DEF Within
<1>5. shown' = Before(k - 1) \o Tagged(target, HeadersOf(d, j))
  <2> DEFINE x == Tagged(target, HeadersOf(d, i))
             y == Tagged(target, HeadersOf(i, j))
             b == Before(k - 1)
  <2>1. /\ HeadersOf(d, i) \in Seq(Entry) /\ HeadersOf(i, j) \in Seq(Entry)
        /\ HeadersOf(d, j) = HeadersOf(d, i) \o HeadersOf(i, j)
    <3>1. i \in d .. Len(out)
        BY <1>2, <1>3
    <3> QED  BY <1>2, <1>3, <3>1, HeadersSplit
  <2>2. Tagged(target, HeadersOf(d, j)) = x \o y
      BY <1>4, <2>1, TaggedConcat
  <2>3. x \in Seq(Line) /\ y \in Seq(Line)
      BY <1>4, <2>1, TaggedType DEF Line
  <2>4. b \in Seq(Line)
      BY <1>2, FollowingFirst
  <2>5. shown' = (b \o x) \o y
      BY <1>1, <1>4
  <2> HIDE DEF x, y, b
  <2>6. (b \o x) \o y = b \o (x \o y)
      BY <2>3, <2>4, ConcatThree
  <2> QED  BY <2>2, <2>5, <2>6 DEF b
<1>6. PICK s : s = shown'
    OBVIOUS
<1>7. /\ s \in Seq(Line)
      /\ IsPrefix(s, Carried(Len(frames)))
      /\ j = e => s = Before(k)
  <2>1. s = Before(k - 1) \o Tagged(frames[k].stream, HeadersOf(d, j))
      BY <1>4, <1>5, <1>6
  <2>2. frames[k].stream \in Stream
      BY <1>4
  <2> QED  BY <1>1, <1>2, <2>1, <2>2, ShownPart
<1>8. buffer' = SubSeq(Pieces(j, e), 1, m) /\ m \in 0 .. Len(Pieces(j, e))
      /\ (m < Len(Pieces(j, e)) => truncated /\ input = << >>)
    BY <1>1
<1>9. DecoderAt(moments[j + 1])'
  <2>1. j + 1 = i + 2
      BY <1>1, <1>2
  <2> QED  BY <2>1
<1>10. ASSUME m = 0  PROVE buffer' = << >>
    BY <1>8, <1>10, SubSeqEmpty
<1>11. /\ Following(k)' = Following(k) /\ Before(k)' = Before(k) /\ End(k)' = e
       /\ Before(k - 1)' = Before(k - 1) /\ End(k - 1)' = d
       /\ Pieces(j, e)' = Pieces(j, e) /\ HeadersOf(d, j)' = HeadersOf(d, j)
    BY <1>1, PeerSame
<1>12. Beginning(input, Following(k))'
    BY <1>4, <1>11 DEF Beginning
<1>13. CASE j = e
  <2>1. Pieces(j, e) = << >>
    <3>1. j \in j .. Len(out)
        BY <1>3
    <3> QED  BY <1>2, <1>3, <1>13, <3>1, PiecesSplit
  <2>2. m = 0
      BY <1>8, <2>1
  <2>3. DecoderAt(moments[End(k) + 1])'
    <3>1. (End(k) + 1)' = j + 1
        BY <1>11, <1>13
    <3> QED  BY <1>9, <3>1 DEF DecoderAt, Agrees, Accounted
  <2>4. Between(k)'
      BY <1>2, <1>6, <1>7, <1>10, <1>11, <1>12, <1>13, <2>2, <2>3 DEF Between
  <2> QED  BY <2>4 DEF ReaderInv
<1>14. CASE j # e /\ m = 0
  <2>1. Pieces(j, e) # << >>
    <3>1. j \in 0 .. Len(out) - 1 /\ e \in j + 1 .. Len(out)
        BY <1>2, <1>3, <1>14
    <3> QED  BY <1>2, <3>1, PiecesFirst
  <2>2. m < Len(Pieces(j, e))
      BY <1>2, <1>14, <2>1, EmptySeq
  <2>3. ShownRight'
      BY <1>2, <1>6, <1>7, RightThen
  <2> QED  BY <1>8, <1>10, <1>14, <2>2, <2>3 DEF ReaderInv, Over
<1>15. CASE j # e /\ m # 0
  <2>1. (j \in End(k - 1) .. End(k) - 1)'
      BY <1>2, <1>3, <1>11, <1>15, SMTT(30)
  <2>2. \E n \in 1 .. Len(Pieces(j, e)) :
           buffer' = SubSeq(Pieces(j, e), 1, n) /\ (n < Len(Pieces(j, e)) => truncated' /\ input' = << >>)
      BY <1>8, <1>15
  <2>3. Pieces(j, End(k))' = Pieces(j, e)
    <3>1. Pieces(j, End(k))' = Pieces(j, e)'
        BY <1>11 DEF Pieces, Flat
    <3> QED  BY <1>11, <3>1
  <2>4. (\E n \in 1 .. Len(Pieces(j, End(k))) :
            /\ buffer = SubSeq(Pieces(j, End(k)), 1, n)
            /\ n < Len(Pieces(j, End(k))) => truncated /\ input = << >>)'
      BY <2>2, <2>3
  <2>5. HeadersOf(End(k - 1), j)' = HeadersOf(d, j)
    <3>1. HeadersOf(End(k - 1), j)' = HeadersOf(d, j)'
        BY <1>11 DEF HeadersOf
    <3> QED  BY <1>11, <3>1
  <2>6. (shown = Before(k - 1) \o Tagged(target, HeadersOf(End(k - 1), j)))'
    <3>1. Tagged(target, HeadersOf(End(k - 1), j))' = Tagged(target, HeadersOf(d, j))
        BY <2>5 DEF Tagged
    <3> QED  BY <1>5, <1>11, <3>1
  <2>7. (k \in 1 .. Len(frames))' /\ (target = frames[k].stream /\ target \in Stream)'
      BY <1>2, <1>4
  <2>8. (aborted => truncated)'
      OBVIOUS
  <2>9. Within(k, j)'
      BY <1>9, <1>12, <2>1, <2>4, <2>6, <2>7, <2>8 DEF Within
  <2> QED  BY <2>9 DEF ReaderInv
<1> QED  BY <1>13, <1>14, <1>15

\* An instruction that was cut short is the end, and shows a line at most
\* (unpack.h:71, 84, 89).
LEMMA SpoiltThen ==
    ASSUME PeerInv, NEW k, NEW i, Within(k, i), reading, ~ aborted, truncated, input = << >>,
           UNCHANGED << stdVars, frames, moments, reading, truncated, input, target >>,
           Spoils(out[i + 1]),
           shown' = shown \o Tagged(target, SubSeq(decoded', Len(decoded) + 1, Len(decoded')))
    PROVE  ReaderInv'
<1>1. PICK d, e : d = End(k - 1) /\ e = End(k)
    OBVIOUS
<1>2. /\ EncoderInv /\ FramesInv
      /\ k \in 1 .. Len(frames) /\ k - 1 \in 0 .. Len(frames) /\ k \in 0 .. Len(frames)
      /\ d \in 0 .. Len(out) /\ i \in d .. e - 1 /\ i \in d .. e
  <2> HIDE DEF PeerInv
  <2> QED  BY <1>1, WithinIs
<1>3. /\ target = frames[k].stream /\ target \in Stream
      /\ shown = Before(k - 1) \o Tagged(target, HeadersOf(d, i))
      /\ DecoderAt(moments[i + 1])
    BY <1>1 DEF Within
<1>4. decoded \in Seq(Entry) /\ decTable \in Table
    BY <1>3 DEF DecoderAt
<1>5. shown \in Seq(Line) /\ IsPrefix(shown, Carried(Len(frames)))
  <2>1. PICK s : s = shown
      OBVIOUS
  <2>2. s = Before(k - 1) \o Tagged(frames[k].stream, HeadersOf(d, i)) /\ frames[k].stream \in Stream
      BY <1>3, <2>1
  <2>3. s \in Seq(Line) /\ IsPrefix(s, Carried(Len(frames)))
      BY <1>1, <1>2, <2>2, ShownPart
  <2> QED  BY <2>1, <2>3
<1> DEFINE new == SubSeq(decoded', Len(decoded) + 1, Len(decoded'))
<1>6. shown \o Tagged(target, << >>) = shown
    BY <1>5, TaggedNone, ConcatEmptySeq
<1>7. CASE UNCHANGED unpackVars
  <2>1. UNCHANGED << buffer, decTable, decoded >>
      BY <1>7 DEF unpackVars
  <2>2. shown' = shown
    <3>1. PICK c : c = decoded
        OBVIOUS
    <3>2. c \in Seq(Entry)
        BY <1>4, <3>1
    <3>3. SubSeq(c, Len(c) + 1, Len(c)) = << >>
        BY <3>2, SubSeqEmpty
    <3> QED  BY <1>6, <2>1, <3>1, <3>3
  <2>3. DecoderAt(moments[i + 1])'
      BY <1>3, <2>1, DecoderSame
  <2>4. /\ Following(k)' = Following(k) /\ End(k)' = e
        /\ Before(k - 1)' = Before(k - 1) /\ End(k - 1)' = d
        /\ Pieces(i, e)' = Pieces(i, e) /\ HeadersOf(d, i)' = HeadersOf(d, i)
      BY <1>1, PeerSame
  <2>5. Beginning(input, Following(k))'
    <3>1. Beginning(input, Following(k))
        BY DEF Within
    <3> QED  BY <2>4, <3>1 DEF Beginning
  <2>6. (i \in End(k - 1) .. End(k) - 1)' /\ (k \in 1 .. Len(frames))'
        /\ (target = frames[k].stream /\ target \in Stream)'
      BY <1>2, <1>3, <2>4
  <2>7. Pieces(i, End(k))' = Pieces(i, e) /\ Pieces(i, End(k)) = Pieces(i, e)
    <3>1. Pieces(i, End(k))' = Pieces(i, e)'
        BY <2>4 DEF Pieces, Flat
    <3> QED  BY <1>1, <2>4, <3>1
  <2>8. (\E n \in 1 .. Len(Pieces(i, End(k))) :
            /\ buffer = SubSeq(Pieces(i, End(k)), 1, n)
            /\ n < Len(Pieces(i, End(k))) => truncated /\ input = << >>)'
    <3>1. \E n \in 1 .. Len(Pieces(i, e)) : buffer = SubSeq(Pieces(i, e), 1, n)
        BY <2>7 DEF Within
    <3>2. truncated' /\ input' = << >>
        OBVIOUS
    <3>3. \E n \in 1 .. Len(Pieces(i, e)) :
             buffer' = SubSeq(Pieces(i, e), 1, n)
             /\ (n < Len(Pieces(i, e)) => truncated' /\ input' = << >>)
        BY <2>1, <3>1, <3>2
    <3> QED  BY <2>7, <3>3
  <2>9. (shown = Before(k - 1) \o Tagged(target, HeadersOf(End(k - 1), i)))'
    <3>1. HeadersOf(End(k - 1), i)' = HeadersOf(d, i)'
        BY <2>4 DEF HeadersOf
    <3>2. Tagged(target, HeadersOf(End(k - 1), i))' = Tagged(target, HeadersOf(d, i))
        BY <2>4, <3>1 DEF Tagged
    <3> QED  BY <1>3, <2>2, <2>4, <3>2
  <2>10. (aborted => truncated)'
      OBVIOUS
  <2>11. Within(k, i)'
      BY <2>3, <2>5, <2>6, <2>8, <2>9, <2>10 DEF Within
  <2> QED  BY <2>11 DEF ReaderInv
<1>8. CASE ~ UNCHANGED unpackVars
  <2>1. /\ buffer' = << >> /\ aborted' = aborted
        /\ new = << >> \/ \E x \in Entry : new = << x >>
      BY <1>4, <1>8, TurnSpoilsLine
  <2>2. ASSUME new = << >>  PROVE ShownRight'
    <3>1. shown' = shown
        BY <1>6, <2>2
    <3> QED  BY <1>2, <1>5, <3>1, RightThen
  <2>3. ASSUME NEW x \in Entry, new = << x >>  PROVE ShownRight'
    <3> DEFINE l == [stream |-> target, header |-> x]
    <3>1. l \in Line
        BY <1>3 DEF Line
    <3>2. Tagged(target, new) = << l >>
      <4>1. DOMAIN << x >> = {1} /\ << x >>[1] = x
          OBVIOUS
      <4>2. Tagged(target, << x >>) = [n \in {1} |-> l]
          BY <4>1 DEF Tagged
      <4>3. << l >> = [n \in {1} |-> l]
          OBVIOUS
      <4> QED  BY <2>3, <4>2, <4>3
    <3> HIDE DEF l
    <3>3. shown' = Append(shown, l)
      <4>1. \A s \in Seq(Line) : s \o << l >> = Append(s, l)
          BY <3>1
      <4>2. shown' = shown \o << l >>
          BY <3>2
      <4> QED  BY <1>5, <4>1, <4>2
    <3>4. Front(shown') = shown /\ shown' # << >>
        BY <1>5, <3>1, <3>3, FrontOfAppend
    <3>5. Carried(Len(frames))' = Carried(Len(frames))
        BY PeerSame
    <3>6. IsPrefix(Front(shown'), Carried(Len(frames))')
        BY <1>5, <3>4, <3>5
    <3> QED  BY <2>1, <3>4, <3>6 DEF ShownRight
  <2>4. ShownRight'
      BY <2>1, <2>2, <2>3
  <2> QED  BY <2>1, <2>4 DEF ReaderInv, Over
<1> QED  BY <1>7, <1>8

\* A turn of unpack() goes through a block, and never past its end
\* (unpack.h:107-164, h2unpack.cc:59-69).
LEMMA TurnKeeps ==
    ASSUME PeerInv, MomentsInv, ReaderInv, UnpackTurn
    PROVE  ReaderInv'
<1>1. /\ Turn
      /\ shown' = shown \o Tagged(target, SubSeq(decoded', Len(decoded) + 1, Len(decoded')))
      /\ UNCHANGED << stdVars, frames, moments, reading, input, truncated, target >>
    BY Zenon DEF UnpackTurn
<1>2. ~ aborted /\ buffer # << >>
    BY <1>1 DEF Turn, TurnIndexed, TurnResize, TurnNamed, TurnLiteral, TurnAborts, Running
<1>3. reading
    BY <1>2 DEF ReaderInv
<1>4. PICK k, i : Within(k, i)
    BY <1>2, <1>3 DEF ReaderInv, Between, Over
<1>5. PICK d, e : d = End(k - 1) /\ e = End(k)
    OBVIOUS
<1> DEFINE piece == Spellings[i + 1]
           rest == Pieces(i + 1, e)
<1>6. /\ i \in 0 .. Len(out) - 1 /\ Wireable(out[i + 1]) /\ PlainlySpelled(out[i + 1], piece)
      /\ piece \in Seq(Octet) /\ rest \in Seq(Octet)
      /\ Pieces(i, e) = piece \o rest
    BY <1>4, <1>5, WithinIs
<1>7. PICK m \in 1 .. Len(Pieces(i, e)) :
         /\ buffer = SubSeq(Pieces(i, e), 1, m)
         /\ m < Len(Pieces(i, e)) => truncated /\ input = << >>
    BY <1>4, <1>5 DEF Within
<1>8. DecoderAt(moments[i + 1])
    BY <1>4 DEF Within
<1>9. PICK p, r : p = piece /\ r = rest
    OBVIOUS
<1> HIDE DEF piece, rest
<1>10. p \in Seq(Octet) /\ r \in Seq(Octet)
    BY <1>6, <1>9
<1>11. Len(p \o r) = Len(p) + Len(r) /\ Len(p) \in Nat /\ Len(r) \in Nat
    BY <1>10, ConcatType, Zenon
<1>12. /\ m \in 0 .. Len(p) + Len(r) /\ buffer = SubSeq(p \o r, 1, m)
       /\ m < Len(p) + Len(r) => truncated /\ input = << >>
    BY <1>6, <1>7, <1>9, <1>11
<1>13. /\ m # 0
       /\ \/ /\ m - Len(p) \in 0 .. Len(r)
             /\ CarriesOut(out[i + 1])
             /\ buffer' = SubSeq(r, 1, m - Len(p))
             /\ aborted' = aborted
          \/ m < Len(p) /\ Spoils(out[i + 1])
    BY <1>1, <1>6, <1>9, <1>10, <1>12, TurnOnPlain
<1>14. CASE /\ m - Len(p) \in 0 .. Len(r)
            /\ CarriesOut(out[i + 1])
            /\ buffer' = SubSeq(r, 1, m - Len(p))
            /\ aborted' = aborted
  <2>1. PICK n : n = m - Len(p)
      OBVIOUS
  <2>2. n \in 0 .. Len(r) /\ buffer' = SubSeq(r, 1, n) /\ (n < Len(r) => truncated /\ input = << >>)
      BY <1>11, <1>12, <1>14, <2>1
  <2>3. n \in 0 .. Len(Pieces(i + 1, e)) /\ buffer' = SubSeq(Pieces(i + 1, e), 1, n)
        /\ (n < Len(Pieces(i + 1, e)) => truncated /\ input = << >>)
      BY <1>9, <2>2 DEF rest
  <2>4. /\ DecoderAt(moments[i + 2])'
        /\ SubSeq(decoded', Len(decoded) + 1, Len(decoded')) = HeadersOf(i, i + 1)
      BY <1>1, <1>6, <1>8, <1>14, TurnShows
  <2>5. shown' = shown \o Tagged(target, HeadersOf(i, i + 1))
      BY <1>1, <2>4
  <2>6. UNCHANGED << stdVars, frames, moments, reading, truncated, input, target, aborted >>
      BY <1>1, <1>14
  <2> QED  BY <1>2, <1>3, <1>4, <1>5, <2>3, <2>4, <2>5, <2>6, WithinThen
<1>15. CASE m < Len(p) /\ Spoils(out[i + 1])
  <2>1. truncated /\ input = << >>
      BY <1>11, <1>12, <1>15
  <2> QED  BY <1>1, <1>2, <1>3, <1>4, <1>15, <2>1, SpoiltThen
<1> QED  BY <1>13, <1>14, <1>15

-----------------------------------------------------------------------------
(* The invariant.                                                          *)

\* What is not of octets.
ShownTypeOK ==
    /\ decTable \in Table /\ maxDynamicSize \in UInt
    /\ target \in 0 .. Shift8 * Shift8 * Shift8 * Shift8 - 1
    /\ shown \in Seq([stream : Stream, header : Entry])

ConnectionInv == PeerInv /\ ReaderInv /\ ShownTypeOK

\* Nothing is written and nothing is read.
LEMMA ConnectionInit == FramesInit => ConnectionInv
<1> SUFFICES ASSUME FramesInit  PROVE ConnectionInv
    OBVIOUS
<1>1. /\ sent = << >> /\ out = << >> /\ stdTable = << >> /\ stdMax = SizeLimit
      /\ buffer = << >> /\ decTable = EmptyTable /\ maxDynamicSize = SizeLimit
      /\ decoded = << >> /\ block = << >> /\ opened = << >> /\ frames = << >>
      /\ moments = << [table |-> << >>, count |-> 0] >>
      /\ input = << >> /\ target = 0 /\ shown = << >>
    BY DEF FramesInit, StdInit, WireInit, UnpackInit
<1>2. aborted = FALSE /\ reading = FALSE /\ truncated = FALSE
    BY Zenon DEF FramesInit, WireInit
<1>3. SizeLimit \in Nat /\ SizeLimit \in UInt
    BY HeaderAssumption, TableAssumption, WireAssumption DEF UInt
<1>4. EmptyTable \in Table
    BY DEF EmptyTable, Table
<1>5. [table |-> << >>, count |-> 0] \in MomentType
    BY DEF MomentType
<1>6. Bytes(<< >>) = 0
  <2>1. << >> \in Seq(Entry) /\ Len(<< >>) = 0
      OBVIOUS
  <2> QED  BY <2>1, LedgerType DEF Bytes
<1>7. EncoderInv
  <2>1. moments \in Seq(MomentType) /\ Len(moments) = 1 /\ moments[1].count = 0
      BY <1>1, <1>5
  <2>2. \A i, j \in 1 .. Len(moments) : moments[i].count <= moments[j].count
    <3>1. \A i \in 1 .. Len(moments) : i = 1
        BY <2>1
    <3> QED  BY <2>1, <3>1
  <2>3. sent \in Seq(Header) /\ out \in Seq(Instruction) /\ stdTable \in Seq(Entry)
        /\ Len(out) = 0 /\ Len(sent) = 0 /\ stdMax \in 0 .. SizeLimit
      BY <1>1, <1>3
  <2>4. Bytes(stdTable) <= stdMax
      BY <1>1, <1>3, <1>6
  <2> QED  BY <2>1, <2>2, <2>3, <2>4 DEF EncoderInv
<1>8. FramesInv
  <2>1. frames \in Seq(FrameType) /\ Len(frames) = 0 /\ Len(out) = 0
      BY <1>1
  <2>2. End(Len(frames)) = 0
      BY <2>1 DEF End
  <2>3. 0 \in 0 .. Len(out) /\ 0 \in 0 .. 0
      BY <2>1
  <2>4. Pieces(0, 0) = << >> /\ HeadersOf(0, 0) = << >>
      BY <1>7, <2>1, <2>3, PiecesSplit, HeadersSplit
  <2> QED  BY <1>1, <2>1, <2>2, <2>4 DEF FramesInv
<1>9. ReaderInv
    BY <1>1, <1>2 DEF ReaderInv
<1>10. ShownTypeOK
  <2>1. 0 \in 0 .. Shift8 * Shift8 * Shift8 * Shift8 - 1
      BY NumbersFit
  <2> QED  BY <1>1, <1>3, <1>4, <2>1 DEF ShownTypeOK
<1> QED  BY <1>7, <1>8, <1>9, <1>10 DEF ConnectionInv, PeerInv

\* What h2unpack does not change, it leaves in order.
LEMMA PeerLeft ==
    ASSUME PeerInv, UNCHANGED << stdVars, block, opened, frames, moments >>
    PROVE  PeerInv'
<1>1. UNCHANGED << sent, out, stdTable, stdMax >>
    BY DEF stdVars
<1>2. EncoderInv'
  <2>1. EncoderInv
      BY DEF PeerInv
  <2>2. Bytes(stdTable)' = Bytes(stdTable) /\ moments' = moments
      BY <1>1 DEF Bytes, Ledger
  <2> QED  BY <1>1, <2>1, <2>2 DEF EncoderInv
<1>3. FramesInv'
  <2>1. FramesInv
      BY DEF PeerInv
  <2>2. /\ \A i, j : Pieces(i, j)' = Pieces(i, j) /\ HeadersOf(i, j)' = HeadersOf(i, j)
        /\ \A k : End(k)' = End(k)
      BY PeerSame
  <2>3. frames' = frames /\ out' = out /\ block' = block /\ opened' = opened
      BY <1>1
  <2>4. ASSUME NEW k \in 1 .. Len(frames)  PROVE MadeSo(frames[k])' /\ Carries(k)'
    <3>1. PICK d, e, f : d = End(k - 1) /\ f = frames[k] /\ e = f.upto
        OBVIOUS
    <3>2. MadeSo(f) /\ Carries(k)
        BY <2>1, <3>1 DEF FramesInv
    <3>3. MadeSo(frames[k])'
      <4>1. (frames[k])' = f
          BY <2>3, <3>1
      <4>2. PICK type, flags \in Octet, sender \in 0 .. Shift8 * Shift8 * Shift8 * Shift8 - 1,
                 payload, extra \in Seq(Octet) :
               Len(payload) <= MaxFrameSize /\ Made(f, type, flags, sender, payload, extra)
          BY <3>2, Zenon DEF MadeSo
      <4>3. Made(frames[k], type, flags, sender, payload, extra)'
          BY <4>1, <4>2, Zenon DEF Made
      <4> QED  BY <4>2, <4>3, Zenon DEF MadeSo
    <3>4. /\ End(k - 1)' = d /\ (frames[k].upto)' = e /\ (frames[k])' = f
          /\ Pieces(d, e)' = Pieces(d, e) /\ HeadersOf(d, e)' = HeadersOf(d, e)
        BY <2>2, <2>3, <3>1
    <3>5. /\ Pieces(End(k - 1), frames[k].upto)' = Pieces(d, e)
          /\ HeadersOf(End(k - 1), frames[k].upto)' = HeadersOf(d, e)
      <4>1. /\ Pieces(End(k - 1), frames[k].upto)' = Pieces(d, e)'
            /\ HeadersOf(End(k - 1), frames[k].upto)' = HeadersOf(d, e)'
          BY <3>4 DEF Pieces, Flat, HeadersOf
      <4> QED  BY <3>4, <4>1
    <3>6. Tagged(frames[k].stream, HeadersOf(End(k - 1), frames[k].upto))'
              = Tagged(f.stream, HeadersOf(d, e))
        BY <3>4, <3>5 DEF Tagged
    <3>7. Carries(k)'
        BY <2>3, <3>1, <3>2, <3>4, <3>5, <3>6 DEF Carries
    <3> QED  BY <3>3, <3>7
  <2>5. PICK d, n : d = End(Len(frames)) /\ n = Len(out)
      OBVIOUS
  <2>6. End(Len(frames))' = d /\ Len(out)' = n
    <3>1. End(Len(frames))' = End(Len(frames))
        BY <2>3 DEF End
    <3> QED  BY <2>3, <2>5, <3>1
  <2>7. /\ Pieces(End(Len(frames)), Len(out))' = Pieces(d, n)
        /\ HeadersOf(End(Len(frames)), Len(out))' = HeadersOf(d, n)
    <3>1. /\ Pieces(End(Len(frames)), Len(out))' = Pieces(d, n)'
          /\ HeadersOf(End(Len(frames)), Len(out))' = HeadersOf(d, n)'
        BY <2>6 DEF Pieces, Flat, HeadersOf
    <3> QED  BY <2>2, <3>1
  <2> QED  BY <2>1, <2>3, <2>4, <2>5, <2>6, <2>7 DEF FramesInv
<1> QED  BY <1>2, <1>3 DEF PeerInv

\* Every step that is not the peer's leaves what it wrote.
LEMMA ReaderLeaves ==
    ASSUME [FramesNext]_framesVars, ~ PeerStep
    PROVE  UNCHANGED << stdVars, block, opened, frames, moments >>
<1>1. CASE ReadStdin
    BY <1>1, Zenon DEF ReadStdin
<1>2. CASE ReadHeaders \/ ReadPromise \/ ReadOther
    BY <1>2, Zenon DEF ReadHeaders, ReadPromise, ReadOther, TakeFrame
<1>3. CASE ReadFrameAborts
    BY <1>3, Zenon DEF ReadFrameAborts
<1>4. CASE UnpackTurn
    BY <1>4, Zenon DEF UnpackTurn
<1>5. CASE Exited \/ UNCHANGED framesVars
    BY <1>5, Zenon DEF Exited, framesVars
<1> QED  BY <1>1, <1>2, <1>3, <1>4, <1>5, Zenon DEF FramesNext

\* Where h2unpack stands is not changed by what changes none of this.
LEMMA ReaderSame ==
    ASSUME ReaderInv,
           UNCHANGED << stdVars, frames, moments, wireVars, reading, input, truncated,
                        target, shown >>
    PROVE  ReaderInv'
<1>1. UNCHANGED << sent, out, frames, moments, reading, input, truncated, target, shown,
                   buffer, decTable, maxDynamicSize, decoded, aborted >>
    BY Zenon DEF stdVars, wireVars, unpackVars
<1>2. Written' = Written /\ Listed' = Listed /\ Spellings' = Spellings
    BY <1>1 DEF Written, Listed, Spellings
<1>3. \A k : Following(k)' = Following(k) /\ Before(k)' = Before(k) /\ End(k)' = End(k)
    BY <1>1, <1>2 DEF Following, Before, End, Flat
<1>4. \A i, j : Pieces(i, j)' = Pieces(i, j) /\ HeadersOf(i, j)' = HeadersOf(i, j)
    BY <1>1, <1>2 DEF Pieces, HeadersOf, Flat
<1>5. \A s, all : Beginning(s, all)' = Beginning(s, all)
    BY <1>1 DEF Beginning
<1>6. \A i : DecoderAt(moments[i])' = DecoderAt(moments[i])
    BY <1>1 DEF DecoderAt, Agrees, Accounted
<1>7. ASSUME NEW k, Between(k)  PROVE Between(k)'
  <2>1. PICK i, all : i = End(k) + 1 /\ all = Following(k)
      OBVIOUS
  <2>2. Beginning(input, all) /\ DecoderAt(moments[i])
      BY <1>7, <2>1 DEF Between
  <2>3. (End(k) + 1)' = i /\ Following(k)' = all
      BY <1>3, <2>1
  <2>4. Beginning(input, Following(k))'
      BY <1>1, <2>2, <2>3 DEF Beginning
  <2>5. DecoderAt(moments[End(k) + 1])'
    <3>1. DecoderAt(moments[i])'
        BY <1>6, <2>2
    <3> QED  BY <2>3, <3>1 DEF DecoderAt, Agrees, Accounted
  <2>6. Before(k)' = Before(k)
      BY <1>3
  <2>7. /\ (k \in 0 .. Len(frames))' /\ buffer' = << >> /\ shown' = Before(k)
        /\ (aborted => truncated \/ (k < Len(frames) /\ frames[k + 1].odd))'
    <3>1. /\ k \in 0 .. Len(frames) /\ buffer = << >> /\ shown = Before(k)
          /\ aborted => truncated \/ (k < Len(frames) /\ frames[k + 1].odd)
        BY <1>7 DEF Between
    <3> QED  BY <1>1, <3>1
  <2> QED  BY <2>4, <2>5, <2>6, <2>7 DEF Between
<1>8. ASSUME NEW k, NEW i, Within(k, i)  PROVE Within(k, i)'
  <2>1. PICK d, e, all : d = End(k - 1) /\ e = End(k) /\ all = Following(k)
      OBVIOUS
  <2>2. End(k - 1)' = d /\ End(k)' = e /\ Following(k)' = all /\ Before(k - 1)' = Before(k - 1)
      BY <1>3, <2>1
  <2>3. /\ Pieces(i, End(k))' = Pieces(i, e)
        /\ HeadersOf(End(k - 1), i)' = HeadersOf(d, i)
    <3>1. /\ Pieces(i, End(k))' = Pieces(i, e)'
          /\ HeadersOf(End(k - 1), i)' = HeadersOf(d, i)'
        BY <2>2 DEF Pieces, Flat, HeadersOf
    <3> QED  BY <1>4, <3>1
  <2>4. Tagged(target, HeadersOf(End(k - 1), i))' = Tagged(target, HeadersOf(d, i))
      BY <1>1, <2>3 DEF Tagged
  <2>5. Beginning(input, Following(k))'
    <3>1. Beginning(input, all)
        BY <1>8, <2>1 DEF Within
    <3> QED  BY <1>1, <2>2, <3>1 DEF Beginning
  <2>6. DecoderAt(moments[i + 1])'
      BY <1>6, <1>8 DEF Within
  <2>7. /\ (k \in 1 .. Len(frames))' /\ (i \in End(k - 1) .. End(k) - 1)'
      BY <1>1, <1>8, <2>1, <2>2 DEF Within
  <2>8. (\E m \in 1 .. Len(Pieces(i, End(k))) :
            /\ buffer = SubSeq(Pieces(i, End(k)), 1, m)
            /\ m < Len(Pieces(i, End(k))) => truncated /\ input = << >>)'
      BY <1>1, <1>8, <2>1, <2>3 DEF Within
  <2>9. /\ (target = frames[k].stream)' /\ (target \in Stream)' /\ (aborted => truncated)'
      BY <1>1, <1>8 DEF Within
  <2>10. (shown = Before(k - 1) \o Tagged(target, HeadersOf(End(k - 1), i)))'
      BY <1>1, <1>8, <2>1, <2>2, <2>4 DEF Within
  <2> QED  BY <2>5, <2>6, <2>7, <2>8, <2>9, <2>10 DEF Within
<1>9. ASSUME Over  PROVE Over'
  <2>1. Carried(Len(frames))' = Carried(Len(frames))
      BY PeerSame
  <2> QED  BY <1>1, <1>9, <2>1 DEF Over, ShownRight
<1> QED  BY <1>1, <1>7, <1>8, <1>9 DEF ReaderInv

\* Before anything is read, what the peer writes changes nothing of it.
LEMMA PeerWaits ==
    ASSUME ReaderInv, PeerStep
    PROVE  ReaderInv'
<1>1. ~ reading /\ UNCHANGED << wireVars, reading, input, truncated, target, shown >>
    BY Zenon DEF PeerStep
<1>2. /\ ~ truncated /\ ~ aborted
      /\ buffer = << >> /\ input = << >> /\ shown = << >> /\ target = 0
      /\ decTable = EmptyTable /\ decoded = << >> /\ maxDynamicSize = SizeLimit
    BY <1>1, Zenon DEF ReaderInv
<1>3. UNCHANGED << buffer, decTable, maxDynamicSize, decoded, aborted, reading, input,
                   truncated, target, shown >>
    BY <1>1, Zenon DEF wireVars, unpackVars
<1> QED  BY <1>1, <1>2, <1>3 DEF ReaderInv

\* Every step keeps what is known of the reader.
LEMMA ReaderStep ==
    ASSUME PeerInv, MomentsInv, ReaderInv, [FramesNext]_framesVars
    PROVE  ReaderInv'
<1>1. CASE PeerStep
    BY <1>1, PeerWaits
<1>2. CASE ReadStdin
    BY <1>2, StdinKeeps
<1>3. CASE ReadHeaders \/ ReadPromise \/ ReadOther \/ ReadFrameAborts
  <2>1. AtFrame
      BY <1>3, Zenon DEF ReadHeaders, ReadPromise, ReadOther, ReadFrameAborts, TakeFrame
  <2>2. PICK k : Between(k)
      BY <2>1, AtFrameIsBetween
  <2> QED  BY <1>3, <2>2, HeadersKeep, PromiseKeeps, OtherKeeps, AbortKeeps
<1>4. CASE UnpackTurn
    BY <1>4, TurnKeeps
<1>5. CASE Exited \/ UNCHANGED framesVars
  <2>1. UNCHANGED << stdVars, frames, moments, wireVars, reading, input, truncated, target, shown >>
      BY <1>5, Zenon DEF Exited, framesVars
  <2> QED  BY <2>1, ReaderSame
<1> QED  BY <1>1, <1>2, <1>3, <1>4, <1>5, Zenon DEF FramesNext

\* What was read is octets.
LEMMA InputType ==
    ASSUME PeerInv, ReaderInv
    PROVE  input \in Seq(Octet) /\ buffer \in Seq(Octet)
<1>1. FramesInv
    BY DEF PeerInv
<1>2. ASSUME NEW k \in 0 .. Len(frames), Beginning(input, Following(k))  PROVE input \in Seq(Octet)
  <2>1. Following(k) \in Seq(Octet)
      BY <1>1, FollowingFirst
  <2> QED  BY <1>2, <2>1, BeginningType
<1>3. << >> \in Seq(Octet)
    OBVIOUS
<1>4. CASE \E k : Between(k)
    BY <1>2, <1>3, <1>4 DEF Between
<1>5. ASSUME NEW k, NEW i, Within(k, i)  PROVE input \in Seq(Octet) /\ buffer \in Seq(Octet)
  <2>1. PICK d, e : d = End(k - 1) /\ e = End(k)
      OBVIOUS
  <2>2. PICK p, r : p = Spellings[i + 1] /\ r = Pieces(i + 1, e)
      OBVIOUS
  <2>3. k \in 0 .. Len(frames) /\ p \in Seq(Octet) /\ r \in Seq(Octet) /\ Pieces(i, e) = p \o r
      BY <1>5, <2>1, <2>2, WithinIs
  <2>4. p \o r \in Seq(Octet)
      BY <2>3, ConcatType, Zenon
  <2>5. PICK m \in 1 .. Len(p \o r) : buffer = SubSeq(p \o r, 1, m)
      BY <1>5, <2>1, <2>3 DEF Within
  <2> DEFINE c == p \o r
  <2> HIDE DEF c
  <2>6. c \in Seq(Octet) /\ m \in 0 .. Len(c) /\ buffer = SubSeq(c, 1, m)
      BY <2>4, <2>5 DEF c
  <2>7. buffer \in Seq(Octet)
      BY <2>6, BeginningIs
  <2>8. Beginning(input, Following(k))
      BY <1>5 DEF Within
  <2> QED  BY <1>2, <2>3, <2>7, <2>8
<1> QED  BY <1>3, <1>4, <1>5 DEF ReaderInv, Over

\* Streams read are numbers, and lines shown are of a stream.
LEMMA ShownTypeStep ==
    ASSUME PeerInv, MomentsInv, ReaderInv, ShownTypeOK, [FramesNext]_framesVars
    PROVE  ShownTypeOK'
<1> DEFINE M == Shift8 * Shift8 * Shift8 * Shift8 - 1
<1>1. /\ decTable \in Table /\ maxDynamicSize \in UInt /\ target \in 0 .. M
      /\ shown \in Seq([stream : Stream, header : Entry])
    BY DEF ShownTypeOK
<1>2. CASE UNCHANGED << decTable, maxDynamicSize, target, shown >>
    BY <1>1, <1>2 DEF ShownTypeOK
<1>3. input \in Seq(Octet)
    BY InputType
<1>4. \A n \in Nat, os \in Seq(Octet) : Drop(n, os) \in Seq(Octet)
    BY EndIs DEF Drop
<1>5. CASE ReadHeaders \/ ReadPromise
  <2>1. UNCHANGED << decTable, maxDynamicSize, shown >>
      BY <1>5, Zenon DEF ReadHeaders, ReadPromise, TakeFrame, HandleHeaders, Feed
  <2>2. target' = Sender \/ target' = ReadU32(Payload)
      BY <1>5, Zenon DEF ReadHeaders, ReadPromise, HandleHeaders
  <2>3. Sender \in 0 .. M
    <3>1. PICK os : os = Drop(5, input)
        OBVIOUS
    <3>2. os \in Seq(Octet)
        BY <1>3, <1>4, <3>1
    <3>3. ReadU32(os) \in 0 .. M
        BY <3>2, ReadsType
    <3> QED  BY <3>1, <3>3 DEF Sender
  <2>4. ReadU32(Payload) \in 0 .. M
    <3>1. PICK r, n : r = Rest /\ n = Size
        OBVIOUS
    <3>2. r \in Seq(Octet) /\ Len(r) \in Nat
      <4>1. r \in Seq(Octet)
          BY <1>3, <1>4, <3>1 DEF Rest
      <4> QED  BY <4>1
    <3>3. n \in Nat
      <4> DEFINE s == Shift8 * Shift8 * Shift8
      <4>1. ReadU24(input) \in 0 .. s - 1 /\ s \in Nat
          BY <1>3, ReadsType, ShiftType
      <4> HIDE DEF s
      <4> QED  BY <3>1, <4>1 DEF Size
    <3>4. Min({n, Len(r)}) \in 0 .. Len(r)
        BY <3>2, <3>3, LesserOf
    <3>5. PICK p : p = Payload
        OBVIOUS
    <3>6. p \in Seq(Octet)
        BY <3>1, <3>2, <3>4, <3>5, BeginningIs DEF Payload
    <3>7. ReadU32(p) \in 0 .. M
        BY <3>6, ReadsType
    <3> QED  BY <3>5, <3>7
  <2> HIDE DEF M
  <2>5. target' \in 0 .. M
      BY <2>2, <2>3, <2>4
  <2> QED  BY <1>1, <2>1, <2>5 DEF ShownTypeOK, M
<1>6. CASE UnpackTurn
  <2>1. /\ Turn /\ target' = target
        /\ shown' = shown \o Tagged(target, SubSeq(decoded', Len(decoded) + 1, Len(decoded')))
      BY <1>6, Zenon DEF UnpackTurn
  <2>2. ~ aborted /\ buffer # << >>
      BY <2>1 DEF Turn, TurnIndexed, TurnResize, TurnNamed, TurnLiteral, TurnAborts, Running
  <2>3. PICK k, i : Within(k, i)
      BY <2>2 DEF ReaderInv, Between, Over
  <2>4. PICK d, e : d = End(k - 1) /\ e = End(k)
      OBVIOUS
  <2>5. PICK p, r : p = Spellings[i + 1] /\ r = Pieces(i + 1, e)
      OBVIOUS
  <2>6. /\ Wireable(out[i + 1]) /\ PlainlySpelled(out[i + 1], p)
        /\ p \in Seq(Octet) /\ r \in Seq(Octet) /\ Pieces(i, e) = p \o r
      BY <2>3, <2>4, <2>5, WithinIs
  <2>7. PICK m \in 1 .. Len(p \o r) : buffer = SubSeq(p \o r, 1, m)
      BY <2>3, <2>4, <2>6 DEF Within
  <2>8. Len(p \o r) = Len(p) + Len(r) /\ Len(p) \in Nat /\ Len(r) \in Nat
      BY <2>6, ConcatType, Zenon
  <2>9. m \in 0 .. Len(p) + Len(r)
      BY <2>8
  <2>10. CarriesOut(out[i + 1]) \/ Spoils(out[i + 1])
      BY <1>1, <2>1, <2>6, <2>7, <2>9, TurnOnPlain
  <2>11. decoded \in Seq(Entry) /\ target \in Stream
    <3>1. DecoderAt(moments[i + 1]) /\ target \in Stream
        BY <2>3 DEF Within
    <3> QED  BY <3>1 DEF DecoderAt
  <2>12. decoded' \in Seq(Entry) /\ decTable' \in Table /\ maxDynamicSize' \in UInt
      BY <1>1, <2>6, <2>10, <2>11, TurnType
  <2>13. shown' \in Seq([stream : Stream, header : Entry])
    <3>1. PICK c, n : c = decoded' /\ n = Len(decoded)
        OBVIOUS
    <3>2. c \in Seq(Entry) /\ n \in Nat
        BY <2>11, <2>12, <3>1
    <3> DEFINE new == SubSeq(c, n + 1, Len(c))
               l == Tagged(target, new)
    <3>3. new \in Seq(Entry)
        BY <3>2, EndIs
    <3> HIDE DEF new
    <3>4. l \in Seq([stream : Stream, header : Entry])
        BY <2>11, <3>3, TaggedType
    <3>5. shown' = shown \o l
        BY <2>1, <3>1 DEF new
    <3> HIDE DEF l
    <3> QED  BY <1>1, <3>4, <3>5, ConcatType, Zenon
  <2> HIDE DEF M
  <2> QED  BY <1>1, <2>1, <2>12, <2>13 DEF ShownTypeOK, M
<1>7. CASE PeerStep \/ ReadStdin \/ ReadOther \/ ReadFrameAborts \/ Exited \/ UNCHANGED framesVars
  <2>1. UNCHANGED << decTable, maxDynamicSize, target, shown >>
      BY <1>7, Zenon DEF PeerStep, ReadStdin, ReadOther, ReadFrameAborts, Exited, framesVars,
         TakeFrame, wireVars, unpackVars
  <2> QED  BY <1>2, <2>1
<1> QED  BY <1>5, <1>6, <1>7, Zenon DEF FramesNext

-----------------------------------------------------------------------------
(* The peer as a session.                                                  *)

\* What the peer encodes, as a session whose decoder waits; with the theorems
\* of Session_proofs.
FramesSession == INSTANCE Session_proofs WITH
    hist           <- moments,
    fed            <- FALSE,
    buffer         <- << >>,
    decTable       <- EmptyTable,
    maxDynamicSize <- SizeLimit,
    decoded        <- << >>

\* What Session_proofs assumes of its constants.
LEMMA FramesTableAssumption ==
    /\ NameLen \in [Name -> Nat]
    /\ ValueLen \in [Value -> Nat]
    /\ NameRank \in [Name -> Nat]
    /\ StaticTable \in Seq(FramesSession!Entry)
    /\ UIntRange \in Nat \ {0}
    /\ FramesSession!InvalidEntry \in FramesSession!Entry
    /\ FramesSession!InvalidEntry \notin FramesSession!ToSet(StaticTable)
BY TableAssumption DEF Entry, FramesSession!Entry, InvalidEntry,
   FramesSession!InvalidEntry, ToSet, FramesSession!ToSet

\* What Session assumes of the headers and sizes holds of those of Frames.
LEMMA FramesHeaderAssumption ==
    /\ Header \subseteq FramesSession!Entry
    /\ SizeLimit \in Nat
    /\ SizeLimit < UIntRange
    /\ Sizes \subseteq 0 .. SizeLimit
    /\ MaxInstructions \in Nat
BY HeaderAssumption DEF Entry, FramesSession!Entry

\* The peer and the decoder start as a session does.
LEMMA FramesSessionStarts == FramesInit => FramesSession!SessionInit
BY DEF FramesInit, StdInit, EmptyTable, FramesSession!SessionInit, FramesSession!StdInit,
   FramesSession!UnpackInit, FramesSession!EmptyTable, FramesSession!Moment

\* What the peer encodes, a standard encoder encodes.
LEMMA EncodeIsStep ==
    ASSUME Encode
    PROVE  FramesSession!EncoderStep
<1>1. FramesSession!StdNext
    BY Zenon DEF Encode, StdNext, FramesSession!StdNext,
    StdEncode, FramesSession!StdEncode, StdIndexed, FramesSession!StdIndexed,
    StdNamed, FramesSession!StdNamed, StdLiteral, FramesSession!StdLiteral,
    StdResize, FramesSession!StdResize, Write, FramesSession!Write,
    MaybeInsert, FramesSession!MaybeInsert, Insert, FramesSession!Insert,
    Fit, FramesSession!Fit, Fitting, FramesSession!Fitting, Ledger, FramesSession!Ledger,
    EntrySize, FramesSession!EntrySize, Get, FramesSession!Get,
    ValidIndex, FramesSession!ValidIndex, DynamicTableStart, FramesSession!DynamicTableStart,
    InvalidEntry, FramesSession!InvalidEntry, Indexed, FramesSession!Indexed,
    NamedByIndex, FramesSession!NamedByIndex, Literal, FramesSession!Literal,
    Resize, FramesSession!Resize, Max, FramesSession!Max
<1> QED  BY <1>1 DEF Encode, FramesSession!EncoderStep, FramesSession!Moment,
            FramesSession!unpackVars, EmptyTable

\* What else happens is not of the session.
LEMMA OthersStutter ==
    ASSUME FramesNext, ~ Encode
    PROVE  UNCHANGED << stdVars, moments >>
<1>1. CASE SendOther
    BY <1>1, Zenon DEF SendOther, SendFrame
<1>2. CASE \E s \in Stream : SendHeaders(s) \/ SendPromise(s) \/ SendPadded(s) \/ SendSplit(s)
    BY <1>2, Zenon DEF SendHeaders, SendPromise, SendPadded, SendSplit, SendBlock, SendFrame
<1>3. CASE ReadStdin
    BY <1>3, Zenon DEF ReadStdin
<1>4. CASE ReadHeaders \/ ReadPromise \/ ReadOther
    BY <1>4, Zenon DEF ReadHeaders, ReadPromise, ReadOther, TakeFrame
<1>5. CASE ReadFrameAborts
    BY <1>5, Zenon DEF ReadFrameAborts
<1>6. CASE UnpackTurn
    BY <1>6, Zenon DEF UnpackTurn
<1>7. CASE Exited
    BY <1>7, Zenon DEF Exited, framesVars
<1> QED  BY <1>1, <1>2, <1>3, <1>4, <1>5, <1>6, <1>7, Zenon DEF FramesNext, PeerStep

\* Every step is one of a session, or none: the instructions that the peer
\* writes are those of a standard encoder.
LEMMA FramesSessionSteps ==
    [FramesNext]_framesVars => [FramesSession!SessionNext]_(FramesSession!sessionVars)
<1> SUFFICES ASSUME [FramesNext]_framesVars
             PROVE  [FramesSession!SessionNext]_(FramesSession!sessionVars)
    OBVIOUS
<1>1. CASE Encode
    BY <1>1, EncodeIsStep DEF FramesSession!SessionNext
<1>2. CASE UNCHANGED << stdVars, moments >>
    BY <1>2 DEF FramesSession!sessionVars, stdVars, FramesSession!stdVars,
       FramesSession!unpackVars, EmptyTable
<1>3. CASE UNCHANGED framesVars
    BY <1>2, <1>3, Zenon DEF framesVars
<1> QED  BY <1>1, <1>2, <1>3, OthersStutter

\* The history of the peer is that of a session.
LEMMA PeerIsSession == FramesSpec => []FramesSession!SessionInv
<1>1. FramesSpec => FramesSession!SessionSpec
    BY FramesSessionStarts, FramesSessionSteps, PTL DEF FramesSpec, FramesSession!SessionSpec
<1>2. FramesSession!SessionSpec => []FramesSession!SessionInv
    BY FramesTableAssumption, FramesHeaderAssumption, OctetAssumption, FramesSession!SessionInvariant, PTL
<1> QED  BY <1>1, <1>2, PTL

\* So the moments of the peer say what its instructions were written for.
LEMMA SessionDenotes == FramesSession!SessionInv => MomentsInv
<1> SUFFICES ASSUME FramesSession!SessionInv  PROVE MomentsInv
    OBVIOUS
<1>1. FramesSession!HistoryInv
    BY DEF FramesSession!SessionInv
<1>2. /\ Len(moments) = Len(out) + 1
      /\ moments[1].count = 0 /\ moments[1].table = << >>
      /\ \A k \in 1 .. Len(moments) : moments[k].count <= Len(sent)
      /\ \A k \in 1 .. Len(out) :
            FramesSession!Denotes(out[k], moments[k], sent[moments[k + 1].count], moments[k + 1])
    BY <1>1 DEF FramesSession!HistoryInv, FramesSession!Moment
<1>3. /\ \A es, i : FramesSession!Get(es, i) = Get(es, i)
      /\ \A es : FramesSession!ValidIndex(es) = ValidIndex(es)
      /\ \A es, max : FramesSession!Fit(es, max) = Fit(es, max)
      /\ \A es, fs : FramesSession!Agrees(es, fs) = Agrees(es, fs)
    BY Zenon DEF FramesSession!Agrees, Agrees, FramesSession!ValidIndex, ValidIndex,
    FramesSession!Get, Get, FramesSession!DynamicTableStart, DynamicTableStart,
    FramesSession!InvalidEntry, InvalidEntry, FramesSession!Fit, Fit,
    FramesSession!Fitting, Fitting, FramesSession!Ledger, Ledger,
    FramesSession!EntrySize, EntrySize, FramesSession!Max, Max
<1>4. ASSUME NEW instr, NEW m, NEW h, NEW n, FramesSession!Denotes(instr, m, h, n)
      PROVE  Denotes(instr, m, h, n)
    BY <1>3, <1>4 DEF FramesSession!Denotes, Denotes, FramesSession!PushedOr, PushedOr
<1> QED  BY <1>2, <1>4 DEF MomentsInv

\* They always do.
LEMMA PeerMeans == FramesSpec => []MomentsInv
BY PeerIsSession, SessionDenotes, PTL

-----------------------------------------------------------------------------
(* The theorems.                                                           *)

\* h2unpack is always in front of a frame, in a header block, or at the end of
\* input that was cut short; and what it has shown is what the peer had
\* encoded up to there.
THEOREM ConnectionInvariant == FramesSpec => []ConnectionInv
<1>1. FramesInit => ConnectionInv
    BY ConnectionInit
<1>2. ConnectionInv /\ MomentsInv /\ [FramesNext]_framesVars => ConnectionInv'
  <2> SUFFICES ASSUME PeerInv, ReaderInv, ShownTypeOK, MomentsInv,
                      [FramesNext]_framesVars
               PROVE  ConnectionInv'
      BY DEF ConnectionInv
  <2>1. PeerInv'
    <3>1. CASE PeerStep
        BY <3>1, PeerKeeps
    <3>2. CASE ~ PeerStep
        BY <3>2, ReaderLeaves, PeerLeft
    <3> QED  BY <3>1, <3>2
  <2>2. ReaderInv' /\ ShownTypeOK'
      BY ReaderStep, ShownTypeStep
  <2> QED  BY <2>1, <2>2 DEF ConnectionInv
<1> QED  BY <1>1, <1>2, PeerMeans, PTL DEF FramesSpec

\* Types, at the end of any input.
THEOREM FramesTypeCorrect == FramesSpec => []FramesTypeOK
<1>1. ConnectionInv => FramesTypeOK
  <2> SUFFICES ASSUME PeerInv, ReaderInv, ShownTypeOK  PROVE FramesTypeOK
      BY DEF ConnectionInv
  <2> QED  BY BlockType, InputType DEF FramesTypeOK, ShownTypeOK
<1> QED  BY <1>1, ConnectionInvariant, PTL

\* Wherever the input ends, what is shown is what the peer sent, with the
\* right streams, but for the last line (h2unpack.cc:59-133).
THEOREM ShowsWhatWasSent == FramesSpec => []ShownRight
<1>1. ConnectionInv => ShownRight
  <2> SUFFICES ASSUME PeerInv, ReaderInv  PROVE ShownRight
      BY DEF ConnectionInv
  <2>1. FramesInv
      BY DEF PeerInv
  <2>2. CASE ~ reading
    <3>1. 0 \in 0 .. Len(frames) /\ shown = Before(0)
      <4>1. 0 \in 0 .. Len(frames)
          BY <2>1, FollowingType
      <4>2. Before(0) = << >>
          BY <2>1, <4>1, FollowingFirst
      <4> QED  BY <2>2, <4>1, <4>2 DEF ReaderInv
    <3> QED  BY <2>1, <3>1, ShownBefore
  <2>3. ASSUME NEW k, Between(k)  PROVE ShownRight
      BY <2>1, <2>3, ShownBefore DEF Between
  <2>4. ASSUME NEW k, NEW i, Within(k, i)  PROVE ShownRight
    <3>1. PICK d, e, s : d = End(k - 1) /\ e = End(k) /\ s = shown
        OBVIOUS
    <3>2. k \in 1 .. Len(frames) /\ i \in d .. e
        BY <2>4, <3>1, WithinIs
    <3>3. frames[k].stream \in Stream /\ s = Before(k - 1) \o Tagged(frames[k].stream, HeadersOf(d, i))
        BY <2>4, <3>1 DEF Within
    <3>4. s \in Seq(Line) /\ IsPrefix(s, Carried(Len(frames)))
        BY <3>1, <3>2, <3>3, ShownPart
    <3> QED  BY <2>1, <3>1, <3>4, ShownPrefix
  <2> QED  BY <2>2, <2>3, <2>4 DEF ReaderInv, Over
<1> QED  BY <1>1, ConnectionInvariant, PTL

\* Between two frames it has shown all of those it read, and assertions fail
\* of those alone that it does not handle (h2unpack.cc:97, 102, 106, 116, 122).
THEOREM ReadsFrameByFrame == FramesSpec => []StepsByFrame
<1>1. ConnectionInv => StepsByFrame
  <2> SUFFICES ASSUME PeerInv, ReaderInv, reading, ~ truncated  PROVE
          IF buffer # << >> THEN ~ aborted
          ELSE \E k \in 0 .. Len(frames) :
                  /\ input = Octets(k + 1, Len(frames))
                  /\ shown = Carried(k)
                  /\ aborted => k < Len(frames) /\ frames[k + 1].odd
      BY DEF ConnectionInv, StepsByFrame
  <2>1. FramesInv
      BY DEF PeerInv
  <2>2. ASSUME NEW k, Between(k)
        PROVE  /\ buffer = << >> /\ k \in 0 .. Len(frames)
               /\ input = Octets(k + 1, Len(frames))
               /\ shown = Carried(k)
               /\ aborted => k < Len(frames) /\ frames[k + 1].odd
    <3>1. /\ buffer = << >> /\ k \in 0 .. Len(frames) /\ Beginning(input, Following(k))
          /\ shown = Before(k)
          /\ aborted => k < Len(frames) /\ frames[k + 1].odd
        BY <2>2 DEF Between
    <3>2. Following(k) \in Seq(Octet) /\ Octets(k + 1, Len(frames)) = Following(k)
          /\ Carried(k) = Before(k)
        BY <2>1, <3>1, FollowingFirst, OctetsAre
    <3>3. input = SubSeq(Following(k), 1, Len(Following(k)))
        BY <3>1 DEF Beginning
    <3>4. input = Following(k)
        BY <3>2, <3>3, SubSeqFull
    <3> QED  BY <3>1, <3>2, <3>4
  <2>3. ASSUME NEW k, NEW i, Within(k, i)  PROVE buffer # << >> /\ ~ aborted
    <3>1. PICK e, p, r : e = End(k) /\ p = Spellings[i + 1] /\ r = Pieces(i + 1, e)
        OBVIOUS
    <3>2. p \in Seq(Octet) /\ r \in Seq(Octet) /\ Pieces(i, e) = p \o r
        BY <2>3, <3>1, WithinIs
    <3>3. p \o r \in Seq(Octet)
        BY <3>2, ConcatType, Zenon
    <3>4. PICK m \in 1 .. Len(p \o r) : buffer = SubSeq(p \o r, 1, m)
        BY <2>3, <3>1, <3>2 DEF Within
    <3> DEFINE c == p \o r
    <3> HIDE DEF c
    <3>5. c \in Seq(Octet) /\ m \in 0 .. Len(c) /\ m # 0 /\ buffer = SubSeq(c, 1, m)
        BY <3>3, <3>4 DEF c
    <3>6. Len(buffer) = m
        BY <3>5, BeginningIs
    <3>7. buffer # << >>
        BY <3>5, <3>6
    <3> QED  BY <2>3, <3>7 DEF Within
  <2> QED  BY <2>2, <2>3 DEF ReaderInv, Over
<1> QED  BY <1>1, ConnectionInvariant, PTL

\* What is left to unpack is the end of a header block, and nothing of the
\* frame around it (h2unpack.cc:107-111, 117, 118).
THEOREM FeedsOnlyBlocks == FramesSpec => []FeedsBlocks
<1>1. ConnectionInv => FeedsBlocks
  <2> SUFFICES ASSUME PeerInv, ReaderInv, buffer # << >>, ~ truncated
               PROVE  \E k \in DOMAIN frames : IsSuffix(buffer, frames[k].block)
      BY DEF ConnectionInv, FeedsBlocks
  <2>1. PICK k, i : Within(k, i)
      BY DEF ReaderInv, Between, Over
  <2>2. PICK d, e, p, q, r : /\ d = End(k - 1) /\ e = End(k)
                             /\ p = Pieces(d, i) /\ q = Pieces(i, e) /\ r = frames[k].block
      OBVIOUS
  <2>3. /\ EncoderInv /\ FramesInv
        /\ k \in 1 .. Len(frames) /\ k - 1 \in 0 .. Len(frames) /\ k \in 0 .. Len(frames)
        /\ d \in 0 .. Len(out) /\ i \in d .. e - 1 /\ i \in d .. e /\ e \in i + 1 .. Len(out)
        /\ i \in 0 .. Len(out) - 1 /\ i \in 0 .. Len(out)
      BY <2>1, <2>2, WithinIs
  <2>4. /\ Len(out) \in Nat /\ frames \in Seq(FrameType) /\ End(k) = frames[k].upto
    <3>1. Len(out) \in Nat
        BY <2>3, SpellingsType
    <3> QED  BY <2>3, <3>1, EndType DEF FramesInv
  <2>5. i \in d .. Len(out) /\ e \in i .. Len(out)
      BY <2>3, <2>4
  <2>6. p \in Seq(Octet) /\ q \in Seq(Octet) /\ Pieces(d, e) = p \o q
      BY <2>2, <2>3, <2>5, PiecesSplit
  <2>7. r = p \o q
      BY <2>2, <2>3, <2>4, <2>6 DEF FramesInv, Carries
  <2>8. buffer = SubSeq(q, 1, Len(q))
    <3>1. PICK m \in 1 .. Len(q) : buffer = SubSeq(q, 1, m) /\ ~ (m < Len(q))
        BY <2>1, <2>2 DEF Within
    <3>2. m = Len(q)
        BY <2>6, <3>1
    <3> QED  BY <3>1, <3>2
  <2>9. buffer = q
      BY <2>6, <2>8, SubSeqFull
  <2>10. IsSuffix(q, p \o q)
      BY <2>6, SuffixOfConcat
  <2>11. k \in DOMAIN frames
      BY <2>3, <2>4
  <2> QED  BY <2>2, <2>7, <2>9, <2>10, <2>11
<1> QED  BY <1>1, ConnectionInvariant, PTL
=============================================================================
