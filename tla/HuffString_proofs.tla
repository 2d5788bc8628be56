-------------------------- MODULE HuffString_proofs --------------------------
(***************************************************************************)
(* Theorems about strings in Huffman code.  As long as no code of a symbol *)
(* is longer than 24 bits, huff() writes what the standard prescribes; and *)
(* as long as no symbol has the last code of the table, decode_huffman()   *)
(* makes the string of it again.  The runs HuffLongCodes and HuffLastCode  *)
(* show what happens otherwise.                                            *)
(***************************************************************************)
EXTENDS HuffString, DataLemmas

\* huff() appends each code of hpack's symbols in one step.
ShortCodes == \A c \in HpackSymbol : CodeLength[c] <= 24

\* find_code() never runs past its table: there is a greater code.
NoneLast == \A c \in HpackSymbol \cup OtherSymbol : \E d \in Symbol : Less(MsbCode[c], MsbCode[d])

-----------------------------------------------------------------------------
(* Strings of bits, by the positions of their ones.                        *)

OneAt(bs) == {k \in 1 .. Len(bs) : bs[k]}

\* Two truth values that are equivalent are equal.
LEMMA SameTruth ==
    ASSUME NEW a \in BOOLEAN, NEW b \in BOOLEAN, a <=> b
    PROVE  a = b
OBVIOUS

\* Strings of bits with their ones at the same places are the same.
LEMMA SameBits ==
    ASSUME NEW a \in Seq(BOOLEAN), NEW b \in Seq(BOOLEAN), Len(a) = Len(b),
           OneAt(a) = OneAt(b)
    PROVE  a = b
<1>1. ASSUME NEW k \in 1 .. Len(a)  PROVE a[k] = b[k]
  <2>1. a[k] \in BOOLEAN /\ b[k] \in BOOLEAN
      BY ElementOfSeq
  <2>2. a[k] <=> b[k]
    <3>1. a[k] <=> k \in OneAt(a)
        BY Zenon DEF OneAt
    <3>2. b[k] <=> k \in OneAt(b)
        BY Zenon DEF OneAt
    <3> QED  BY <3>1, <3>2, Zenon
  <2> QED  BY <2>1, <2>2, SameTruth
<1> QED  BY <1>1, SeqEqual

\* Where the ones of two strings of bits are when one follows the other.
LEMMA OneAtConcat ==
    ASSUME NEW a \in Seq(BOOLEAN), NEW b \in Seq(BOOLEAN)
    PROVE  /\ a \o b \in Seq(BOOLEAN) /\ Len(a \o b) = Len(a) + Len(b)
           /\ \A k \in 1 .. Len(a) : k \in OneAt(a \o b) <=> k \in OneAt(a)
           /\ \A k \in 1 .. Len(b) : Len(a) + k \in OneAt(a \o b) <=> k \in OneAt(b)
<1>1. /\ a \o b \in Seq(BOOLEAN) /\ Len(a \o b) = Len(a) + Len(b)
      /\ \A k \in 1 .. Len(a) + Len(b) :
            (a \o b)[k] = IF k <= Len(a) THEN a[k] ELSE b[k - Len(a)]
    BY ConcatProperties, Zenon
<1>2. Len(a) \in Nat /\ Len(b) \in Nat
    OBVIOUS
<1> DEFINE c == a \o b
<1>3. Len(c) = Len(a) + Len(b)
    BY <1>1
<1>4. ASSUME NEW k \in 1 .. Len(a)  PROVE k \in OneAt(c) <=> k \in OneAt(a)
  <2>1. k \in 1 .. Len(a) + Len(b) /\ k <= Len(a)
      BY <1>2
  <2>2. c[k] = a[k]
      BY <1>1, <2>1, Zenon
  <2> HIDE DEF c
  <2>3. k \in 1 .. Len(c)
      BY <1>3, <2>1
  <2> QED  BY <2>2, <2>3, Zenon DEF OneAt
<1>5. ASSUME NEW k \in 1 .. Len(b)  PROVE Len(a) + k \in OneAt(c) <=> k \in OneAt(b)
  <2>1. Len(a) + k \in 1 .. Len(a) + Len(b) /\ ~ (Len(a) + k <= Len(a)) /\ (Len(a) + k) - Len(a) = k
      BY <1>2
  <2>2. c[Len(a) + k] = b[k]
    <3>1. c[Len(a) + k] = b[(Len(a) + k) - Len(a)]
        BY <1>1, <2>1, Zenon
    <3> QED  BY <2>1, <3>1, Zenon
  <2> HIDE DEF c
  <2>3. Len(a) + k \in 1 .. Len(c)
      BY <1>3, <2>1
  <2> QED  BY <2>2, <2>3, Zenon DEF OneAt
<1> QED  BY <1>1, <1>4, <1>5

\* The bits of a word, the highest first.
LEMMA BitStringIs ==
    ASSUME NEW w, NEW len \in Nat
    PROVE  /\ BitString(w, len) \in Seq(BOOLEAN)
           /\ Len(BitString(w, len)) = len
           /\ \A i \in 1 .. len : i \in OneAt(BitString(w, len)) <=> len - i \in w
<1>1. BitString(w, len) \in Seq(BOOLEAN) /\ Len(BitString(w, len)) = len
  <2>1. BitString(w, len) \in [1 .. len -> BOOLEAN]
    <3>1. \A i \in 1 .. len : (len - i \in w) \in BOOLEAN
        OBVIOUS
    <3> QED  BY <3>1, Zenon DEF BitString
  <2> HIDE DEF BitString
  <2> QED  BY <2>1
<1>2. \A i \in 1 .. len : BitString(w, len)[i] <=> len - i \in w
    BY Zenon DEF BitString
<1> QED  BY <1>1, <1>2, Zenon DEF OneAt

\* In a string of octets bit i of octet j stands at 8 * j - i.
LEMMA BitsOfIs ==
    ASSUME NEW os \in Seq(SUBSET Ones(8))
    PROVE  /\ BitsOf(os) \in Seq(BOOLEAN)
           /\ Len(BitsOf(os)) = 8 * Len(os)
           /\ \A j \in 1 .. Len(os), i \in 0 .. 7 : 8 * j - i \in OneAt(BitsOf(os)) <=> i \in os[j]
<1> DEFINE bs == [j \in DOMAIN os |-> BitString(os[j], 8)]
           len == Len(os)
<1>1. len \in Nat /\ DOMAIN os = 1 .. len
    OBVIOUS
<1>2. \A j \in 1 .. len : bs[j] = BitString(os[j], 8) /\ bs[j] \in Seq(BOOLEAN)
    BY <1>1, BitStringIs
<1>3. bs \in Seq(Seq(BOOLEAN)) /\ Len(bs) = len
  <2>1. bs \in [1 .. len -> Seq(BOOLEAN)]
    <3> HIDE DEF len
    <3> QED  BY <1>1, <1>2
  <2> HIDE DEF bs, len
  <2> QED  BY <1>1, <2>1
<1>4. BitsOf(os) = FlattenSeq(bs)
    BY DEF BitsOf
<1> HIDE DEF bs
<1>5. CASE len = 0
  <2>1. bs = << >>
      BY <1>3, <1>5, EmptySeq
  <2>2. BitsOf(os) = << >>
      BY <1>3, <1>4, <2>1, FlattenType
  <2> QED  BY <1>5, <2>2, EmptySeq
<1>6. CASE len # 0
  <2>1. bs # << >>
      BY <1>1, <1>3, <1>6, EmptySeq
  <2>2. PICK f : FlattenOf(f, BOOLEAN, bs, len) /\ FlattenSeq(bs) = f[len]
      BY <1>3, <2>1, FlattenIs
  <2>3. len - 1 \in Nat
      BY <1>1, <1>6
  <2>4. /\ \A m \in 1 .. len : f[m] \in Seq(BOOLEAN)
        /\ f[1] = bs[1] /\ \A m \in 1 .. len - 1 : f[m + 1] = f[m] \o bs[m + 1]
      BY <2>2 DEF FlattenOf
  <2> DEFINE Good(m) == /\ Len(f[m]) = 8 * m
                        /\ \A j \in 1 .. m, i \in 0 .. 7 : 8 * j - i \in OneAt(f[m]) <=> i \in os[j]
             G == {m \in 0 .. len - 1 : Good(m + 1)}
  <2> HIDE DEF len
  <2>5. 0 \in G
    <3>1. Len(bs[1]) = 8 /\ \A i \in 1 .. 8 : i \in OneAt(bs[1]) <=> 8 - i \in os[1]
      <4>1. 1 \in 1 .. len /\ 8 \in Nat
          BY <1>1, <2>3
      <4>2. bs[1] = BitString(os[1], 8)
          BY <1>2, <4>1
      <4> QED  BY <4>1, <4>2, BitStringIs
    <3>2. \A j \in 1 .. 0 + 1, i \in 0 .. 7 : 8 * j - i \in OneAt(f[0 + 1]) <=> i \in os[j]
      <4> TAKE j \in 1 .. 0 + 1, i \in 0 .. 7
      <4>1. j = 1 /\ 8 * j - i \in 1 .. 8 /\ 8 - (8 * j - i) = i /\ 0 + 1 = 1
          OBVIOUS
      <4> QED  BY <2>4, <3>1, <4>1
    <3>3. Len(f[0 + 1]) = 8 * (0 + 1)
        BY <2>4, <3>1
    <3> QED  BY <2>3, <3>2, <3>3
  <2>6. ASSUME NEW m \in 0 .. (len - 1) - 1, m \in G  PROVE m + 1 \in G
    <3> DEFINE q == m + 1
               a == f[q]
               b == bs[q + 1]
    <3>1. q \in Nat /\ q \in 1 .. len - 1 /\ q \in 1 .. len /\ q + 1 \in 1 .. len /\ q \in 0 .. len - 1
        BY <1>1, <2>3
    <3>2. Good(q)
        BY <2>6
    <3>3. f[q + 1] = a \o b /\ a \in Seq(BOOLEAN)
        BY <2>4, <3>1
    <3>4. b \in Seq(BOOLEAN) /\ Len(b) = 8 /\ \A i \in 1 .. 8 : i \in OneAt(b) <=> 8 - i \in os[q + 1]
      <4>1. b = BitString(os[q + 1], 8)
          BY <1>2, <3>1
      <4>2. 8 \in Nat
          OBVIOUS
      <4>3. LET w == BitString(os[q + 1], 8)
            IN  w \in Seq(BOOLEAN) /\ Len(w) = 8 /\ \A i \in 1 .. 8 : i \in OneAt(w) <=> 8 - i \in os[q + 1]
          BY <4>2, BitStringIs, Zenon
      <4> QED  BY <4>1, <4>3, Zenon
    <3>5. Len(a) = 8 * q /\ \A j \in 1 .. q, i \in 0 .. 7 : 8 * j - i \in OneAt(a) <=> i \in os[j]
        BY <3>2
    <3> HIDE DEF q, a, b, Good
    <3>6. /\ Len(a \o b) = 8 * (q + 1)
          /\ \A k \in 1 .. 8 * q : k \in OneAt(a \o b) <=> k \in OneAt(a)
          /\ \A k \in 1 .. 8 : 8 * q + k \in OneAt(a \o b) <=> k \in OneAt(b)
      <4>1. /\ Len(a \o b) = Len(a) + Len(b)
            /\ \A k \in 1 .. Len(a) : k \in OneAt(a \o b) <=> k \in OneAt(a)
            /\ \A k \in 1 .. Len(b) : Len(a) + k \in OneAt(a \o b) <=> k \in OneAt(b)
          BY <3>3, <3>4, OneAtConcat
      <4> QED  BY <3>1, <3>4, <3>5, <4>1
    <3>7. ASSUME NEW j \in 1 .. q + 1, NEW i \in 0 .. 7
          PROVE  8 * j - i \in OneAt(a \o b) <=> i \in os[j]
      <4>1. CASE j = q + 1
        <5>1. 8 * j - i = 8 * q + (8 - i) /\ 8 - i \in 1 .. 8 /\ 8 - (8 - i) = i
            BY <3>1, <4>1
        <5> QED  BY <3>4, <3>6, <4>1, <5>1
      <4>2. CASE j # q + 1
        <5>1. j \in 1 .. q /\ 8 * j - i \in 1 .. 8 * q
            BY <3>1, <4>2
        <5> QED  BY <3>5, <3>6, <5>1
      <4> QED  BY <4>1, <4>2
    <3>8. Good(q + 1)
        BY <3>3, <3>6, <3>7 DEF Good
    <3> QED  BY <3>1, <3>8 DEF q
  <2>7. 0 .. len - 1 \subseteq G
    <3> HIDE DEF G
    <3> QED  BY <2>3, <2>5, <2>6, Induction
  <2>8. Good(len)
    <3>1. len - 1 \in G /\ (len - 1) + 1 = len
      <4> HIDE DEF G
      <4> QED  BY <1>1, <2>3, <2>7
    <3> HIDE DEF Good
    <3> QED  BY <3>1
  <2>9. f[len] \in Seq(BOOLEAN)
      BY <1>1, <2>3, <2>4
  <2> QED  BY <1>4, <2>2, <2>8, <2>9 DEF len
<1> QED  BY <1>5, <1>6

-----------------------------------------------------------------------------
(* The bits of a string.                                                   *)

\* What CodeAssumption says of one symbol.
LEMMA CodeFacts ==
    ASSUME NEW c \in Symbol
    PROVE  /\ CodeLength[c] \in 5 .. 30 /\ CodeLength[c] \in Nat
           /\ Code[c] \subseteq Ones(CodeLength[c]) /\ Code[c] # Ones(CodeLength[c])
           /\ CodeString(c) \in Seq(BOOLEAN) /\ Len(CodeString(c)) = CodeLength[c]
           /\ \A k \in 1 .. CodeLength[c] : k \in OneAt(CodeString(c)) <=> CodeLength[c] - k \in Code[c]
<1>1. CodeLength[c] \in 5 .. 30 /\ Code[c] \subseteq Ones(CodeLength[c]) /\ Code[c] # Ones(CodeLength[c])
    BY CodeAssumption
<1>2. CodeLength[c] \in Nat
    BY <1>1
<1> QED  BY <1>1, <1>2, BitStringIs DEF CodeString

\* The codes of a string make a string of bits.
LEMMA StdBitsType ==
    ASSUME NEW string \in Seq(Symbol)
    PROVE  /\ StdBits(string) \in Seq(BOOLEAN) /\ Len(StdBits(string)) \in Nat
           /\ string = << >> => StdBits(string) = << >>
<1> DEFINE bs == [i \in DOMAIN string |-> CodeString(string[i])]
<1>1. DOMAIN string = 1 .. Len(string) /\ Len(string) \in Nat
      /\ \A i \in 1 .. Len(string) : string[i] \in Symbol
    OBVIOUS
<1>2. bs \in Seq(Seq(BOOLEAN)) /\ Len(bs) = Len(string)
  <2>1. bs \in [1 .. Len(string) -> Seq(BOOLEAN)]
      BY <1>1, CodeFacts
  <2> HIDE DEF bs
  <2> QED  BY <1>1, <2>1
<1>3. StdBits(string) = FlattenSeq(bs)
    BY DEF StdBits
<1> HIDE DEF bs
<1>4. string = << >> => bs = << >>
    BY <1>2, EmptySeq
<1>5. StdBits(string) \in Seq(BOOLEAN) /\ (string = << >> => StdBits(string) = << >>)
    BY <1>2, <1>3, <1>4, FlattenType
<1> QED  BY <1>5

\* One more symbol adds its code at the end.
LEMMA StdBitsAppend ==
    ASSUME NEW string \in Seq(Symbol), NEW c \in Symbol
    PROVE  StdBits(Append(string, c)) = StdBits(string) \o CodeString(c)
<1> DEFINE longer == Append(string, c)
           bs == [i \in DOMAIN string |-> CodeString(string[i])]
           cs == [i \in DOMAIN longer |-> CodeString(longer[i])]
           size == Len(string)
<1>1. /\ size \in Nat /\ DOMAIN string = 1 .. size /\ \A i \in 1 .. size : string[i] \in Symbol
      /\ DOMAIN longer = 1 .. size + 1 /\ longer[size + 1] = c
      /\ \A i \in 1 .. size : longer[i] = string[i]
  <2>1. size \in Nat /\ DOMAIN string = 1 .. size /\ \A i \in 1 .. size : string[i] \in Symbol
      OBVIOUS
  <2>2. DOMAIN longer = 1 .. size + 1
      OBVIOUS
  <2>3. longer[size + 1] = c
      OBVIOUS
  <2>4. \A i \in 1 .. size : longer[i] = string[i]
      OBVIOUS
  <2> QED  BY <2>1, <2>2, <2>3, <2>4
<1>2. CodeString(c) \in Seq(BOOLEAN) /\ \A i \in 1 .. size : CodeString(string[i]) \in Seq(BOOLEAN)
    BY <1>1, CodeFacts
<1> HIDE DEF longer, size
<1>3. bs \in Seq(Seq(BOOLEAN)) /\ Len(bs) = size /\ \A i \in 1 .. size : bs[i] = CodeString(string[i])
  <2>1. bs \in [1 .. size -> Seq(BOOLEAN)] /\ \A i \in 1 .. size : bs[i] = CodeString(string[i])
      BY <1>1, <1>2
  <2> HIDE DEF bs
  <2> QED  BY <1>1, <2>1
<1>4. /\ cs \in Seq(Seq(BOOLEAN)) /\ Len(cs) = size + 1 /\ cs[size + 1] = CodeString(c)
      /\ \A i \in 1 .. size : cs[i] = CodeString(string[i])
  <2>1. /\ \A i \in 1 .. size + 1 : cs[i] = CodeString(longer[i])
        /\ DOMAIN cs = 1 .. size + 1
      BY <1>1
  <2>2. size + 1 \in 1 .. size + 1 /\ size + 1 \in Nat /\ \A i \in 1 .. size : i \in 1 .. size + 1
      BY <1>1
  <2>3. /\ cs[size + 1] = CodeString(c)
        /\ \A i \in 1 .. size : cs[i] = CodeString(string[i])
    <3> HIDE DEF cs
    <3> QED  BY <1>1, <2>1, <2>2
  <2>4. \A i \in 1 .. size + 1 : cs[i] \in Seq(BOOLEAN)
    <3>1. \A i \in 1 .. size + 1 : i = size + 1 \/ i \in 1 .. size
        BY <1>1
    <3> HIDE DEF cs
    <3> QED  BY <1>2, <2>3, <3>1
  <2>5. cs \in [1 .. size + 1 -> Seq(BOOLEAN)]
    <3> HIDE DEF CodeString
    <3> QED  BY <1>1, <2>4
  <2> HIDE DEF cs
  <2>6. cs \in Seq(Seq(BOOLEAN)) /\ Len(cs) = size + 1
      BY <2>2, <2>5
  <2> QED  BY <2>3, <2>6
<1>5. StdBits(string) = FlattenSeq(bs) /\ StdBits(longer) = FlattenSeq(cs)
    BY DEF StdBits
<1> HIDE DEF bs, cs
<1>6. cs = Append(bs, CodeString(c))
  <2> DEFINE ds == Append(bs, CodeString(c))
  <2>1. ds \in Seq(Seq(BOOLEAN)) /\ Len(ds) = size + 1
      BY <1>2, <1>3
  <2>2. ds[size + 1] = CodeString(c)
      BY <1>1, <1>2, <1>3
  <2>3. \A i \in 1 .. size : ds[i] = bs[i]
      BY <1>1, <1>2, <1>3
  <2> HIDE DEF ds
  <2>4. \A i \in 1 .. size + 1 : i = size + 1 \/ i \in 1 .. size
      BY <1>1
  <2>5. \A i \in 1 .. size + 1 : ds[i] = cs[i]
      BY <1>3, <1>4, <2>2, <2>3, <2>4
  <2>6. ds = cs
      BY <1>4, <2>1, <2>5, SeqEqual
  <2> QED  BY <2>6 DEF ds
<1> QED  BY <1>2, <1>3, <1>5, <1>6, FlattenLast DEF longer

-----------------------------------------------------------------------------
(* huff().                                                                 *)

\* The octets out and the last len bits of the word are the bits bs.
SpellsCodes(bs, out, word, len) ==
    /\ bs \in Seq(BOOLEAN) /\ out \in Seq(SUBSET Ones(8)) /\ len \in Nat
    /\ word \subseteq Ones(len)
    /\ Len(bs) = 8 * Len(out) + len
    /\ \A j \in 1 .. Len(out), i \in 0 .. 7 : 8 * j - i \in OneAt(bs) <=> i \in out[j]
    /\ \A i \in 0 .. len - 1 : (8 * Len(out) + len) - i \in OneAt(bs) <=> i \in word

\* SpellsCodes, place by place.
LEMMA SpellsMeans ==
    ASSUME NEW bs, NEW out, NEW word, NEW len, SpellsCodes(bs, out, word, len)
    PROVE  /\ bs \in Seq(BOOLEAN) /\ out \in Seq(SUBSET Ones(8)) /\ len \in Nat
           /\ word \subseteq 0 .. len - 1 /\ Len(out) \in Nat
           /\ Len(bs) = 8 * Len(out) + len
           /\ \A j \in 1 .. Len(out), i \in 0 .. 7 : 8 * j - i \in OneAt(bs) <=> i \in out[j]
           /\ \A i \in 0 .. len - 1 : (8 * Len(out) + len) - i \in OneAt(bs) <=> i \in word
<1>1. bs \in Seq(BOOLEAN) /\ out \in Seq(SUBSET Ones(8)) /\ len \in Nat
    BY Zenon DEF SpellsCodes
<1>2. Len(out) \in Nat
    BY <1>1
<1>3. word \subseteq 0 .. len - 1
    BY Zenon DEF SpellsCodes, Ones
<1>4. /\ Len(bs) = 8 * Len(out) + len
      /\ \A j \in 1 .. Len(out), i \in 0 .. 7 : 8 * j - i \in OneAt(bs) <=> i \in out[j]
      /\ \A i \in 0 .. len - 1 : (8 * Len(out) + len) - i \in OneAt(bs) <=> i \in word
    BY Zenon DEF SpellsCodes
<1> QED  BY <1>1, <1>2, <1>3, <1>4, Zenon

\* The bits of a code go to the end of the word, if there is room for all.
LEMMA AppendSpells ==
    ASSUME NEW bs, NEW out, NEW word, NEW len, SpellsCodes(bs, out, word, len),
           NEW size \in Nat, len + size <= 32, NEW code \in SUBSET Ones(size)
    PROVE  SpellsCodes(bs \o BitString(code, size), out, ShiftLeft(word, size, 32) \cup code, len + size)
<1> DEFINE b == BitString(code, size)
           all == bs \o b
           longer == ShiftLeft(word, size, 32) \cup code
           base == 8 * Len(out)
<1>1. /\ bs \in Seq(BOOLEAN) /\ out \in Seq(SUBSET Ones(8)) /\ len \in Nat
      /\ word \subseteq 0 .. len - 1 /\ Len(out) \in Nat /\ base \in Nat
      /\ Len(bs) = base + len
      /\ \A j \in 1 .. Len(out), i \in 0 .. 7 : 8 * j - i \in OneAt(bs) <=> i \in out[j]
      /\ \A i \in 0 .. len - 1 : (base + len) - i \in OneAt(bs) <=> i \in word
  <2>1. /\ bs \in Seq(BOOLEAN) /\ out \in Seq(SUBSET Ones(8)) /\ len \in Nat
        /\ word \subseteq 0 .. len - 1 /\ Len(out) \in Nat
        /\ Len(bs) = 8 * Len(out) + len
        /\ \A j \in 1 .. Len(out), i \in 0 .. 7 : 8 * j - i \in OneAt(bs) <=> i \in out[j]
        /\ \A i \in 0 .. len - 1 : (8 * Len(out) + len) - i \in OneAt(bs) <=> i \in word
      BY SpellsMeans, Zenon
  <2>2. Len(out) \in Nat
      BY <2>1, Zenon
  <2>3. base \in Nat
      BY <2>2
  <2> QED  BY <2>1, <2>3, Zenon
<1>2. /\ b \in Seq(BOOLEAN) /\ Len(b) = size
      /\ \A k \in 1 .. size : k \in OneAt(b) <=> size - k \in code
    BY BitStringIs
<1> HIDE DEF b
<1>3. /\ all \in Seq(BOOLEAN) /\ Len(all) = Len(bs) + Len(b)
      /\ \A k \in 1 .. Len(bs) : k \in OneAt(all) <=> k \in OneAt(bs)
      /\ \A k \in 1 .. Len(b) : Len(bs) + k \in OneAt(all) <=> k \in OneAt(b)
    BY <1>1, <1>2, OneAtConcat
<1>4. /\ longer \subseteq 0 .. len + size - 1
      /\ \A i \in 0 .. size - 1 : i \in longer <=> i \in code
      /\ \A i \in size .. len + size - 1 : i \in longer <=> i - size \in word
  <2>1. code \subseteq 0 .. size - 1
      BY DEF Ones
  <2>2. \A i : i \in ShiftLeft(word, size, 32) <=> (i \in 0 .. 31 /\ \E p \in word : i = p + size)
      BY DEF ShiftLeft, Ones
  <2>3. \A i : i \in longer <=> i \in ShiftLeft(word, size, 32) \/ i \in code
      OBVIOUS
  <2> HIDE DEF longer
  <2>4. ASSUME NEW i, i \in longer  PROVE i \in 0 .. len + size - 1
    <3>1. CASE i \in code
        BY <1>1, <2>1, <3>1
    <3>2. CASE \E p \in word : i = p + size
        BY <1>1, <3>2
    <3> QED  BY <2>2, <2>3, <2>4, <3>1, <3>2
  <2>5. ASSUME NEW i \in 0 .. size - 1  PROVE i \in longer <=> i \in code
    <3>1. ~ \E p \in word : i = p + size
        BY <1>1
    <3> QED  BY <2>2, <2>3, <3>1
  <2>6. ASSUME NEW i \in size .. len + size - 1  PROVE i \in longer <=> i - size \in word
    <3>1. i \notin code /\ i \in 0 .. 31 /\ i = (i - size) + size
      <4>1. len \in Nat /\ i \in Int /\ i >= size /\ i <= len + size - 1
          BY <1>1
      <4>2. i \in 0 .. 31 /\ i = (i - size) + size /\ i \notin 0 .. size - 1
          BY <4>1
      <4> QED  BY <2>1, <4>2
    <3>2. (\E p \in word : i = p + size) <=> i - size \in word
      <4>1. \A p \in word : i = p + size => p = i - size
          BY <1>1
      <4> QED  BY <3>1, <4>1
    <3> QED  BY <2>2, <2>3, <3>1, <3>2
  <2> QED  BY <2>4, <2>5, <2>6
<1> HIDE DEF all, longer, base
<1>5. ASSUME NEW j \in 1 .. Len(out), NEW i \in 0 .. 7
      PROVE  8 * j - i \in OneAt(all) <=> i \in out[j]
  <2>1. 8 * j - i \in 1 .. Len(bs)
    <3>1. Len(out) \in Nat /\ len \in Nat /\ Len(bs) = 8 * Len(out) + len
        BY <1>1 DEF base
    <3> QED  BY <3>1
  <2> QED  BY <1>1, <1>3, <2>1
<1>6. ASSUME NEW i \in 0 .. (len + size) - 1
      PROVE  (base + (len + size)) - i \in OneAt(all) <=> i \in longer
  <2>1. CASE i < size
    <3>1. /\ (base + (len + size)) - i = Len(bs) + (size - i)
          /\ size - i \in 1 .. size /\ size - (size - i) = i /\ i \in 0 .. size - 1
        BY <1>1, <2>1
    <3> QED  BY <1>2, <1>3, <1>4, <3>1
  <2>2. CASE i >= size
    <3>1. /\ (base + (len + size)) - i = (base + len) - (i - size)
          /\ (base + len) - (i - size) \in 1 .. Len(bs)
          /\ i - size \in 0 .. len - 1 /\ i \in size .. len + size - 1
        BY <1>1, <2>2, SMTT(30)
    <3> QED  BY <1>1, <1>3, <1>4, <3>1
  <2> QED  BY <2>1, <2>2
<1>7. Len(all) = base + (len + size) /\ len + size \in Nat /\ longer \subseteq Ones(len + size)
    BY <1>1, <1>2, <1>3, <1>4 DEF Ones
<1>8. SpellsCodes(all, out, longer, len + size)
    BY <1>1, <1>3, <1>5, <1>6, <1>7 DEF SpellsCodes, base
<1> QED  BY <1>8 DEF all, b, longer

\* drain() moves whole octets out of the word.
LEMMA DrainSpells ==
    ASSUME NEW bs, NEW out, NEW word, NEW len, SpellsCodes(bs, out, word, len)
    PROVE  LET d == Drain(out, word, len)
           IN  SpellsCodes(bs, d.out, d.bits, d.n) /\ d.n = len % 8 /\ d.n \in 0 .. 7
               /\ Len(d.out) = Len(out) + len \div 8
<1> DEFINE count == len \div 8
           rest == len % 8
           octet(j) == ShiftRight(word, len - 8 * j) \cap Ones(8)
           new == [j \in 1 .. count |-> octet(j)]
           o == out \o new
           w == IF len >= 8 THEN word \cap Ones(rest) ELSE word
<1>1. /\ bs \in Seq(BOOLEAN) /\ out \in Seq(SUBSET Ones(8)) /\ len \in Nat
      /\ word \subseteq 0 .. len - 1 /\ Len(out) \in Nat
      /\ Len(bs) = 8 * Len(out) + len
      /\ \A j \in 1 .. Len(out), i \in 0 .. 7 : 8 * j - i \in OneAt(bs) <=> i \in out[j]
      /\ \A i \in 0 .. len - 1 : (8 * Len(out) + len) - i \in OneAt(bs) <=> i \in word
    BY SpellsMeans, Zenon
<1>2. count \in Nat /\ rest \in 0 .. 7 /\ len = 8 * count + rest
    BY <1>1
<1>3. Drain(out, word, len) = [out |-> o, bits |-> w, n |-> rest]
    BY DEF Drain
<1>4. \A j \in 1 .. count, i \in 0 .. 7 : octet(j) \in SUBSET Ones(8) /\ (i \in octet(j) <=> i + (len - 8 * j) \in word)
  <2> TAKE j \in 1 .. count, i \in 0 .. 7
  <2>1. len - 8 * j \in Nat
      BY <1>2
  <2>2. i \in ShiftRight(word, len - 8 * j) <=> \E p \in word : p >= len - 8 * j /\ i = p - (len - 8 * j)
      BY DEF ShiftRight
  <2>3. (\E p \in word : p >= len - 8 * j /\ i = p - (len - 8 * j)) <=> i + (len - 8 * j) \in word
      BY <1>1, <2>1
  <2>4. i \in Ones(8)
      BY DEF Ones
  <2> QED  BY <2>2, <2>3, <2>4
<1>5. /\ new \in Seq(SUBSET Ones(8)) /\ Len(new) = count
      /\ \A j \in 1 .. count : new[j] = octet(j)
  <2>1. new \in [1 .. count -> SUBSET Ones(8)] /\ \A j \in 1 .. count : new[j] = octet(j)
    <3>1. \A j \in 1 .. count : octet(j) \in SUBSET Ones(8)
        OBVIOUS
    <3> HIDE DEF octet, count
    <3> QED  BY <3>1
  <2> HIDE DEF new, octet, count
  <2> QED  BY <1>2, <2>1
<1> HIDE DEF new, octet, count, rest
<1>6. /\ o \in Seq(SUBSET Ones(8)) /\ Len(o) = Len(out) + count
      /\ \A j \in 1 .. Len(out) : o[j] = out[j]
      /\ \A j \in 1 .. count : o[Len(out) + j] = new[j]
  <2>1. /\ o \in Seq(SUBSET Ones(8)) /\ Len(o) = Len(out) + Len(new)
        /\ \A j \in 1 .. Len(out) + Len(new) :
              o[j] = IF j <= Len(out) THEN out[j] ELSE new[j - Len(out)]
      BY <1>1, <1>5, ConcatProperties
  <2> HIDE DEF o
  <2>2. ASSUME NEW j \in 1 .. Len(out)  PROVE o[j] = out[j]
    <3>1. j \in 1 .. Len(out) + Len(new) /\ j <= Len(out)
        BY <1>1, <1>2, <1>5, SMTT(30)
    <3> QED  BY <2>1, <3>1
  <2>3. ASSUME NEW j \in 1 .. count  PROVE o[Len(out) + j] = new[j]
    <3>1. /\ Len(out) + j \in 1 .. Len(out) + Len(new) /\ ~ (Len(out) + j <= Len(out))
          /\ (Len(out) + j) - Len(out) = j
        BY <1>1, <1>2, <1>5
    <3> QED  BY <2>1, <3>1
  <2> QED  BY <1>5, <2>1, <2>2, <2>3
<1>7. /\ w \subseteq 0 .. rest - 1
      /\ \A i \in 0 .. rest - 1 : i \in w <=> i \in word
  <2>1. CASE len >= 8
    <3>1. \A i : i \in w <=> i \in word /\ i \in 0 .. rest - 1
        BY <2>1 DEF Ones
    <3> QED  BY <3>1
  <2>2. CASE ~ (len >= 8)
    <3>1. rest = len /\ w = word
      <4>1. count = 0
          BY <1>1, <1>2, <2>2
      <4> QED  BY <1>1, <1>2, <2>2, <4>1
    <3> QED  BY <1>1, <3>1
  <2> QED  BY <2>1, <2>2
<1> HIDE DEF o, w
<1>8. ASSUME NEW j \in 1 .. Len(o), NEW i \in 0 .. 7
      PROVE  8 * j - i \in OneAt(bs) <=> i \in o[j]
  <2>1. CASE j <= Len(out)
    <3>1. j \in 1 .. Len(out)
        BY <1>1, <1>6, <2>1
    <3> QED  BY <1>1, <1>6, <3>1
  <2>2. CASE j > Len(out)
    <3> DEFINE q == j - Len(out)
    <3>1. q \in 1 .. count /\ j = Len(out) + q
        BY <1>1, <1>2, <1>6, <2>2, SMTT(30)
    <3>2. i + (len - 8 * q) \in 0 .. len - 1
        BY <1>1, <1>2, <3>1
    <3>3. 8 * j - i = (8 * Len(out) + len) - (i + (len - 8 * q))
        BY <1>1, <3>1
    <3>4. o[j] = octet(q)
        BY <1>5, <1>6, <3>1
    <3> HIDE DEF q
    <3> QED  BY <1>1, <1>4, <3>1, <3>2, <3>3, <3>4
  <2> QED  BY <1>1, <1>6, <2>1, <2>2
<1>9. ASSUME NEW i \in 0 .. rest - 1
      PROVE  (8 * Len(o) + rest) - i \in OneAt(bs) <=> i \in w
  <2>1. (8 * Len(o) + rest) - i = (8 * Len(out) + len) - i /\ i \in 0 .. len - 1
      BY <1>1, <1>2, <1>6
  <2> QED  BY <1>1, <1>7, <2>1
<1>10. Len(bs) = 8 * Len(o) + rest /\ rest \in Nat /\ w \subseteq Ones(rest)
    BY <1>1, <1>2, <1>6, <1>7 DEF Ones
<1>11. SpellsCodes(bs, o, w, rest)
    BY <1>1, <1>6, <1>8, <1>9, <1>10 DEF SpellsCodes
<1> QED  BY <1>2, <1>3, <1>6, <1>11 DEF count, rest

\* The bits that are spelled, as PendingBits writes them.
LEMMA SpellsBits ==
    ASSUME NEW bs, NEW out, NEW word, NEW len, SpellsCodes(bs, out, word, len)
    PROVE  BitsOf(out) \o BitString(word, len) = bs
<1> DEFINE a == BitsOf(out)
           b == BitString(word, len)
           c == a \o b
<1>1. /\ bs \in Seq(BOOLEAN) /\ out \in Seq(SUBSET Ones(8)) /\ len \in Nat
      /\ word \subseteq 0 .. len - 1 /\ Len(out) \in Nat
      /\ Len(bs) = 8 * Len(out) + len
      /\ \A j \in 1 .. Len(out), i \in 0 .. 7 : 8 * j - i \in OneAt(bs) <=> i \in out[j]
      /\ \A i \in 0 .. len - 1 : (8 * Len(out) + len) - i \in OneAt(bs) <=> i \in word
    BY SpellsMeans, Zenon
<1>2. /\ a \in Seq(BOOLEAN) /\ Len(a) = 8 * Len(out)
      /\ \A j \in 1 .. Len(out), i \in 0 .. 7 : 8 * j - i \in OneAt(a) <=> i \in out[j]
    BY <1>1, BitsOfIs
<1>3. /\ b \in Seq(BOOLEAN) /\ Len(b) = len
      /\ \A k \in 1 .. len : k \in OneAt(b) <=> len - k \in word
    BY <1>1, BitStringIs
<1> HIDE DEF a, b
<1>4. /\ c \in Seq(BOOLEAN) /\ Len(c) = Len(a) + Len(b)
      /\ \A k \in 1 .. Len(a) : k \in OneAt(c) <=> k \in OneAt(a)
      /\ \A k \in 1 .. Len(b) : Len(a) + k \in OneAt(c) <=> k \in OneAt(b)
    BY <1>2, <1>3, OneAtConcat
<1> HIDE DEF c
<1>5. Len(c) = Len(bs)
    BY <1>1, <1>2, <1>3, <1>4
<1>6. ASSUME NEW k \in 1 .. Len(bs)  PROVE k \in OneAt(c) <=> k \in OneAt(bs)
  <2>1. CASE k <= 8 * Len(out)
    <3>1. PICK j \in 1 .. Len(out), i \in 0 .. 7 : k = 8 * j - i
      <4>1. (k + 7) \div 8 \in 1 .. Len(out) /\ 8 * ((k + 7) \div 8) - k \in 0 .. 7
          BY <1>1, <2>1
      <4>2. k = 8 * ((k + 7) \div 8) - (8 * ((k + 7) \div 8) - k)
          BY <4>1
      <4> QED  BY <4>1, <4>2
    <3>2. k \in 1 .. Len(a)
        BY <1>1, <1>2, <2>1
    <3> QED  BY <1>1, <1>2, <1>4, <3>1, <3>2
  <2>2. CASE k > 8 * Len(out)
    <3> DEFINE m == k - 8 * Len(out)
    <3>1. /\ m \in 1 .. len /\ k = Len(a) + m /\ len - m \in 0 .. len - 1
          /\ k = (8 * Len(out) + len) - (len - m)
        BY <1>1, <1>2, <2>2
    <3> HIDE DEF m
    <3>2. k \in OneAt(c) <=> len - m \in word
        BY <1>3, <1>4, <3>1
    <3>3. k \in OneAt(bs) <=> len - m \in word
        BY <1>1, <3>1
    <3> QED  BY <3>2, <3>3
  <2> QED  BY <1>1, <2>1, <2>2
<1>7. OneAt(c) = OneAt(bs)
  <2>1. \A k \in OneAt(c) : k \in 1 .. Len(c)
      BY Zenon DEF OneAt
  <2>2. \A k \in OneAt(bs) : k \in 1 .. Len(bs)
      BY Zenon DEF OneAt
  <2> QED  BY <1>5, <1>6, <2>1, <2>2
<1> QED  BY <1>1, <1>4, <1>5, <1>7, SameBits DEF a, b, c

\* Octets with the same eight bits are the same.
LEMMA SameOctet ==
    ASSUME NEW a \in SUBSET Ones(8), NEW b \in SUBSET Ones(8),
           \A i \in 0 .. 7 : i \in a <=> i \in b
    PROVE  a = b
<1>1. a \subseteq 0 .. 7 /\ b \subseteq 0 .. 7
    BY DEF Ones
<1>2. \A i : i \in a <=> i \in b
    BY <1>1
<1> QED  BY <1>2, Zenon

\* The octets the standard prescribes: ones follow the last bit.
LEMMA StdOctetsIs ==
    ASSUME NEW string \in Seq(Symbol)
    PROVE  LET bs == StdBits(string)
               os == StdOctets(string)
           IN  /\ os \in Seq(SUBSET Ones(8)) /\ Len(os) = (Len(bs) + 7) \div 8
               /\ \A j \in 1 .. Len(os), i \in 0 .. 7 :
                     i \in os[j] <=> 8 * j - i > Len(bs) \/ 8 * j - i \in OneAt(bs)
<1> DEFINE bs == StdBits(string)
           bit(k) == k > Len(bs) \/ bs[k]
           size == (Len(bs) + 7) \div 8
           os == [j \in 1 .. size |-> {i \in Ones(8) : bit(8 * j - i)}]
<1>1. bs \in Seq(BOOLEAN) /\ Len(bs) \in Nat
    BY StdBitsType
<1>2. StdOctets(string) = os
    BY DEF StdOctets
<1> HIDE DEF bs
<1>3. size \in Nat
    BY <1>1
<1> HIDE DEF size
<1>4. /\ \A j \in 1 .. size : os[j] = {i \in Ones(8) : bit(8 * j - i)}
      /\ os \in [1 .. size -> SUBSET Ones(8)]
  <2>1. \A j \in 1 .. size : {i \in Ones(8) : bit(8 * j - i)} \in SUBSET Ones(8)
      OBVIOUS
  <2> HIDE DEF bit
  <2> QED  BY <2>1, Zenon
<1> HIDE DEF os
<1>5. os \in Seq(SUBSET Ones(8)) /\ Len(os) = size
    BY <1>3, <1>4
<1>6. ASSUME NEW j \in 1 .. size, NEW i \in 0 .. 7
      PROVE  i \in os[j] <=> 8 * j - i > Len(bs) \/ 8 * j - i \in OneAt(bs)
  <2> DEFINE k == 8 * j - i
  <2>1. k \in Int /\ k >= 1
      BY <1>3
  <2>2. i \in Ones(8)
      BY DEF Ones
  <2>3. i \in os[j] <=> bit(k)
    <3> HIDE DEF bit
    <3> QED  BY <1>4, <2>2, Zenon
  <2> HIDE DEF k
  <2>4. CASE k > Len(bs)
      BY <2>3, <2>4, Zenon DEF k
  <2>5. CASE ~ (k > Len(bs))
    <3>1. k \in 1 .. Len(bs)
        BY <1>1, <2>1, <2>5
    <3>2. k \in OneAt(bs) <=> bs[k]
        BY <3>1, Zenon DEF OneAt
    <3> QED  BY <2>3, <2>5, <3>2, Zenon DEF k
  <2> QED  BY <2>4, <2>5
<1> QED  BY <1>2, <1>5, <1>6 DEF bs, size

\* The padding of huff() is that of the standard.
LEMMA PaddedIsStandard ==
    ASSUME NEW string \in Seq(Symbol), NEW out, NEW word, NEW len \in 0 .. 7,
           SpellsCodes(StdBits(string), out, word, len)
    PROVE  StdOctets(string) = IF len = 0 THEN out ELSE Append32(out, word, len, Ones(7), 7).out
<1> DEFINE bs == StdBits(string)
           os == StdOctets(string)
<1>1. /\ os \in Seq(SUBSET Ones(8)) /\ Len(os) = (Len(bs) + 7) \div 8
      /\ \A j \in 1 .. Len(os), i \in 0 .. 7 :
            i \in os[j] <=> 8 * j - i > Len(bs) \/ 8 * j - i \in OneAt(bs)
    BY StdOctetsIs
<1> HIDE DEF bs, os
<1>2. SpellsCodes(bs, out, word, len)
    BY DEF bs
<1>3. bs \in Seq(BOOLEAN) /\ out \in Seq(SUBSET Ones(8)) /\ Len(out) \in Nat /\ Len(bs) = 8 * Len(out) + len
    BY <1>2, SpellsMeans
<1>4. ASSUME NEW o \in Seq(SUBSET Ones(8)), Len(o) = Len(os),
             \A j \in 1 .. Len(o), i \in 0 .. 7 : i \in os[j] <=> i \in o[j]
      PROVE  os = o
  <2>1. ASSUME NEW j \in 1 .. Len(os)  PROVE os[j] = o[j]
    <3>1. os[j] \in SUBSET Ones(8) /\ o[j] \in SUBSET Ones(8)
        BY <1>1, <1>4, ElementOfSeq
    <3>2. \A i \in 0 .. 7 : i \in os[j] <=> i \in o[j]
        BY <1>4
    <3> QED  BY <3>1, <3>2, SameOctet
  <2> QED  BY <1>1, <1>4, <2>1, SeqEqual
<1>5. CASE len = 0
  <2>1. Len(os) = Len(out) /\ Len(bs) = 8 * Len(out)
      BY <1>1, <1>3, <1>5
  <2>2. ASSUME NEW j \in 1 .. Len(out), NEW i \in 0 .. 7  PROVE i \in os[j] <=> i \in out[j]
    <3>1. ~ (8 * j - i > Len(bs))
        BY <1>3, <2>1
    <3>2. 8 * j - i \in OneAt(bs) <=> i \in out[j]
        BY <1>2, SpellsMeans
    <3> QED  BY <1>1, <2>1, <3>1, <3>2
  <2> QED  BY <1>3, <1>4, <1>5, <2>1, <2>2 DEF os
<1>6. CASE len # 0
  <2> DEFINE pad == BitString(Ones(7), 7)
             all == bs \o pad
             longer == ShiftLeft(word, 7, 32) \cup Ones(7)
             d == Drain(out, longer, len + 7)
             o == d.out
  <2>1. SpellsCodes(all, out, longer, len + 7)
    <3>1. 7 \in Nat /\ len + 7 <= 32 /\ Ones(7) \in SUBSET Ones(7)
        BY DEF Ones
    <3> QED  BY <1>2, <3>1, AppendSpells
  <2>2. SpellsCodes(all, d.out, d.bits, d.n) /\ Len(d.out) = Len(out) + (len + 7) \div 8
    <3> HIDE DEF all, longer
    <3> QED  BY <2>1, DrainSpells
  <2>3. /\ pad \in Seq(BOOLEAN) /\ Len(pad) = 7
        /\ \A k \in 1 .. 7 : k \in OneAt(pad)
    <3>1. 7 \in Nat /\ \A k \in 1 .. 7 : 7 - k \in Ones(7)
        BY DEF Ones
    <3> QED  BY <3>1, BitStringIs
  <2> HIDE DEF pad
  <2>4. /\ Len(all) = Len(bs) + 7
        /\ \A k \in 1 .. Len(bs) : k \in OneAt(all) <=> k \in OneAt(bs)
        /\ \A k \in 1 .. 7 : Len(bs) + k \in OneAt(all)
      BY <1>3, <2>3, OneAtConcat
  <2> HIDE DEF all, d
  <2>5. o \in Seq(SUBSET Ones(8)) /\ Len(o) = Len(os) /\ 8 * Len(o) <= Len(bs) + 7
    <3>1. (len + 7) \div 8 = 1
        BY <1>6
    <3>2. Len(o) = Len(out) + 1
        BY <2>2, <3>1
    <3>3. o \in Seq(SUBSET Ones(8))
        BY <2>2, SpellsMeans
    <3>4. Len(os) = Len(out) + 1
        BY <1>1, <1>3, <1>6
    <3> QED  BY <1>3, <1>6, <3>2, <3>3, <3>4
  <2>6. ASSUME NEW j \in 1 .. Len(o), NEW i \in 0 .. 7  PROVE i \in os[j] <=> i \in o[j]
    <3> DEFINE k == 8 * j - i
    <3>1. k \in OneAt(all) <=> i \in o[j]
        BY <2>2, SpellsMeans
    <3>2. i \in os[j] <=> k > Len(bs) \/ k \in OneAt(bs)
        BY <1>1, <2>5
    <3>3. k >= 1 /\ k <= Len(bs) + 7 /\ k \in Int /\ Len(bs) \in Nat
        BY <1>3, <2>5
    <3> HIDE DEF k, o
    <3>4. CASE k <= Len(bs)
      <4>1. k \in 1 .. Len(bs) /\ ~ (k > Len(bs))
          BY <3>3, <3>4
      <4> QED  BY <2>4, <3>1, <3>2, <4>1
    <3>5. CASE k > Len(bs)
      <4>1. k - Len(bs) \in 1 .. 7 /\ Len(bs) + (k - Len(bs)) = k
          BY <3>3, <3>5
      <4> QED  BY <2>4, <3>1, <3>2, <3>5, <4>1
    <3> QED  BY <3>3, <3>4, <3>5
  <2>7. os = o
      BY <1>4, <2>5, <2>6
  <2> QED  BY <1>6, <2>7 DEF os, d, Append32
<1> QED  BY <1>5, <1>6

-----------------------------------------------------------------------------
(* find_code().                                                            *)

\* What MsbCode holds of a code: its bits from bit 31 down, and zeros.
LEMMA MsbCodeIs ==
    ASSUME NEW c \in Symbol
    PROVE  /\ MsbCode[c] \in SUBSET (0 .. 31)
           /\ \A p \in 0 .. 31 :
                 p \in MsbCode[c] <=> p >= 32 - CodeLength[c] /\ p - (32 - CodeLength[c]) \in Code[c]
<1>1. MsbCode[c] = ShiftLeft(Code[c], 32 - CodeLength[c], 32)
    BY DEF MsbCode
<1>2. CodeLength[c] \in 5 .. 30 /\ Code[c] \subseteq 0 .. CodeLength[c] - 1
    BY CodeFacts DEF Ones
<1> DEFINE k == 32 - CodeLength[c]
<1>3. k \in 2 .. 27 /\ k \in Nat
    BY <1>2
<1>4. \A p : p \in MsbCode[c] <=> p \in 0 .. 31 /\ \E i \in Code[c] : p = i + k
    BY <1>1 DEF ShiftLeft, Ones
<1>5. ASSUME NEW p \in 0 .. 31
      PROVE  (\E i \in Code[c] : p = i + k) <=> p >= k /\ p - k \in Code[c]
  <2>1. \A i \in Code[c] : i \in Nat /\ (p = i + k => p >= k /\ i = p - k)
      BY <1>2, <1>3
  <2>2. p = (p - k) + k
      BY <1>3
  <2> HIDE DEF k
  <2> QED  BY <2>1, <2>2
<1> QED  BY <1>4, <1>5

\* b is greater than a because of bit i.
Differ(a, b, i) == i \in b \ a /\ \A j \in 0 .. 31 : j > i => (j \in a <=> j \in b)

\* One word is less than another if they first differ where it has a zero.
LEMMA LessIs ==
    ASSUME NEW a \in SUBSET (0 .. 31), NEW b \in SUBSET (0 .. 31)
    PROVE  Less(a, b) <=> \E i \in 0 .. 31 : Differ(a, b, i)
<1>1. ASSUME NEW i \in 0 .. 31, Differ(a, b, i)  PROVE Less(a, b)
  <2>1. i \in b \ a /\ \A j \in a \ b : j < i
      BY <1>1 DEF Differ
  <2> QED  BY <2>1 DEF Less
<1>2. ASSUME Less(a, b)  PROVE \E i \in 0 .. 31 : Differ(a, b, i)
  <2>1. PICK first \in b \ a : \A j \in a \ b : j < first
      BY <1>2 DEF Less
  <2>2. b \ a \subseteq Nat /\ b \ a # {} /\ \A y \in b \ a : y <= 31
      BY <2>1
  <2>3. PICK i \in b \ a : \A y \in b \ a : i >= y
      BY <2>2, NatGreatest, 31 \in Nat
  <2>4. \A j \in 0 .. 31 : j > i => (j \in a <=> j \in b)
    <3>1. first <= i /\ i \in 0 .. 31 /\ first \in 0 .. 31
        BY <2>1, <2>3
    <3> QED  BY <2>1, <2>3, <3>1
  <2> QED  BY <2>3, <2>4 DEF Differ
<1> QED  BY <1>1, <1>2

\* Of two different words one is less.
LEMMA LessTotal ==
    ASSUME NEW a \in SUBSET (0 .. 31), NEW b \in SUBSET (0 .. 31), a # b
    PROVE  Less(a, b) \/ Less(b, a)
<1> DEFINE D == (a \ b) \cup (b \ a)
<1>1. D \subseteq Nat /\ D # {} /\ \A y \in D : y <= 31
  <2>1. D # {}
      BY Zenon
  <2> QED  BY <2>1
<1>2. PICK i \in D : \A y \in D : i >= y
  <2> HIDE DEF D
  <2> QED  BY <1>1, NatGreatest, 31 \in Nat
<1>3. i \in 0 .. 31 /\ \A j \in 0 .. 31 : j > i => (j \in a <=> j \in b)
    BY <1>2
<1>4. Differ(a, b, i) \/ Differ(b, a, i)
    BY <1>2, <1>3 DEF Differ
<1> QED  BY <1>3, <1>4, LessIs

\* No word is less than one that is less than it.
LEMMA LessAsymmetric ==
    ASSUME NEW a \in SUBSET (0 .. 31), NEW b \in SUBSET (0 .. 31), Less(a, b)
    PROVE  ~ Less(b, a)
<1> SUFFICES ASSUME Less(b, a)  PROVE FALSE
    OBVIOUS
<1>1. PICK i \in 0 .. 31 : Differ(a, b, i)
    BY LessIs
<1>2. PICK j \in 0 .. 31 : Differ(b, a, j)
    BY LessIs
<1>3. i < j \/ j < i \/ i = j
    OBVIOUS
<1> QED  BY <1>1, <1>2, <1>3 DEF Differ

\* Two codes of which one begins the other are the same.
LEMMA PrefixIsSame ==
    ASSUME NEW c \in Symbol, NEW d \in Symbol, CodeLength[c] <= CodeLength[d],
           \A p \in 0 .. 31 : p >= 32 - CodeLength[c] => (p \in MsbCode[c] <=> p \in MsbCode[d])
    PROVE  c = d
<1> DEFINE x == CodeLength[c]
           y == CodeLength[d]
           a == CodeString(c)
           b == CodeString(d)
           e == SubSeq(b, 1, x)
<1>1. /\ x \in 5 .. 30 /\ a \in Seq(BOOLEAN) /\ Len(a) = x
      /\ \A k \in 1 .. x : k \in OneAt(a) <=> x - k \in Code[c]
    BY CodeFacts
<1>2. /\ y \in 5 .. 30 /\ b \in Seq(BOOLEAN) /\ Len(b) = y
      /\ \A k \in 1 .. y : k \in OneAt(b) <=> y - k \in Code[d]
    BY CodeFacts
<1>3. x <= y
    OBVIOUS
<1>4. ASSUME NEW k \in 1 .. x  PROVE k \in OneAt(a) <=> k \in OneAt(b)
  <2> DEFINE p == 32 - k
  <2>1. p \in 0 .. 31 /\ p >= 32 - x /\ p >= 32 - y /\ p - (32 - x) = x - k /\ p - (32 - y) = y - k
        /\ k \in 1 .. y
    <3>1. x \in 5 .. 30 /\ y \in 5 .. 30 /\ x <= y
        BY <1>1, <1>2, <1>3
    <3> HIDE DEF x, y
    <3> QED  BY <3>1
  <2>2. p \in MsbCode[c] <=> x - k \in Code[c]
      BY <2>1, MsbCodeIs
  <2>3. p \in MsbCode[d] <=> y - k \in Code[d]
      BY <2>1, MsbCodeIs
  <2>4. p \in MsbCode[c] <=> p \in MsbCode[d]
      BY <2>1
  <2> HIDE DEF p, x, y, a, b
  <2> QED  BY <1>1, <1>2, <2>1, <2>2, <2>3, <2>4
<1> HIDE DEF x, y, a, b
<1>5. /\ e \in Seq(BOOLEAN) /\ Len(e) = x
      /\ \A k \in 1 .. x : e[k] = b[k]
  <2>1. x \in 0 .. Len(b)
      BY <1>1, <1>2, <1>3
  <2> QED  BY <1>2, <2>1, BeginningIs
<1> HIDE DEF e
<1>6. OneAt(e) = OneAt(a)
  <2>1. \A k : k \in OneAt(e) <=> k \in 1 .. x /\ e[k]
      BY <1>5, Zenon DEF OneAt
  <2>2. \A k : k \in OneAt(a) <=> k \in 1 .. x /\ a[k]
      BY <1>1, Zenon DEF OneAt
  <2>3. \A k \in 1 .. x : k \in OneAt(b) <=> b[k]
    <3>1. \A k \in 1 .. x : k \in 1 .. Len(b)
        BY <1>1, <1>2, <1>3
    <3> QED  BY <3>1, Zenon DEF OneAt
  <2>4. \A k : k \in OneAt(e) <=> k \in OneAt(a)
      BY <1>4, <1>5, <2>1, <2>2, <2>3, Zenon
  <2> QED  BY <2>4, Zenon
<1>7. e = a
    BY <1>1, <1>5, <1>6, SameBits
<1>8. IsPrefix(a, b)
  <2>1. SubSeq(a, 1, Len(a)) = a
      BY <1>1, SubSeqFull
  <2>2. Len(a) <= Len(b)
      BY <1>1, <1>2, <1>3
  <2> QED  BY <1>1, <1>7, <2>1, <2>2 DEF IsPrefix, e
<1> QED  BY <1>8, CodeAssumption DEF a, b

\* A greater code is greater than every window that begins with a lesser one.
LEMMA GreaterCode ==
    ASSUME NEW c \in Symbol, NEW d \in Symbol, Less(MsbCode[c], MsbCode[d]),
           NEW code \in SUBSET (0 .. 31),
           \A p \in 0 .. 31 : p >= 32 - CodeLength[c] => (p \in code <=> p \in MsbCode[c])
    PROVE  Less(code, MsbCode[d])
<1>1. MsbCode[c] \in SUBSET (0 .. 31) /\ MsbCode[d] \in SUBSET (0 .. 31)
    BY MsbCodeIs
<1>2. PICK i \in 0 .. 31 : Differ(MsbCode[c], MsbCode[d], i)
    BY <1>1, LessIs
<1>3. CodeLength[c] \in 5 .. 30 /\ CodeLength[d] \in 5 .. 30
    BY CodeFacts
<1>4. i >= 32 - CodeLength[c]
  <2> SUFFICES ASSUME i < 32 - CodeLength[c]  PROVE FALSE
      BY <1>3
  <2>1. \A p \in 0 .. 31 : p >= 32 - CodeLength[c] => (p \in MsbCode[c] <=> p \in MsbCode[d])
      BY <1>2, <1>3 DEF Differ
  <2>2. i \in MsbCode[d] /\ i \notin MsbCode[c]
      BY <1>2 DEF Differ
  <2>3. i >= 32 - CodeLength[d]
      BY <2>2, MsbCodeIs
  <2>4. CodeLength[c] <= CodeLength[d]
      BY <1>3, <2>3
  <2>5. c = d
      BY <2>1, <2>4, PrefixIsSame
  <2> QED  BY <2>2, <2>5
<1>5. Differ(code, MsbCode[d], i)
  <2>1. i \in MsbCode[d] \ code
      BY <1>2, <1>4 DEF Differ
  <2>2. \A j \in 0 .. 31 : j > i => (j \in code <=> j \in MsbCode[d])
      BY <1>2, <1>3, <1>4 DEF Differ
  <2> QED  BY <2>1, <2>2 DEF Differ
<1> QED  BY <1>1, <1>5, LessIs

\* Where the window begins with a code, its entry is the one that is found.
LEMMA FindsSymbol ==
    ASSUME NEW c \in Symbol, NEW code \in SUBSET (0 .. 31),
           \A p \in 0 .. 31 : p >= 32 - CodeLength[c] => (p \in code <=> p \in MsbCode[c])
    PROVE  /\ \A d \in FindCode(code).entries : d = c
           /\ c \in FindCode(code).entries
           /\ Found(code, c)
           /\ (\E d \in Symbol : Less(MsbCode[c], MsbCode[d])) => ~ FindCode(code).undefined
<1> DEFINE below == {d \in Symbol : ~ Less(code, MsbCode[d])}
<1>1. \A d \in Symbol : MsbCode[d] \in SUBSET (0 .. 31)
    BY MsbCodeIs
<1>2. /\ FindCode(code).entries = {d \in below : \A e \in below : ~ Less(MsbCode[d], MsbCode[e])}
      /\ FindCode(code).undefined <=> \A d \in Symbol : Less(MsbCode[d], code)
  <2>1. FindCode(code).entries = {d \in below : \A e \in below : ~ Less(MsbCode[d], MsbCode[e])}
      BY DEF FindCode
  <2>2. FindCode(code).undefined <=> \A d \in Symbol : Less(MsbCode[d], code)
      BY Zenon DEF FindCode
  <2> QED  BY <2>1, <2>2
<1>3. \A d \in Symbol : Less(MsbCode[c], MsbCode[d]) => Less(code, MsbCode[d])
    BY GreaterCode
<1>4. c \in below
  <2> SUFFICES ASSUME Less(code, MsbCode[c])  PROVE FALSE
      OBVIOUS
  <2>1. PICK i \in 0 .. 31 : Differ(code, MsbCode[c], i)
      BY <1>1, LessIs
  <2>2. i \in MsbCode[c] /\ i \notin code
      BY <2>1 DEF Differ
  <2>3. i >= 32 - CodeLength[c]
      BY <2>2, MsbCodeIs
  <2> QED  BY <2>2, <2>3
<1>5. \A d \in below : ~ Less(MsbCode[c], MsbCode[d])
    BY <1>3
<1>6. ASSUME NEW d \in below, \A e \in below : ~ Less(MsbCode[d], MsbCode[e])  PROVE d = c
  <2>1. ~ Less(MsbCode[d], MsbCode[c]) /\ ~ Less(MsbCode[c], MsbCode[d])
      BY <1>4, <1>5, <1>6
  <2>2. MsbCode[d] = MsbCode[c]
      BY <1>1, <2>1, LessTotal
  <2>3. CodeLength[c] \in 5 .. 30 /\ CodeLength[d] \in 5 .. 30
      BY CodeFacts
  <2>4. CASE CodeLength[c] <= CodeLength[d]
      BY <2>2, <2>4, PrefixIsSame
  <2>5. CASE CodeLength[d] <= CodeLength[c]
      BY <2>2, <2>5, PrefixIsSame
  <2> QED  BY <2>3, <2>4, <2>5
<1>7. Found(code, c)
  <2> DEFINE k == 32 - CodeLength[c]
  <2>1. CodeLength[c] \in 5 .. 30 /\ Code[c] \subseteq 0 .. CodeLength[c] - 1
      BY CodeFacts DEF Ones
  <2>2. k \in 2 .. 27
      BY <2>1
  <2>3. \A i : i \in ShiftRight(code, k) <=> \E p \in code : p >= k /\ i = p - k
      BY DEF ShiftRight
  <2>4. ASSUME NEW p \in code, p >= k  PROVE p - k \in Code[c]
      BY <2>4, MsbCodeIs
  <2>5. ASSUME NEW i \in Code[c]  PROVE i + k \in code /\ i + k >= k /\ i = (i + k) - k
    <3>1. i + k \in 0 .. 31 /\ i + k >= k /\ i = (i + k) - k
        BY <2>1, <2>2
    <3>2. i + k \in MsbCode[c]
      <4> HIDE DEF k
      <4> QED  BY <3>1, MsbCodeIs DEF k
    <3> QED  BY <3>1, <3>2
  <2> HIDE DEF k
  <2>6. ShiftRight(code, k) = Code[c]
      BY <2>3, <2>4, <2>5
  <2> QED  BY <2>6 DEF Found, k
<1>8. ASSUME NEW d \in Symbol, Less(MsbCode[c], MsbCode[d])  PROVE ~ Less(MsbCode[d], code)
    BY <1>1, <1>3, <1>8, LessAsymmetric
<1> HIDE DEF below
<1> QED  BY <1>2, <1>4, <1>5, <1>6, <1>7, <1>8

-----------------------------------------------------------------------------
(* decode_huffman().                                                       *)

Starts(a, b) ==
    /\ a \in Seq(BOOLEAN) /\ b \in Seq(BOOLEAN) /\ Len(a) <= Len(b)
    /\ \A k \in 1 .. Len(a) : k \in OneAt(a) <=> k \in OneAt(b)

\* The bits of a beginning that is longer by a symbol.
LEMMA LongerBits ==
    ASSUME NEW string \in Seq(Symbol), NEW m \in 0 .. Len(string) - 1
    PROVE  /\ SubSeq(string, 1, m) \in Seq(Symbol) /\ string[m + 1] \in Symbol
           /\ SubSeq(string, 1, m + 1) = Append(SubSeq(string, 1, m), string[m + 1])
           /\ StdBits(SubSeq(string, 1, m + 1)) = StdBits(SubSeq(string, 1, m)) \o CodeString(string[m + 1])
<1> DEFINE a == SubSeq(string, 1, m)
           b == SubSeq(string, 1, m + 1)
           c == string[m + 1]
           d == Append(a, c)
<1>1. m \in 0 .. Len(string) /\ m + 1 \in 0 .. Len(string) /\ m + 1 \in 1 .. Len(string) /\ m \in Nat
    OBVIOUS
<1>2. a \in Seq(Symbol) /\ Len(a) = m /\ \A k \in 1 .. m : a[k] = string[k]
    BY <1>1, BeginningIs
<1>3. b \in Seq(Symbol) /\ Len(b) = m + 1 /\ \A k \in 1 .. m + 1 : b[k] = string[k]
    BY <1>1, BeginningIs
<1>4. c \in Symbol
    BY <1>1, ElementOfSeq
<1> HIDE DEF a, b, c
<1>5. d \in Seq(Symbol) /\ Len(d) = m + 1 /\ d[m + 1] = c /\ \A k \in 1 .. m : d[k] = a[k]
  <2>1. d \in Seq(Symbol) /\ Len(d) = m + 1
      BY <1>2, <1>4
  <2>2. d[m + 1] = c
      BY <1>1, <1>2, <1>4
  <2>3. \A k \in 1 .. m : d[k] = a[k]
      BY <1>1, <1>2, <1>4
  <2> QED  BY <2>1, <2>2, <2>3
<1>6. b = d
  <2>1. ASSUME NEW k \in 1 .. m + 1  PROVE b[k] = d[k]
    <3>1. CASE k = m + 1
        BY <1>3, <1>5, <3>1 DEF c
    <3>2. CASE k # m + 1
      <4>1. k \in 1 .. m
          BY <1>1, <3>2
      <4> QED  BY <1>2, <1>3, <1>5, <4>1
    <3> QED  BY <3>1, <3>2
  <2> HIDE DEF d
  <2> QED  BY <1>3, <1>5, <2>1, SeqEqual
<1>7. StdBits(b) = StdBits(a) \o CodeString(c)
    BY <1>2, <1>4, <1>6, StdBitsAppend
<1> QED  BY <1>2, <1>4, <1>6, <1>7 DEF a, b, c

\* The bits of a beginning of a string begin its bits.
LEMMA BeginningBits ==
    ASSUME NEW string \in Seq(Symbol), NEW m \in 0 .. Len(string)
    PROVE  Starts(StdBits(SubSeq(string, 1, m)), StdBits(string))
<1> DEFINE P(k) == StdBits(SubSeq(string, 1, k))
           rest == Len(string) - m
           T == {d \in 0 .. rest : Starts(P(m), P(m + d))}
<1>1. Len(string) \in Nat /\ m \in Nat /\ rest \in Nat
    OBVIOUS
<1>2. \A k \in 0 .. Len(string) : P(k) \in Seq(BOOLEAN) /\ Len(P(k)) \in Nat
    BY BeginningIs, StdBitsType
<1>3. \A k \in 0 .. Len(string) - 1 : P(k + 1) = P(k) \o CodeString(string[k + 1]) /\ string[k + 1] \in Symbol
    BY LongerBits
<1> HIDE DEF P, rest
<1>4. 0 \in T
  <2>1. m + 0 = m /\ 0 \in 0 .. rest
      BY <1>1
  <2> QED  BY <1>2, <2>1 DEF Starts
<1>5. ASSUME NEW d \in 0 .. rest - 1, d \in T  PROVE d + 1 \in T
  <2> DEFINE k == m + d
             c == CodeString(string[k + 1])
  <2>1. k \in 0 .. Len(string) - 1 /\ k \in 0 .. Len(string) /\ m + (d + 1) = k + 1 /\ d + 1 \in 0 .. rest
      BY <1>1 DEF rest
  <2>2. Starts(P(m), P(k))
      BY <1>5
  <2>3. P(k + 1) = P(k) \o c /\ c \in Seq(BOOLEAN)
      BY <1>3, <2>1, CodeFacts
  <2> HIDE DEF c, k
  <2>4. /\ P(k) \o c \in Seq(BOOLEAN) /\ Len(P(k) \o c) = Len(P(k)) + Len(c)
        /\ \A i \in 1 .. Len(P(k)) : i \in OneAt(P(k) \o c) <=> i \in OneAt(P(k))
      BY <1>2, <2>1, <2>3, OneAtConcat
  <2>5. Len(P(m)) \in Nat /\ Len(P(k)) \in Nat /\ Len(c) \in Nat
      BY <1>1, <1>2, <2>1, <2>3
  <2>6. Starts(P(m), P(k + 1))
    <3>1. Len(P(m)) <= Len(P(k))
        BY <2>2 DEF Starts
    <3>2. Len(P(m)) <= Len(P(k + 1))
        BY <2>3, <2>4, <2>5, <3>1
    <3>3. ASSUME NEW i \in 1 .. Len(P(m))  PROVE i \in OneAt(P(m)) <=> i \in OneAt(P(k + 1))
      <4>1. i \in 1 .. Len(P(k))
          BY <2>5, <3>1
      <4> QED  BY <2>2, <2>3, <2>4, <4>1 DEF Starts
    <3>4. P(m) \in Seq(BOOLEAN) /\ P(k + 1) \in Seq(BOOLEAN)
        BY <2>2, <2>3, <2>4 DEF Starts
    <3> QED  BY <3>2, <3>3, <3>4 DEF Starts
  <2> QED  BY <2>1, <2>6
<1>6. 0 .. rest \subseteq T
  <2> HIDE DEF T
  <2> QED  BY <1>1, <1>4, <1>5, Induction
<1>7. rest \in T
  <2> HIDE DEF T
  <2> QED  BY <1>1, <1>6
<1>8. P(m + rest) = StdBits(string)
  <2>1. m + rest = Len(string)
      BY <1>1 DEF rest
  <2>2. SubSeq(string, 1, Len(string)) = string
      BY SubSeqFull
  <2> QED  BY <2>1, <2>2 DEF P
<1> QED  BY <1>7, <1>8 DEF P

\* The code that follows a beginning of a string.
LEMMA NextCode ==
    ASSUME NEW string \in Seq(Symbol), NEW m \in 0 .. Len(string) - 1
    PROVE  LET pos == Len(StdBits(SubSeq(string, 1, m)))
               c   == string[m + 1]
               bs  == StdBits(string)
           IN  /\ pos + CodeLength[c] <= Len(bs)
               /\ Len(StdBits(SubSeq(string, 1, m + 1))) = pos + CodeLength[c]
               /\ \A k \in 1 .. CodeLength[c] : pos + k \in OneAt(bs) <=> CodeLength[c] - k \in Code[c]
<1> DEFINE a == StdBits(SubSeq(string, 1, m))
           b == StdBits(SubSeq(string, 1, m + 1))
           c == string[m + 1]
           w == CodeString(c)
           bs == StdBits(string)
<1>1. m + 1 \in 0 .. Len(string)
    OBVIOUS
<1>2. b = a \o w /\ c \in Symbol /\ a \in Seq(BOOLEAN)
    BY LongerBits, StdBitsType
<1>3. Starts(b, bs)
    BY <1>1, BeginningBits
<1>4. /\ CodeLength[c] \in Nat /\ w \in Seq(BOOLEAN) /\ Len(w) = CodeLength[c]
      /\ \A k \in 1 .. CodeLength[c] : k \in OneAt(w) <=> CodeLength[c] - k \in Code[c]
    BY <1>2, CodeFacts
<1> HIDE DEF a, b, c, w, bs
<1>5. /\ Len(b) = Len(a) + Len(w)
      /\ \A k \in 1 .. Len(w) : Len(a) + k \in OneAt(b) <=> k \in OneAt(w)
    BY <1>2, <1>4, OneAtConcat
<1>6. Len(a) \in Nat /\ Len(b) \in Nat /\ Len(bs) \in Nat /\ Len(b) <= Len(bs)
    BY <1>2, <1>3 DEF Starts
<1>7. ASSUME NEW k \in 1 .. CodeLength[c]
      PROVE  Len(a) + k \in OneAt(bs) <=> CodeLength[c] - k \in Code[c]
  <2>1. Len(a) + k \in 1 .. Len(b)
      BY <1>4, <1>5, <1>6
  <2>2. Len(a) + k \in OneAt(b) <=> Len(a) + k \in OneAt(bs)
      BY <1>3, <2>1 DEF Starts
  <2> QED  BY <1>4, <1>5, <2>2
<1>8. Len(a) + CodeLength[c] <= Len(bs) /\ Len(b) = Len(a) + CodeLength[c]
    BY <1>4, <1>5, <1>6
<1> QED  BY <1>7, <1>8 DEF a, b, c, bs

\* The bit at a place of what the standard prescribes, padding included, and of
\* the 0xff that the decoder reads past the end.
BitAt(string, k) == k > Len(StdBits(string)) \/ k \in OneAt(StdBits(string))

\* Of the octets of string the first are in the window or have left it, where
\* pos bits have left.
Ahead(string, pos, w, size, rest) ==
    \E r \in Nat :
        /\ pos + size = 8 * r
        /\ rest = SubSeq(StdOctets(string), r + 1, Len(StdOctets(string)))
        /\ \A i \in 0 .. 63 : i \in w <=> i >= 64 - size /\ BitAt(string, pos + (64 - i))

\* The bits of a code leave the window.
LEMMA TakeAhead ==
    ASSUME NEW string, NEW pos \in Nat, NEW w \in SUBSET Ones(64), NEW size \in 0 .. 64, NEW rest,
           Ahead(string, pos, w, size, rest), NEW len \in 0 .. size
    PROVE  Ahead(string, pos + len, ShiftLeft(w, len, 64), size - len, rest)
<1>1. PICK r \in Nat :
        /\ pos + size = 8 * r
        /\ rest = SubSeq(StdOctets(string), r + 1, Len(StdOctets(string)))
        /\ \A i \in 0 .. 63 : i \in w <=> i >= 64 - size /\ BitAt(string, pos + (64 - i))
    BY DEF Ahead
<1>2. (pos + len) + (size - len) = 8 * r
    BY <1>1
<1>3. ASSUME NEW i \in 0 .. 63
      PROVE  i \in ShiftLeft(w, len, 64) <=> i >= 64 - (size - len) /\ BitAt(string, (pos + len) + (64 - i))
  <2>1. i \in ShiftLeft(w, len, 64) <=> \E p \in w : i = p + len
      BY DEF ShiftLeft, Ones
  <2>2. (\E p \in w : i = p + len) <=> i - len \in w
    <3>1. \A p \in w : p \in 0 .. 63
        BY DEF Ones
    <3>2. \A p \in w : i = p + len => p = i - len
        BY <3>1
    <3>3. i = (i - len) + len
        OBVIOUS
    <3> QED  BY <3>2, <3>3
  <2>3. CASE i >= len
    <3>1. i - len \in 0 .. 63 /\ (i - len >= 64 - size <=> i >= 64 - (size - len))
          /\ pos + (64 - (i - len)) = (pos + len) + (64 - i)
        BY <2>3
    <3> QED  BY <1>1, <2>1, <2>2, <3>1
  <2>4. CASE i < len
    <3>1. i - len \notin 0 .. 63 /\ ~ (i >= 64 - (size - len))
        BY <2>4
    <3>2. i - len \notin w
        BY <3>1 DEF Ones
    <3> QED  BY <2>1, <2>2, <3>1, <3>2
  <2> QED  BY <2>3, <2>4
<1> QED  BY <1>1, <1>2, <1>3 DEF Ahead

\* What the next bits of the window are.
LEMMA CodeAhead ==
    ASSUME NEW string, NEW pos \in Nat, NEW w \in SUBSET Ones(64), NEW size \in 30 .. 37, NEW rest,
           Ahead(string, pos, w, size, rest)
    PROVE  LET code == ShiftRight(w, 32)
           IN  /\ code \in SUBSET (0 .. 31)
               /\ \A p \in 2 .. 31 : p \in code <=> BitAt(string, pos + (32 - p))
<1> DEFINE code == ShiftRight(w, 32)
<1>1. \A i \in 0 .. 63 : i \in w <=> i >= 64 - size /\ BitAt(string, pos + (64 - i))
    BY DEF Ahead
<1>2. \A p : p \in code <=> \E i \in w : i >= 32 /\ p = i - 32
    BY DEF ShiftRight
<1>3. \A i \in w : i \in 0 .. 63
    BY DEF Ones
<1>4. code \in SUBSET (0 .. 31)
    BY <1>2, <1>3
<1>5. ASSUME NEW p \in 2 .. 31  PROVE p \in code <=> BitAt(string, pos + (32 - p))
  <2>1. p + 32 \in 0 .. 63 /\ p + 32 >= 64 - size /\ 64 - (p + 32) = 32 - p /\ p = (p + 32) - 32 /\ p + 32 >= 32
      OBVIOUS
  <2>2. p \in code <=> p + 32 \in w
    <3>1. \A i \in w : p = i - 32 => i = p + 32
        BY <1>3
    <3> QED  BY <1>2, <2>1, <3>1
  <2> QED  BY <1>1, <2>1, <2>2
<1> QED  BY <1>4, <1>5

-----------------------------------------------------------------------------
(* Types.                                                                  *)

\* A shift gives a word of the width.
LEMMA ShiftType ==
    ASSUME NEW w, NEW k \in Nat, NEW width \in Nat
    PROVE  /\ ShiftLeft(w, k, width) \subseteq Ones(width)
           /\ w \subseteq Ones(width) => ShiftRight(w, k) \subseteq Ones(width)
<1>1. ShiftLeft(w, k, width) \subseteq Ones(width)
    BY DEF ShiftLeft
<1>2. ASSUME w \subseteq Ones(width)  PROVE ShiftRight(w, k) \subseteq Ones(width)
    BY <1>2 DEF ShiftRight, Ones
<1> QED  BY <1>1, <1>2

\* drain() gives octets and leaves fewer than eight bits.
LEMMA DrainType ==
    ASSUME NEW out \in Seq(SUBSET Ones(8)), NEW word \in SUBSET Ones(32), NEW len \in Nat
    PROVE  LET d == Drain(out, word, len)
           IN  d.out \in Seq(SUBSET Ones(8)) /\ d.bits \in SUBSET Ones(32) /\ d.n \in 0 .. 7
<1> DEFINE octet(j) == ShiftRight(word, len - 8 * j) \cap Ones(8)
           count == len \div 8
           new == [j \in 1 .. count |-> octet(j)]
           w == IF len >= 8 THEN word \cap Ones(len % 8) ELSE word
<1>1. Drain(out, word, len) = [out |-> out \o new, bits |-> w, n |-> len % 8]
    BY DEF Drain
<1>2. new \in Seq(SUBSET Ones(8))
  <2>1. count \in Nat
      BY ModFacts
  <2>2. \A j \in 1 .. count : octet(j) \in SUBSET Ones(8)
      OBVIOUS
  <2> HIDE DEF octet, count
  <2>3. new \in [1 .. count -> SUBSET Ones(8)]
      BY <2>2
  <2> HIDE DEF new
  <2> QED  BY <2>1, <2>3
<1>3. out \o new \in Seq(SUBSET Ones(8))
  <2> HIDE DEF new
  <2> QED  BY <1>2
<1>4. w \in SUBSET Ones(32) /\ len % 8 \in 0 .. 7
    OBVIOUS
<1> HIDE DEF new, w
<1> QED  BY <1>1, <1>3, <1>4

\* So does appending a code first.
LEMMA AppendType ==
    ASSUME NEW out \in Seq(SUBSET Ones(8)), NEW word \in SUBSET Ones(32), NEW pending \in 0 .. 7,
           NEW code \in SUBSET Ones(32), NEW len \in Nat
    PROVE  LET d == Append32(out, word, pending, code, len)
           IN  d.out \in Seq(SUBSET Ones(8)) /\ d.bits \in SUBSET Ones(32) /\ d.n \in 0 .. 7
<1> DEFINE longer == ShiftLeft(word, len, 32) \cup code
<1>1. longer \in SUBSET Ones(32)
    BY ShiftType
<1>2. pending + len \in Nat
    OBVIOUS
<1>3. Append32(out, word, pending, code, len) = Drain(out, longer, pending + len)
    BY DEF Append32
<1> HIDE DEF longer
<1> QED  BY <1>1, <1>2, <1>3, DrainType

\* The lengths that there are.
LEMMA LengthFacts ==
    ASSUME NEW len \in 5 .. 30
    PROVE  /\ len \in Nat /\ Ones(len) \subseteq Ones(32)
           /\ len > 24 => len - 25 \in Nat /\ len - 24 \in Nat
           /\ 24 \in Nat /\ 32 \in Nat
           /\ \A size \in 30 .. 37 : size - len \in 0 .. 37 /\ len \in 0 .. size /\ size \in 0 .. 64
BY DEF Ones

\* Types after one symbol of huff(), and what the text is then.
LEMMA HuffSymbolType ==
    ASSUME text \in Seq(Symbol), octets \in Seq(SUBSET Ones(8)), bits \subseteq Ones(32), n \in 0 .. 7,
           NEW c \in Symbol, HuffSymbol(c)
    PROVE  /\ text' = Append(text, c) /\ text' \in Seq(Symbol)
           /\ octets' \in Seq(SUBSET Ones(8)) /\ bits' \subseteq Ones(32) /\ n' \in 0 .. 7
           /\ CodeLength[c] <= 24 =>
                 LET d == Append32(octets, bits, n, Code[c], CodeLength[c])
                 IN  octets' = d.out /\ bits' = d.bits /\ n' = d.n
<1> DEFINE len == CodeLength[c]
           head == ShiftRight(Code[c], len - 25)
           first == Append32(octets, bits, n, head, len - 24)
           second == Append32(first.out, first.bits, first.n, Code[c], 24)
           whole == Append32(octets, bits, n, Code[c], len)
<1>1. len \in 5 .. 30 /\ Code[c] \in SUBSET Ones(32)
  <2>1. len \in 5 .. 30 /\ Code[c] \subseteq Ones(len)
      BY CodeFacts
  <2>2. Ones(len) \subseteq Ones(32)
      BY <2>1, LengthFacts
  <2> QED  BY <2>1, <2>2
<1>2. text' = Append(text, c) /\ text' \in Seq(Symbol)
    BY DEF HuffSymbol
<1>3. Holding(IF len > 24 THEN second ELSE whole)
    BY Zenon DEF HuffSymbol
<1> HIDE DEF whole, first, second, head
<1>4. CASE len > 24
  <2>1. len - 25 \in Nat /\ len - 24 \in Nat /\ 24 \in Nat /\ 32 \in Nat
      BY <1>1, <1>4, LengthFacts
  <2>2. head \in SUBSET Ones(32)
      BY <1>1, <2>1, ShiftType DEF head
  <2>3. first.out \in Seq(SUBSET Ones(8)) /\ first.bits \in SUBSET Ones(32) /\ first.n \in 0 .. 7
      BY <2>1, <2>2, AppendType DEF first
  <2>4. second.out \in Seq(SUBSET Ones(8)) /\ second.bits \in SUBSET Ones(32) /\ second.n \in 0 .. 7
      BY <1>1, <2>1, <2>3, AppendType DEF second
  <2>5. octets' = second.out /\ bits' = second.bits /\ n' = second.n
      BY <1>3, <1>4 DEF Holding
  <2>6. ~ (CodeLength[c] <= 24)
    <3>1. ~ (len <= 24)
      <4> HIDE DEF len
      <4> QED  BY <1>1, <1>4
    <3> QED  BY <3>1
  <2> QED  BY <1>2, <2>4, <2>5, <2>6
<1>5. CASE ~ (len > 24)
  <2>1. len \in Nat
      BY <1>1, LengthFacts, Zenon
  <2>2. whole.out \in Seq(SUBSET Ones(8)) /\ whole.bits \in SUBSET Ones(32) /\ whole.n \in 0 .. 7
      BY <1>1, <2>1, AppendType DEF whole
  <2>3. octets' = whole.out /\ bits' = whole.bits /\ n' = whole.n
      BY <1>3, <1>5 DEF Holding
  <2> QED  BY <1>2, <2>2, <2>3 DEF whole
<1> QED  BY <1>4, <1>5

\* The padded string is one of octets.
LEMMA HuffPaddedType ==
    ASSUME octets \in Seq(SUBSET Ones(8)), bits \subseteq Ones(32), n \in 0 .. 7
    PROVE  HuffPadded \in Seq(SUBSET Ones(8))
<1>1. 7 \in Nat /\ Ones(7) \in SUBSET Ones(32)
    BY DEF Ones
<1>2. Append32(octets, bits, n, Ones(7), 7).out \in Seq(SUBSET Ones(8))
    BY <1>1, AppendType, Zenon
<1> QED  BY <1>2 DEF HuffPadded

\* The octets that are read into the window, and those left.
LEMMA RefillType ==
    ASSUME input \in Seq(SUBSET Ones(8)), window \subseteq Ones(64), windowBits \in 0 .. 37
    PROVE  /\ Refill.bits \in 30 .. 37
           /\ Refill.window \in SUBSET Ones(64)
           /\ Refill.input \in Seq(SUBSET Ones(8))
           /\ \E count \in 0 .. 4 :
                 /\ Refill.bits = windowBits + 8 * count
                 /\ Refill.input = SubSeq(input, count + 1, Len(input))
                 /\ \A i \in 0 .. 63 :
                       i \in Refill.window <=>
                          \/ i \in window
                          \/ \E j \in 1 .. count, k \in 0 .. 7 :
                                /\ i = k + (64 - (windowBits + 8 * j))
                                /\ j <= Len(input) => k \in input[j]
<1> DEFINE count == IF windowBits < 30 THEN (37 - windowBits) \div 8 ELSE 0
           octet(j) == IF j <= Len(input) THEN input[j] ELSE Ones(8)
           part(j) == ShiftLeft(octet(j), 64 - (windowBits + 8 * j), 64)
           all == window \cup UNION {part(j) : j \in 1 .. count}
           left == SubSeq(input, count + 1, Len(input))
<1>1. /\ Refill.bits = windowBits + 8 * count
      /\ Refill.window = all
      /\ Refill.input = left
    BY DEF Refill
<1>2. count \in 0 .. 4 /\ windowBits + 8 * count \in 30 .. 37
    OBVIOUS
<1>3. all \in SUBSET Ones(64)
  <2>1. \A j : part(j) \subseteq Ones(64)
      BY DEF ShiftLeft
  <2> HIDE DEF part, count
  <2> QED  BY <2>1
<1> HIDE DEF count
<1>4. left \in Seq(SUBSET Ones(8))
  <2>1. count + 1 \in Int /\ Len(input) \in Int
      BY <1>2
  <2>2. \A i \in count + 1 .. Len(input) : input[i] \in SUBSET Ones(8)
    <3>1. \A i \in count + 1 .. Len(input) : i \in 1 .. Len(input)
        BY <1>2
    <3> QED  BY <3>1, ElementOfSeq
  <2> QED  BY <2>1, <2>2, SubSeqProperties
<1>5. ASSUME NEW i \in 0 .. 63
      PROVE  i \in all <=> \/ i \in window
                           \/ \E j \in 1 .. count, k \in 0 .. 7 :
                                 /\ i = k + (64 - (windowBits + 8 * j))
                                 /\ j <= Len(input) => k \in input[j]
  <2>1. i \in all <=> i \in window \/ \E j \in 1 .. count : i \in part(j)
    <3> HIDE DEF part
    <3> QED  OBVIOUS
  <2>2. ASSUME NEW j \in 1 .. count
        PROVE  i \in part(j) <=> \E k \in 0 .. 7 : /\ i = k + (64 - (windowBits + 8 * j))
                                                   /\ j <= Len(input) => k \in input[j]
    <3>1. i \in part(j) <=> \E k \in octet(j) : i = k + (64 - (windowBits + 8 * j))
        BY DEF ShiftLeft, Ones
    <3>2. CASE j <= Len(input)
      <4>1. j \in 1 .. Len(input)
          BY <1>2, <3>2
      <4>2. octet(j) = input[j] /\ input[j] \in SUBSET Ones(8)
          BY <3>2, <4>1, ElementOfSeq
      <4>3. input[j] \subseteq 0 .. 7
          BY <4>2 DEF Ones
      <4> HIDE DEF octet
      <4> QED  BY <3>1, <3>2, <4>2, <4>3
    <3>3. CASE ~ (j <= Len(input))
      <4>1. octet(j) = 0 .. 7
          BY <3>3 DEF Ones
      <4> HIDE DEF octet
      <4> QED  BY <3>1, <3>3, <4>1
    <3> QED  BY <3>2, <3>3
  <2> HIDE DEF all, part
  <2> QED  BY <2>1, <2>2
<1> HIDE DEF all, left
<1> QED  BY <1>1, <1>2, <1>3, <1>4, <1>5, ZenonT(30) DEF left

\* What was written is a string, in one form or the other.
WireTyped ==
    \/ wire = << >>
    \/ \E os \in Seq(SUBSET Ones(8)) : wire = << Coded(os) >>
    \/ \E string \in Seq(Symbol) : wire = << Plain(string) >>

StringTypeInv == StringTypeOK /\ WireTyped

\* Types at the beginning.
LEMMA StringTypeInit == StringInit => StringTypeInv
BY DEF StringInit, HuffInit, DecodeInit, StringTypeInv, StringTypeOK, WireTyped, Ones

\* Types after a symbol is put.
LEMMA TypePutSymbol ==
    ASSUME StringTypeInv, NEW c \in HpackSymbol, PutSymbol(c)
    PROVE  StringTypeInv'
<1>1. c \in Symbol
    BY StringAssumption
<1>2. UNCHANGED << decodeVars, wire >> /\ HuffSymbol(c)
    BY DEF PutSymbol
<1>3. /\ text' \in Seq(Symbol)
      /\ octets' \in Seq(SUBSET Ones(8)) /\ bits' \subseteq Ones(32) /\ n' \in 0 .. 7
    BY <1>1, <1>2, HuffSymbolType DEF StringTypeInv, StringTypeOK
<1> QED  BY <1>2, <1>3 DEF StringTypeInv, StringTypeOK, WireTyped, decodeVars

\* Types after hpack has chosen a form and written the string.
LEMMA TypePutString == ASSUME StringTypeInv, PutString  PROVE StringTypeInv'
<1>1. UNCHANGED << text, octets, bits, n, input, window, windowBits, res, decoder >>
    BY DEF PutString, huffVars, decodeVars
<1>2. HuffPadded \in Seq(SUBSET Ones(8)) /\ text \in Seq(Symbol)
    BY HuffPaddedType DEF StringTypeInv, StringTypeOK
<1>3. wire' = << Coded(HuffPadded) >> \/ wire' = << Plain(text) >>
    BY DEF PutString
<1>4. WireTyped'
    BY <1>2, <1>3 DEF WireTyped
<1> QED  BY <1>1, <1>4 DEF StringTypeInv, StringTypeOK

\* Types after the other encoder has written one.
LEMMA TypeOtherString ==
    ASSUME StringTypeInv, NEW k \in 0 .. MaxLength, NEW string \in [1 .. k -> OtherSymbol],
           OtherString(string)
    PROVE  /\ StringTypeInv'
           /\ string \in Seq(OtherSymbol) /\ string \in Seq(Symbol)
<1>1. string \in Seq(OtherSymbol) /\ string \in Seq(Symbol)
  <2>1. k \in Nat /\ string \in [1 .. k -> Symbol]
      BY StringAssumption
  <2> QED  BY <2>1
<1>2. StdOctets(string) \in Seq(SUBSET Ones(8))
    BY <1>1, StdOctetsIs
<1>3. WireTyped'
    BY <1>2 DEF OtherString, WireTyped
<1>4. UNCHANGED << octets, bits, n, input, window, windowBits, res, decoder >> /\ text' = string
    BY DEF OtherString, decodeVars
<1>5. StringTypeOK'
    BY <1>1, <1>4 DEF StringTypeInv, StringTypeOK
<1> QED  BY <1>1, <1>3, <1>5 DEF StringTypeInv

\* Types after get_string() has found a Huffman string.
LEMMA TypeGetCoded == ASSUME StringTypeInv, GetCoded  PROVE StringTypeInv'
<1>1. PICK os \in Seq(SUBSET Ones(8)) : wire = << Coded(os) >>
  <2>1. wire # << >> /\ Head(wire).huffman
      BY DEF GetCoded, Written
  <2>2. ASSUME NEW string, wire = << Plain(string) >>  PROVE FALSE
    <3>1. Head(wire).huffman = FALSE
        BY <2>2 DEF Plain
    <3> QED  BY <2>1, <3>1
  <2> QED  BY <2>1, <2>2 DEF StringTypeInv, WireTyped
<1>2. Head(wire).octets = os
    BY <1>1 DEF Coded
<1>3. input' = os /\ decoder' = "running" /\ UNCHANGED << window, windowBits, res >>
    BY <1>2 DEF GetCoded, DecodeStart
<1>4. UNCHANGED << text, octets, bits, n, wire >>
    BY DEF GetCoded, huffVars
<1> QED  BY <1>3, <1>4 DEF StringTypeInv, StringTypeOK, WireTyped

\* Types after get_string() has found a plain one.
LEMMA TypeGetPlain == ASSUME StringTypeInv, GetPlain  PROVE StringTypeInv'
<1>1. PICK string \in Seq(Symbol) : wire = << Plain(string) >>
  <2>1. wire # << >> /\ ~ Head(wire).huffman
      BY DEF GetPlain, Written
  <2>2. ASSUME NEW os, wire = << Coded(os) >>  PROVE FALSE
    <3>1. Head(wire).huffman = TRUE
        BY <2>2 DEF Coded
    <3> QED  BY <2>1, <3>1
  <2> QED  BY <2>1, <2>2 DEF StringTypeInv, WireTyped
<1>2. Head(wire).plain = string
    BY <1>1 DEF Plain
<1>3. res' = string /\ decoder' = "done" /\ UNCHANGED << input, window, windowBits >>
    BY <1>2 DEF GetPlain
<1>4. UNCHANGED << text, octets, bits, n, wire >>
    BY DEF GetPlain, huffVars
<1> QED  BY <1>3, <1>4 DEF StringTypeInv, StringTypeOK, WireTyped

\* Types after a turn of decode_huffman().
LEMMA TypeDecode == ASSUME StringTypeInv, Decode  PROVE StringTypeInv'
<1>1. UNCHANGED << text, octets, bits, n, wire >>
    BY DEF Decode, huffVars
<1>2. /\ input \in Seq(SUBSET Ones(8)) /\ window \subseteq Ones(64) /\ windowBits \in 0 .. 37
      /\ res \in Seq(Symbol) /\ decoder \in {"idle", "running", "done", "aborted"}
    BY DEF StringTypeInv, StringTypeOK
<1>3. /\ input' \in Seq(SUBSET Ones(8)) /\ window' \subseteq Ones(64) /\ windowBits' \in 0 .. 37
      /\ res' \in Seq(Symbol) /\ decoder' \in {"idle", "running", "done", "aborted"}
  <2>1. CASE DecodeEnd
      BY <1>2, <2>1 DEF DecodeEnd
  <2>2. CASE DecodeAbort
      BY <1>2, <2>2 DEF DecodeAbort
  <2>3. ASSUME NEW c \in Symbol, DecodeTake(Refill, c)
        PROVE  /\ input' \in Seq(SUBSET Ones(8)) /\ window' \subseteq Ones(64) /\ windowBits' \in 0 .. 37
               /\ res' \in Seq(Symbol) /\ decoder' \in {"idle", "running", "done", "aborted"}
    <3>1. Refill.bits \in 30 .. 37 /\ Refill.window \in SUBSET Ones(64) /\ Refill.input \in Seq(SUBSET Ones(8))
        BY <1>2, RefillType, Zenon
    <3>2. CodeLength[c] \in 5 .. 30
        BY CodeFacts
    <3>3. window' \subseteq Ones(64)
        BY <2>3 DEF DecodeTake, ShiftLeft
    <3>4. windowBits' \in 0 .. 37
      <4>1. windowBits' = Refill.bits - CodeLength[c]
          BY <2>3 DEF DecodeTake
      <4> QED  BY <3>1, <3>2, <4>1, LengthFacts
    <3>5. input' \in Seq(SUBSET Ones(8)) /\ decoder' = decoder /\ res' \in Seq(Symbol)
        BY <1>2, <2>3, <3>1 DEF DecodeTake
    <3>6. decoder' \in {"idle", "running", "done", "aborted"}
        BY <1>2, <3>5, Zenon
    <3>7. window' \subseteq Ones(64) /\ windowBits' \in 0 .. 37
        BY <3>3, <3>4
    <3>8. input' \in Seq(SUBSET Ones(8)) /\ res' \in Seq(Symbol)
        BY <3>5, Zenon
    <3> QED  BY <3>6, <3>7, <3>8, Zenon
  <2>4. CASE DecodeSymbol
    <3>1. DecodeAbort \/ \E c \in Symbol : DecodeTake(Refill, c)
      <4>1. FindCode(ShiftRight(Refill.window, 32)).entries \subseteq Symbol
          BY DEF FindCode
      <4> QED  BY <2>4, <4>1, Zenon DEF DecodeSymbol
    <3> QED  BY <2>2, <2>3, <3>1
  <2> QED  BY <2>1, <2>4 DEF Decode, DecodeNext
<1> QED  BY <1>1, <1>3 DEF StringTypeInv, StringTypeOK, WireTyped

\* Every step keeps the types.
LEMMA StringTypeStep == StringTypeInv /\ [StringNext]_stringVars => StringTypeInv'
<1> SUFFICES ASSUME StringTypeInv, [StringNext]_stringVars  PROVE StringTypeInv'
    OBVIOUS
<1>1. CASE UNCHANGED stringVars
    BY <1>1 DEF StringTypeInv, StringTypeOK, WireTyped, stringVars, huffVars, decodeVars
<1>2. CASE StringNext
  <2>1. CASE Stopped
      BY <1>1, <2>1 DEF Stopped
  <2> QED  BY <1>2, <2>1, TypePutSymbol, TypePutString, TypeOtherString, TypeGetCoded, TypeGetPlain,
              TypeDecode DEF StringNext
<1> QED  BY <1>1, <1>2

\* Type correctness of huff() and decode_huffman(): the words keep their width,
\* and no more bits are pending or taken than there are.
THEOREM StringTyped == StringSpec => []StringTypeOK
<1>1. StringInit => StringTypeInv
    BY StringTypeInit
<1>2. StringTypeInv /\ [StringNext]_stringVars => StringTypeInv'
    BY StringTypeStep
<1>3. StringTypeInv => StringTypeOK
    BY DEF StringTypeInv
<1> QED  BY <1>1, <1>2, <1>3, PTL DEF StringSpec


-----------------------------------------------------------------------------
(* What huff() has written, and what put_string() writes.                  *)

EncoderInv ==
    ~ Written => /\ text \in Seq(HpackSymbol)
                 /\ n \in 0 .. 7
                 /\ SpellsCodes(StdBits(text), octets, bits, n)

WireInv ==
    Written => /\ text \in Seq(HpackSymbol \cup OtherSymbol)
               /\ wire = << Coded(StdOctets(text)) >> \/ wire = << Plain(text) >>

\* Nothing is spelled at the beginning, by nothing.
LEMMA EncoderInit == ASSUME StringInit  PROVE EncoderInv
<1>1. text = << >> /\ octets = << >> /\ bits = {} /\ n = 0
    BY DEF StringInit, HuffInit
<1>2. text \in Seq(Symbol) /\ text \in Seq(HpackSymbol)
    BY <1>1
<1>3. StdBits(text) = << >>
    BY <1>1, <1>2, StdBitsType
<1>4. SpellsCodes(<< >>, << >>, {}, 0)
  <2>1. Len(<< >>) = 0 /\ << >> \in Seq(BOOLEAN) /\ << >> \in Seq(SUBSET Ones(8))
      OBVIOUS
  <2> QED  BY <2>1 DEF SpellsCodes
<1> QED  BY <1>1, <1>2, <1>3, <1>4 DEF EncoderInv

\* A symbol with a short code is added to what is spelled.
LEMMA EncoderPutSymbol ==
    ASSUME ShortCodes, StringTypeInv, EncoderInv, NEW c \in HpackSymbol, PutSymbol(c)
    PROVE  EncoderInv'
<1> DEFINE bs == StdBits(text)
           len == CodeLength[c]
           longer == ShiftLeft(bits, len, 32) \cup Code[c]
           d == Drain(octets, longer, n + len)
<1>1. c \in Symbol /\ len <= 24
    BY StringAssumption DEF ShortCodes
<1>2. ~ Written /\ HuffSymbol(c)
    BY DEF PutSymbol
<1>3. text \in Seq(HpackSymbol) /\ n \in 0 .. 7 /\ SpellsCodes(bs, octets, bits, n)
    BY <1>2 DEF EncoderInv
<1>4. text \in Seq(Symbol) /\ octets \in Seq(SUBSET Ones(8)) /\ bits \subseteq Ones(32)
    BY DEF StringTypeInv, StringTypeOK
<1>5. text' = Append(text, c) /\ octets' = d.out /\ bits' = d.bits /\ n' = d.n
    BY <1>1, <1>2, <1>3, <1>4, HuffSymbolType DEF Append32
<1>6. StdBits(text') = bs \o BitString(Code[c], len)
    BY <1>1, <1>4, <1>5, StdBitsAppend DEF CodeString
<1>7. len \in Nat /\ Code[c] \in SUBSET Ones(len)
    BY <1>1, CodeFacts
<1> HIDE DEF bs, len
<1>8. SpellsCodes(bs \o BitString(Code[c], len), octets, longer, n + len)
  <2>1. n + len <= 32
      BY <1>1, <1>3, <1>7
  <2> QED  BY <1>3, <1>7, <2>1, AppendSpells
<1> HIDE DEF longer
<1>9. SpellsCodes(bs \o BitString(Code[c], len), d.out, d.bits, d.n) /\ d.n \in 0 .. 7
    BY <1>8, DrainSpells
<1> HIDE DEF d
<1>10. text' \in Seq(HpackSymbol)
    BY <1>3, <1>5
<1> QED  BY <1>5, <1>6, <1>9, <1>10 DEF EncoderInv

\* With its padding, what is spelled is what the standard writes.
LEMMA PaddedIs ==
    ASSUME StringTypeInv, EncoderInv, ~ Written
    PROVE  HuffPadded = StdOctets(text)
<1>1. text \in Seq(Symbol) /\ n \in 0 .. 7 /\ SpellsCodes(StdBits(text), octets, bits, n)
    BY DEF StringTypeInv, StringTypeOK, EncoderInv
<1> QED  BY <1>1, PaddedIsStandard DEF HuffPadded

\* Every step keeps what is known of the encoder and of the wire.
LEMMA EncoderStep ==
    ASSUME ShortCodes, StringTypeInv, EncoderInv, WireInv, [StringNext]_stringVars
    PROVE  EncoderInv' /\ WireInv'
<1>1. ASSUME UNCHANGED << huffVars, wire >>  PROVE EncoderInv' /\ WireInv'
    BY <1>1 DEF EncoderInv, WireInv, Written, huffVars
<1>2. ASSUME NEW c \in HpackSymbol, PutSymbol(c)  PROVE EncoderInv' /\ WireInv'
  <2>1. wire' = << >>
      BY <1>2 DEF PutSymbol, Written
  <2> QED  BY <1>2, <2>1, EncoderPutSymbol DEF WireInv, Written
<1>3. CASE PutString
  <2>1. ~ Written /\ text' = text /\ wire' # << >>
      BY <1>3 DEF PutString, huffVars
  <2>2. HuffPadded = StdOctets(text)
      BY <2>1, PaddedIs
  <2>3. wire' = << Coded(StdOctets(text)) >> \/ wire' = << Plain(text) >>
      BY <1>3, <2>2 DEF PutString
  <2>4. text \in Seq(HpackSymbol \cup OtherSymbol)
      BY <2>1 DEF EncoderInv
  <2> QED  BY <2>1, <2>3, <2>4 DEF EncoderInv, WireInv, Written
<1>4. ASSUME NEW k \in 0 .. MaxLength, NEW string \in [1 .. k -> OtherSymbol], OtherString(string)
      PROVE  EncoderInv' /\ WireInv'
  <2>1. string \in Seq(OtherSymbol)
      BY <1>4, TypeOtherString
  <2>2. text' = string /\ wire' = << Coded(StdOctets(string)) >>
      BY <1>4 DEF OtherString
  <2>3. string \in Seq(HpackSymbol \cup OtherSymbol) /\ wire' # << >>
      BY <2>1, <2>2
  <2>4. wire' = << Coded(StdOctets(text')) >>
      BY <2>2
  <2> QED  BY <2>2, <2>3, <2>4 DEF EncoderInv, WireInv, Written
<1>5. CASE GetCoded \/ GetPlain \/ Decode \/ Stopped
    BY <1>1, <1>5 DEF GetCoded, GetPlain, Decode, Stopped, stringVars
<1>6. CASE UNCHANGED stringVars
    BY <1>1, <1>6 DEF stringVars
<1> QED  BY <1>2, <1>3, <1>4, <1>5, <1>6 DEF StringNext

-----------------------------------------------------------------------------
(* What decode_huffman() makes of it.                                      *)

\* The octet at a place behind the first r, those past the end included.
LEMMA NextOctet ==
    ASSUME NEW string \in Seq(Symbol), NEW r \in Nat, NEW rest,
           rest = SubSeq(StdOctets(string), r + 1, Len(StdOctets(string))),
           NEW j \in Nat \ {0}, NEW k \in 0 .. 7
    PROVE  (j <= Len(rest) => k \in rest[j]) <=> BitAt(string, 8 * (r + j) - k)
<1> DEFINE os == StdOctets(string)
           bs == StdBits(string)
<1>1. /\ os \in Seq(SUBSET Ones(8)) /\ Len(os) = (Len(bs) + 7) \div 8
      /\ \A q \in 1 .. Len(os), i \in 0 .. 7 :
            i \in os[q] <=> 8 * q - i > Len(bs) \/ 8 * q - i \in OneAt(bs)
    BY StdOctetsIs
<1>2. Len(bs) \in Nat /\ Len(os) \in Nat
    BY <1>1, StdBitsType
<1>3. /\ Len(rest) = IF r <= Len(os) THEN Len(os) - r ELSE 0
      /\ \A q \in 1 .. Len(rest) : rest[q] = os[r + q]
    BY <1>1, EndIs, ZenonT(30)
<1>4. BitAt(string, 8 * (r + j) - k) <=> 8 * (r + j) - k > Len(bs) \/ 8 * (r + j) - k \in OneAt(bs)
    BY Zenon DEF BitAt
<1> HIDE DEF os, bs
<1>5. CASE j <= Len(rest)
  <2>1. j \in 1 .. Len(rest) /\ r + j \in 1 .. Len(os)
      BY <1>2, <1>3, <1>5
  <2> QED  BY <1>1, <1>3, <1>4, <1>5, <2>1
<1>6. CASE ~ (j <= Len(rest))
  <2>1. r + j >= Len(os) + 1
      BY <1>2, <1>3, <1>6
  <2>2. 8 * Len(os) >= Len(bs)
      BY <1>1, <1>2
  <2>3. 8 * (r + j) - k > Len(bs)
      BY <1>2, <2>1, <2>2
  <2> QED  BY <1>4, <1>6, <2>3
<1> QED  BY <1>5, <1>6

\* Bit k of the j-th octet that is read goes to bit i of a window of size bits.
Goes(size, i, j, k) == i = k + (64 - (size + 8 * j))

\* A place of the window after a refill is an old one, one of a new octet, or
\* free.
LEMMA NewPlace ==
    ASSUME NEW size \in 0 .. 37, NEW count \in 0 .. 4, NEW i \in 0 .. 63
    PROVE  LET old == i >= 64 - size
               new == i >= 64 - (size + 8 * count)
           IN  /\ old => new /\ \A j \in 1 .. count, k \in 0 .. 7 : ~ Goes(size, i, j, k)
               /\ ~ new => \A j \in 1 .. count, k \in 0 .. 7 : ~ Goes(size, i, j, k)
               /\ ~ old /\ new =>
                     \E j \in 1 .. count, k \in 0 .. 7 :
                        /\ Goes(size, i, j, k)
                        /\ \A q \in 1 .. count, p \in 0 .. 7 : Goes(size, i, q, p) => q = j /\ p = k
<1> DEFINE old == i >= 64 - size
           new == i >= 64 - (size + 8 * count)
<1>1. old => new /\ \A j \in 1 .. count, k \in 0 .. 7 : ~ Goes(size, i, j, k)
    BY DEF Goes
<1>2. ~ new => \A j \in 1 .. count, k \in 0 .. 7 : ~ Goes(size, i, j, k)
    BY DEF Goes
<1>3. ASSUME ~ old, new
      PROVE  \E j \in 1 .. count, k \in 0 .. 7 :
                /\ Goes(size, i, j, k)
                /\ \A q \in 1 .. count, p \in 0 .. 7 : Goes(size, i, q, p) => q = j /\ p = k
  <2>1. PICK t \in 1 .. 8 * count : t = (64 - size) - i
      BY <1>3
  <2>2. PICK j \in 1 .. count, k \in 0 .. 7 : t = 8 * j - k
    <3>1. (t + 7) \div 8 \in 1 .. count /\ 8 * ((t + 7) \div 8) - t \in 0 .. 7
          /\ t = 8 * ((t + 7) \div 8) - (8 * ((t + 7) \div 8) - t)
        OBVIOUS
    <3> QED  BY <3>1
  <2>3. Goes(size, i, j, k)
      BY <2>1, <2>2 DEF Goes
  <2>4. \A q \in 1 .. count, p \in 0 .. 7 : Goes(size, i, q, p) => q = j /\ p = k
      BY <2>1, <2>2 DEF Goes
  <2> QED  BY <2>3, <2>4
<1> QED  BY <1>1, <1>2, <1>3

\* Counting octets begins at one.
LEMMA FromOne ==
    ASSUME NEW count \in 0 .. 4
    PROVE  \A j \in 1 .. count : j \in Nat \ {0}
OBVIOUS

\* The place of a bit of a code.
LEMMA CodePlace ==
    ASSUME NEW len \in 5 .. 30
    PROVE  /\ \A p \in 0 .. 31 : p >= 32 - len =>
                 p \in 2 .. 31 /\ 32 - p \in 1 .. len /\ len - (32 - p) = p - (32 - len)
           /\ \A i \in 0 .. len - 1 :
                 /\ i + (32 - len) \in 2 .. 31 /\ i + (32 - len) \in 0 .. 31
                 /\ i + (32 - len) >= 32 - len /\ (i + (32 - len)) - (32 - len) = i
OBVIOUS

\* The octets that are read are the next ones.
LEMMA RefillAhead ==
    ASSUME input \in Seq(SUBSET Ones(8)), window \subseteq Ones(64), windowBits \in 0 .. 37,
           NEW string \in Seq(Symbol), NEW pos \in Nat,
           Ahead(string, pos, window, windowBits, input)
    PROVE  Ahead(string, pos, Refill.window, Refill.bits, Refill.input)
<1> DEFINE os == StdOctets(string)
           x == Refill.window
           y == Refill.bits
           z == Refill.input
<1>1. PICK r \in Nat :
        /\ pos + windowBits = 8 * r
        /\ input = SubSeq(os, r + 1, Len(os))
        /\ \A i \in 0 .. 63 : i \in window <=> i >= 64 - windowBits /\ BitAt(string, pos + (64 - i))
    BY Zenon DEF Ahead
<1>2. PICK count \in 0 .. 4 :
        /\ y = windowBits + 8 * count
        /\ z = SubSeq(input, count + 1, Len(input))
        /\ \A i \in 0 .. 63 :
              i \in x <=> \/ i \in window
                          \/ \E j \in 1 .. count, k \in 0 .. 7 :
                                /\ i = k + (64 - (windowBits + 8 * j))
                                /\ j <= Len(input) => k \in input[j]
    BY RefillType, Zenon
<1>3. os \in Seq(SUBSET Ones(8))
    BY StdOctetsIs
<1>4. \A j \in 1 .. count, k \in 0 .. 7 :
        (j <= Len(input) => k \in input[j]) <=> BitAt(string, 8 * (r + j) - k)
  <2>1. \A j \in 1 .. count : j \in Nat \ {0}
      BY FromOne
  <2> QED  BY <1>1, <2>1, NextOctet
<1> HIDE DEF os, x, y, z
<1>5. r \in Nat /\ pos + windowBits = 8 * r /\ y = windowBits + 8 * count
    BY <1>1, <1>2
<1>6. r + count \in Nat /\ pos + y = 8 * (r + count)
  <2>1. r + count \in Nat /\ pos + (windowBits + 8 * count) = 8 * (r + count)
      BY <1>5
  <2> QED  BY <1>5, <2>1, Zenon
<1>7. z = SubSeq(os, (r + count) + 1, Len(os))
  <2>1. count \in Nat
      OBVIOUS
  <2> QED  BY <1>1, <1>2, <1>3, <2>1, EndOfEnd, Zenon
<1>8. ASSUME NEW i \in 0 .. 63
      PROVE  i \in x <=> i >= 64 - y /\ BitAt(string, pos + (64 - i))
  <2> DEFINE In(j, k) == j <= Len(input) => k \in input[j]
  <2>1. i \in x <=>
           i \in window \/ \E j \in 1 .. count, k \in 0 .. 7 : Goes(windowBits, i, j, k) /\ In(j, k)
      BY <1>2 DEF Goes
  <2>2. i \in window <=> i >= 64 - windowBits /\ BitAt(string, pos + (64 - i))
      BY <1>1
  <2>3. \A j \in 1 .. count, k \in 0 .. 7 : In(j, k) <=> BitAt(string, 8 * (r + j) - k)
      BY <1>4
  <2>4. LET new == i >= 64 - (windowBits + 8 * count)
        IN  /\ i >= 64 - windowBits => new /\ \A j \in 1 .. count, k \in 0 .. 7 : ~ Goes(windowBits, i, j, k)
            /\ ~ new => \A j \in 1 .. count, k \in 0 .. 7 : ~ Goes(windowBits, i, j, k)
            /\ ~ (i >= 64 - windowBits) /\ new =>
                  \E j \in 1 .. count, k \in 0 .. 7 :
                     /\ Goes(windowBits, i, j, k)
                     /\ \A q \in 1 .. count, p \in 0 .. 7 : Goes(windowBits, i, q, p) => q = j /\ p = k
      BY NewPlace, Zenon
  <2>5. ASSUME NEW j \in 1 .. count, NEW k \in 0 .. 7, Goes(windowBits, i, j, k)
        PROVE  pos + (64 - i) = 8 * (r + j) - k
    <3>1. r \in Nat /\ pos + windowBits = 8 * r
        BY <1>5
    <3>2. j \in Nat
        OBVIOUS
    <3>3. i = k + (64 - (windowBits + 8 * j))
        BY <2>5 DEF Goes
    <3> QED  BY <3>1, <3>2, <3>3
  <2>6. i >= 64 - y <=> i >= 64 - (windowBits + 8 * count)
      BY <1>5
  <2> HIDE DEF In
  <2> QED  BY <2>1, <2>2, <2>3, <2>4, <2>5, <2>6, ZenonT(30)
<1> QED  BY <1>6, <1>7, <1>8 DEF Ahead, os, x, y, z

\* Before the end the window begins with the code of the next symbol.
LEMMA AtSymbol ==
    ASSUME NEW string \in Seq(Symbol), NEW m \in 0 .. Len(string) - 1,
           NEW code \in SUBSET (0 .. 31),
           \A p \in 2 .. 31 :
              p \in code <=> BitAt(string, Len(StdBits(SubSeq(string, 1, m))) + (32 - p))
    PROVE  LET c == string[m + 1]
           IN  /\ \A p \in 0 .. 31 : p >= 32 - CodeLength[c] => (p \in code <=> p \in MsbCode[c])
               /\ ~ IsEos(code)
<1> DEFINE pos == Len(StdBits(SubSeq(string, 1, m)))
           c == string[m + 1]
           bs == StdBits(string)
           len == CodeLength[c]
<1>1. /\ pos + len <= Len(bs)
      /\ \A k \in 1 .. len : pos + k \in OneAt(bs) <=> len - k \in Code[c]
    BY NextCode
<1>2. c \in Symbol
    BY LongerBits
<1>3. /\ len \in 5 .. 30 /\ Code[c] \subseteq 0 .. len - 1 /\ Code[c] # 0 .. len - 1
    BY <1>2, CodeFacts DEF Ones
<1>4. \A p \in 0 .. 31 : p \in MsbCode[c] <=> p >= 32 - len /\ p - (32 - len) \in Code[c]
    BY <1>2, MsbCodeIs
<1>5. pos \in Nat /\ Len(bs) \in Nat
  <2>1. SubSeq(string, 1, m) \in Seq(Symbol)
      BY LongerBits
  <2> QED  BY <2>1, StdBitsType
<1>6. \A k : BitAt(string, k) <=> k > Len(bs) \/ k \in OneAt(bs)
    BY Zenon DEF BitAt
<1>7. \A p \in 2 .. 31 : p \in code <=> BitAt(string, pos + (32 - p))
    OBVIOUS
<1> HIDE DEF pos, c, bs, len
<1>8. ASSUME NEW p \in 0 .. 31, p >= 32 - len  PROVE p \in code <=> p \in MsbCode[c]
  <2>1. p \in 2 .. 31 /\ 32 - p \in 1 .. len /\ len - (32 - p) = p - (32 - len)
      BY <1>3, <1>8, CodePlace
  <2>2. ~ (pos + (32 - p) > Len(bs))
    <3>1. pos + len <= Len(bs) /\ len \in Int
        BY <1>1, <1>3
    <3> QED  BY <1>5, <2>1, <3>1
  <2>3. p \in code <=> pos + (32 - p) \in OneAt(bs)
      BY <1>6, <1>7, <2>1, <2>2
  <2>4. pos + (32 - p) \in OneAt(bs) <=> p - (32 - len) \in Code[c]
      BY <1>1, <2>1
  <2> QED  BY <1>4, <1>8, <2>3, <2>4
<1>9. ~ IsEos(code)
  <2>1. PICK i \in 0 .. len - 1 : i \notin Code[c]
      BY <1>3
  <2>2. i + (32 - len) \in 2 .. 31 /\ i + (32 - len) >= 32 - len /\ (i + (32 - len)) - (32 - len) = i
        /\ i + (32 - len) \in 0 .. 31
      BY <1>3, CodePlace
  <2>3. i + (32 - len) \notin code
      BY <1>4, <1>8, <2>1, <2>2
  <2> QED  BY <2>2, <2>3 DEF IsEos
<1> QED  BY <1>8, <1>9 DEF c, len

\* The string up to some symbol has been decoded, and what follows is ahead.
Stands ==
    \E m \in 0 .. Len(text) :
        /\ res = SubSeq(text, 1, m)
        /\ Ahead(text, Len(StdBits(SubSeq(text, 1, m))), window, windowBits, input)

DecoderInv ==
    /\ ~ Written => decoder = "idle"
    /\ decoder # "aborted"
    /\ decoder = "idle" => res = << >> /\ window = {} /\ windowBits = 0
    /\ decoder = "running" => Stands
    /\ decoder = "done" => res = text

StringInv == StringTypeInv /\ EncoderInv /\ WireInv /\ DecoderInv

\* What is on the wire is the text, in one of the two forms.
LEMMA WrittenText ==
    ASSUME WireInv, Written
    PROVE  /\ text \in Seq(HpackSymbol \cup OtherSymbol) /\ text \in Seq(Symbol)
           /\ wire = << Coded(StdOctets(text)) >> \/ wire = << Plain(text) >>
<1>1. HpackSymbol \cup OtherSymbol \subseteq Symbol
    BY StringAssumption
<1>2. text \in Seq(HpackSymbol \cup OtherSymbol)
    BY DEF WireInv
<1> QED  BY <1>1, <1>2 DEF WireInv

\* The loop of decode_huffman() reaches its head: either the whole string is
\* decoded and the loop ends, or the next symbol is the only answer.
LEMMA AtLoop ==
    ASSUME StringTypeInv, WireInv, Written, NoneLast,
           NEW m \in 0 .. Len(text),
           Ahead(text, Len(StdBits(SubSeq(text, 1, m))), window, windowBits, input)
    PROVE  LET code == ShiftRight(Refill.window, 32)
               c    == text[m + 1]
           IN  /\ m = Len(text) => IsEos(code)
               /\ m # Len(text) =>
                     /\ m \in 0 .. Len(text) - 1 /\ c \in Symbol
                     /\ ~ IsEos(code) /\ ~ (windowBits = 0 /\ input = << >>)
                     /\ \A d \in FindCode(code).entries : d = c
                     /\ Found(code, c) /\ ~ FindCode(code).undefined
<1> DEFINE code == ShiftRight(Refill.window, 32)
           c == text[m + 1]
           pos == Len(StdBits(SubSeq(text, 1, m)))
           len == Len(text)
<1>1. /\ text \in Seq(Symbol) /\ len \in Nat
      /\ input \in Seq(SUBSET Ones(8)) /\ window \subseteq Ones(64) /\ windowBits \in 0 .. 37
    BY DEF StringTypeInv, StringTypeOK
<1>2. pos \in Nat
  <2>1. SubSeq(text, 1, m) \in Seq(Symbol)
      BY <1>1, BeginningIs
  <2> QED  BY <2>1, StdBitsType
<1> HIDE DEF pos
<1>3. Ahead(text, pos, window, windowBits, input)
    BY DEF pos
<1>4. Ahead(text, pos, Refill.window, Refill.bits, Refill.input)
    BY <1>1, <1>2, <1>3, RefillAhead, Zenon
<1>5. Refill.bits \in 30 .. 37 /\ Refill.window \in SUBSET Ones(64)
    BY <1>1, RefillType, Zenon
<1>6. code \in SUBSET (0 .. 31) /\ \A p \in 2 .. 31 : p \in code <=> BitAt(text, pos + (32 - p))
    BY <1>2, <1>4, <1>5, CodeAhead
<1> HIDE DEF code
<1>7. ASSUME m = len  PROVE IsEos(code)
  <2>1. SubSeq(text, 1, m) = text
      BY <1>1, <1>7, SubSeqFull
  <2>2. pos = Len(StdBits(text))
      BY <2>1 DEF pos
  <2>3. ASSUME NEW p \in 2 .. 31  PROVE p \in code
    <3>1. pos + (32 - p) > pos
        BY <1>2
    <3>2. BitAt(text, pos + (32 - p))
        BY <2>2, <3>1 DEF BitAt
    <3> QED  BY <1>6, <3>2
  <2> QED  BY <2>3 DEF IsEos
<1>8. ASSUME m # len
      PROVE  /\ m \in 0 .. len - 1 /\ c \in Symbol
             /\ ~ IsEos(code) /\ ~ (windowBits = 0 /\ input = << >>)
             /\ \A d \in FindCode(code).entries : d = c
             /\ Found(code, c) /\ ~ FindCode(code).undefined
  <2>1. m \in 0 .. len - 1 /\ m + 1 \in 1 .. len
      BY <1>1, <1>8
  <2>2. c \in Symbol /\ c \in HpackSymbol \cup OtherSymbol
    <3>1. text \in Seq(HpackSymbol \cup OtherSymbol)
        BY WrittenText
    <3> QED  BY <1>1, <2>1, <3>1, ElementOfSeq
  <2>3. /\ \A p \in 0 .. 31 : p >= 32 - CodeLength[c] => (p \in code <=> p \in MsbCode[c])
        /\ ~ IsEos(code)
      BY <1>1, <1>6, <2>1, AtSymbol DEF pos
  <2>4. \E d \in Symbol : Less(MsbCode[c], MsbCode[d])
      BY <2>2 DEF NoneLast
  <2>5. /\ \A d \in FindCode(code).entries : d = c
        /\ Found(code, c) /\ ~ FindCode(code).undefined
      BY <1>6, <2>2, <2>3, <2>4, FindsSymbol
  <2>6. ~ (windowBits = 0 /\ input = << >>)
    <3> SUFFICES ASSUME windowBits = 0, input = << >>  PROVE FALSE
        OBVIOUS
    <3> DEFINE os == StdOctets(text)
               all == Len(StdBits(text))
               size == CodeLength[c]
    <3>1. PICK r \in Nat : pos + windowBits = 8 * r /\ input = SubSeq(os, r + 1, Len(os))
        BY <1>3 DEF Ahead
    <3>2. os \in Seq(SUBSET Ones(8)) /\ Len(os) = (all + 7) \div 8
        BY <1>1, StdOctetsIs
    <3>3. all \in Nat /\ Len(os) \in Nat
        BY <1>1, <3>2, StdBitsType
    <3>4. pos + size <= all
        BY <1>1, <2>1, NextCode DEF pos
    <3>5. size \in 5 .. 30
        BY <2>2, CodeFacts
    <3> HIDE DEF os, all, size
    <3>6. r >= Len(os)
      <4>1. Len(input) = 0
          OBVIOUS
      <4>2. Len(input) = IF r <= Len(os) THEN Len(os) - r ELSE 0
          BY <3>1, <3>2, EndIs
      <4> QED  BY <3>1, <3>3, <4>1, <4>2
    <3>7. pos = 8 * r
        BY <1>2, <3>1
    <3>8. 8 * Len(os) >= all
        BY <3>2, <3>3
    <3>9. 8 * r >= 8 * Len(os)
        BY <3>3, <3>6
    <3>10. pos >= all
        BY <1>2, <3>3, <3>7, <3>8, <3>9
    <3> QED  BY <1>2, <3>3, <3>4, <3>5, <3>10
  <2> QED  BY <2>1, <2>2, <2>3, <2>5, <2>6
<1> QED  BY <1>7, <1>8 DEF code, c, len

\* The end of the string is seen only when all symbols are decoded.
LEMMA DecoderEnd ==
    ASSUME NoneLast, StringTypeInv, WireInv, DecoderInv, DecodeEnd
    PROVE  res' = text /\ decoder' = "done"
<1>1. /\ decoder = "running" /\ decoder' = "done" /\ res' = res
      /\ (windowBits = 0 /\ input = << >>) \/ IsEos(ShiftRight(Refill.window, 32))
    BY DEF DecodeEnd
<1>2. Written
    BY <1>1 DEF DecoderInv
<1>3. PICK m \in 0 .. Len(text) :
        /\ res = SubSeq(text, 1, m)
        /\ Ahead(text, Len(StdBits(SubSeq(text, 1, m))), window, windowBits, input)
    BY <1>1 DEF DecoderInv, Stands
<1>4. m = Len(text)
    BY <1>1, <1>2, <1>3, AtLoop
<1>5. text \in Seq(Symbol)
    BY DEF StringTypeInv, StringTypeOK
<1> QED  BY <1>1, <1>3, <1>4, <1>5, SubSeqFull

\* A turn that is not the last decodes the next symbol.
LEMMA DecoderSymbol ==
    ASSUME NoneLast, StringTypeInv, WireInv, DecoderInv, DecodeSymbol, UNCHANGED text
    PROVE  Stands' /\ decoder' = "running"
<1> DEFINE code == ShiftRight(Refill.window, 32)
<1>1. /\ decoder = "running" /\ ~ IsEos(code)
      /\ \/ \E d \in FindCode(code).entries : IF Found(code, d) THEN DecodeTake(Refill, d) ELSE DecodeAbort
         \/ FindCode(code).undefined
    BY Zenon DEF DecodeSymbol
<1>2. Written
    BY <1>1 DEF DecoderInv
<1>3. PICK m \in 0 .. Len(text) :
        /\ res = SubSeq(text, 1, m)
        /\ Ahead(text, Len(StdBits(SubSeq(text, 1, m))), window, windowBits, input)
    BY <1>1 DEF DecoderInv, Stands
<1> DEFINE c == text[m + 1]
           len == CodeLength[c]
           pos == Len(StdBits(SubSeq(text, 1, m)))
<1>4. /\ m \in 0 .. Len(text) - 1 /\ c \in Symbol
      /\ \A d \in FindCode(code).entries : d = c
      /\ Found(code, c) /\ ~ FindCode(code).undefined
    BY <1>1, <1>2, <1>3, AtLoop
<1>5. DecodeTake(Refill, c)
  <2> HIDE DEF code, c
  <2> QED  BY <1>1, <1>4, Zenon
<1>6. /\ window' = ShiftLeft(Refill.window, len, 64) /\ windowBits' = Refill.bits - len
      /\ input' = Refill.input /\ res' = Append(res, c) /\ decoder' = "running"
    BY <1>1, <1>5 DEF DecodeTake
<1>7. /\ text \in Seq(Symbol) /\ input \in Seq(SUBSET Ones(8))
      /\ window \subseteq Ones(64) /\ windowBits \in 0 .. 37
    BY DEF StringTypeInv, StringTypeOK
<1>8. pos \in Nat /\ Len(StdBits(SubSeq(text, 1, m + 1))) = pos + len
  <2>1. SubSeq(text, 1, m) \in Seq(Symbol)
      BY <1>7, BeginningIs
  <2>2. pos \in Nat
      BY <2>1, StdBitsType
  <2>3. Len(StdBits(SubSeq(text, 1, m + 1))) = pos + len
      BY <1>4, <1>7, NextCode
  <2> QED  BY <2>2, <2>3
<1>9. Ahead(text, pos + len, window', windowBits', input')
  <2>1. Ahead(text, pos, Refill.window, Refill.bits, Refill.input)
      BY <1>3, <1>7, <1>8, RefillAhead, Zenon
  <2>2. Refill.bits \in 30 .. 37 /\ Refill.window \in SUBSET Ones(64)
      BY <1>7, RefillType, Zenon
  <2>3. len \in 5 .. 30
      BY <1>4, CodeFacts
  <2> HIDE DEF len, pos
  <2>4. len \in 0 .. Refill.bits /\ Refill.bits \in 0 .. 64
      BY <2>2, <2>3, LengthFacts
  <2>5. Ahead(text, pos + len, ShiftLeft(Refill.window, len, 64), Refill.bits - len, Refill.input)
      BY <1>8, <2>1, <2>2, <2>4, TakeAhead
  <2> QED  BY <1>6, <2>5
<1>10. res' = SubSeq(text, 1, m + 1)
    BY <1>3, <1>4, <1>6, <1>7, LongerBits
<1>11. m + 1 \in 0 .. Len(text)
    BY <1>4, <1>7
<1> HIDE DEF c, len, pos
<1>12. Ahead(text, Len(StdBits(SubSeq(text, 1, m + 1))), window', windowBits', input')
    BY <1>8, <1>9
<1>13. text' = text
    OBVIOUS
<1> QED  BY <1>6, <1>10, <1>11, <1>12, <1>13 DEF Stands

\* Every step keeps what is known of the decoder.
LEMMA DecoderStep ==
    ASSUME NoneLast, StringTypeInv, WireInv, DecoderInv, [StringNext]_stringVars
    PROVE  DecoderInv'
<1>1. ASSUME UNCHANGED << text, decodeVars, wire >>  PROVE DecoderInv'
    BY <1>1 DEF DecoderInv, Stands, Written, decodeVars
<1>2. ASSUME ~ Written, UNCHANGED decodeVars  PROVE DecoderInv'
    BY <1>2 DEF DecoderInv, decodeVars
<1>3. CASE GetCoded
  <2>1. /\ Written /\ decoder = "idle" /\ Head(wire).huffman /\ decoder' = "running"
        /\ input' = Head(wire).octets /\ text' = text /\ wire' = wire
        /\ window' = window /\ windowBits' = windowBits /\ res' = res
      BY <1>3 DEF GetCoded, DecodeStart, huffVars
  <2>2. res = << >> /\ window = {} /\ windowBits = 0
      BY <2>1 DEF DecoderInv
  <2>3. text \in Seq(Symbol) /\ wire = << Coded(StdOctets(text)) >>
    <3>1. wire = << Plain(text) >> => Head(wire).huffman = FALSE
        BY DEF Plain
    <3> QED  BY <2>1, <3>1, WrittenText
  <2>4. input' = StdOctets(text)
      BY <2>1, <2>3 DEF Coded
  <2> DEFINE os == StdOctets(text)
  <2>5. os \in Seq(SUBSET Ones(8))
      BY <2>3, StdOctetsIs
  <2>6. SubSeq(text, 1, 0) = << >> /\ Len(StdBits(<< >>)) = 0
    <3>1. 0 \in 0 .. Len(text)
        BY <2>3
    <3>2. SubSeq(text, 1, 0) \in Seq(Symbol) /\ Len(SubSeq(text, 1, 0)) = 0
        BY <2>3, <3>1, BeginningIs
    <3>3. SubSeq(text, 1, 0) = << >>
        BY <3>2, EmptySeq
    <3>4. << >> \in Seq(Symbol)
        OBVIOUS
    <3>5. StdBits(<< >>) = << >>
        BY <3>4, StdBitsType
    <3> QED  BY <3>3, <3>5
  <2>7. Ahead(text, 0, {}, 0, os)
    <3> HIDE DEF os
    <3>1. os = SubSeq(os, 0 + 1, Len(os))
        BY <2>5, SubSeqFull
    <3>2. \A i \in 0 .. 63 : ~ (i >= 64 - 0)
        OBVIOUS
    <3>3. 0 \in Nat /\ 0 + 0 = 8 * 0
        OBVIOUS
    <3> QED  BY <3>1, <3>2, <3>3 DEF Ahead, os
  <2>8. 0 \in 0 .. Len(text)
      BY <2>3
  <2>9. Stands'
      BY <2>1, <2>2, <2>4, <2>6, <2>7, <2>8 DEF Stands
  <2> QED  BY <2>1, <2>9 DEF DecoderInv, Written
<1>4. CASE GetPlain
  <2>1. /\ Written /\ ~ Head(wire).huffman /\ res' = Head(wire).plain /\ decoder' = "done"
        /\ text' = text /\ wire' = wire
      BY <1>4 DEF GetPlain, huffVars
  <2>2. wire = << Plain(text) >>
    <3>1. wire = << Coded(StdOctets(text)) >> => Head(wire).huffman = TRUE
        BY DEF Coded
    <3> QED  BY <2>1, <3>1, WrittenText
  <2>3. res' = text
      BY <2>1, <2>2 DEF Plain
  <2> QED  BY <2>1, <2>3 DEF DecoderInv, Written
<1>5. CASE Decode
  <2>1. UNCHANGED << text, wire >> /\ DecodeNext
      BY <1>5 DEF Decode, huffVars
  <2>2. Written
      BY <2>1 DEF DecodeNext, DecodeEnd, DecodeSymbol, DecoderInv
  <2>3. CASE DecodeEnd
    <3>1. res' = text /\ decoder' = "done"
        BY <2>3, DecoderEnd
    <3> QED  BY <2>1, <2>2, <3>1 DEF DecoderInv, Written
  <2>4. CASE DecodeSymbol
    <3>1. Stands' /\ decoder' = "running"
        BY <2>1, <2>4, DecoderSymbol
    <3> QED  BY <2>1, <2>2, <3>1 DEF DecoderInv, Written
  <2> QED  BY <2>1, <2>3, <2>4 DEF DecodeNext
<1>6. ASSUME NEW c \in HpackSymbol, PutSymbol(c)  PROVE DecoderInv'
    BY <1>2, <1>6 DEF PutSymbol
<1>7. CASE PutString
    BY <1>2, <1>7 DEF PutString
<1>8. ASSUME NEW string, OtherString(string)  PROVE DecoderInv'
    BY <1>2, <1>8 DEF OtherString
<1>9. CASE Stopped \/ UNCHANGED stringVars
    BY <1>1, <1>9 DEF Stopped, stringVars, huffVars
<1> QED  BY <1>3, <1>4, <1>5, <1>6, <1>7, <1>8, <1>9 DEF StringNext

\* Nothing is written at the beginning, nor decoded.
LEMMA DecoderInit == StringInit => WireInv /\ DecoderInv
BY DEF StringInit, DecodeInit, WireInv, DecoderInv, Written

\* What is known of the decoder gives the three properties.
LEMMA DecoderTells ==
    ASSUME StringTypeInv, DecoderInv
    PROVE  DecodesText /\ RoundTrip /\ NeverAborts
<1>1. text \in Seq(Symbol) /\ decoder \in {"idle", "running", "done", "aborted"}
    BY DEF StringTypeInv, StringTypeOK
<1>2. \A m \in 0 .. Len(text) : IsPrefix(SubSeq(text, 1, m), text)
  <2> TAKE m \in 0 .. Len(text)
  <2> DEFINE e == SubSeq(text, 1, m)
  <2>1. e \in Seq(Symbol) /\ Len(e) = m
      BY <1>1, BeginningIs
  <2>2. SubSeq(e, 1, m) = e
      BY <2>1, SubSeqFull
  <2> QED  BY <1>1, <2>1, <2>2 DEF IsPrefix
<1>3. IsPrefix(<< >>, text) /\ IsPrefix(text, text)
  <2>1. 0 \in 0 .. Len(text) /\ Len(text) \in 0 .. Len(text)
      BY <1>1
  <2>2. SubSeq(text, 1, Len(text)) = text
      BY <1>1, SubSeqFull
  <2>3. SubSeq(text, 1, 0) = << >>
    <3>1. SubSeq(text, 1, 0) \in Seq(Symbol) /\ Len(SubSeq(text, 1, 0)) = 0
        BY <1>1, <2>1, BeginningIs
    <3> QED  BY <3>1, EmptySeq
  <2> QED  BY <1>2, <2>1, <2>2, <2>3
<1>4. IsPrefix(res, text)
    BY <1>1, <1>2, <1>3 DEF DecoderInv, Stands
<1> QED  BY <1>4 DEF DecoderInv, DecodesText, RoundTrip, NeverAborts

\* Between two symbols the octets written and the bits pending are the codes of
\* the symbols read (hpack.cc:46-66), for codes that are appended in one step.
THEOREM PendingAreBits == ShortCodes => (StringSpec => []PendingBits)
<1> SUFFICES ASSUME ShortCodes  PROVE StringSpec => []PendingBits
    OBVIOUS
<1> DEFINE Inv == StringTypeInv /\ EncoderInv /\ WireInv
<1>1. StringInit => Inv
    BY StringTypeInit, EncoderInit, DecoderInit
<1>2. Inv /\ [StringNext]_stringVars => Inv'
    BY StringTypeStep, EncoderStep
<1>3. Inv => PendingBits
    BY SpellsBits DEF EncoderInv, PendingBits
<1> QED  BY <1>1, <1>2, <1>3, PTL DEF StringSpec

\* Padded with ones this is the coding of the standard (hpack.cc:67-72), for
\* every string of such symbols.
THEOREM HuffmanIsStandard == ShortCodes => (StringSpec => []HuffIsStandard)
<1> SUFFICES ASSUME ShortCodes  PROVE StringSpec => []HuffIsStandard
    OBVIOUS
<1> DEFINE Inv == StringTypeInv /\ EncoderInv /\ WireInv
<1>1. StringInit => Inv
    BY StringTypeInit, EncoderInit, DecoderInit
<1>2. Inv /\ [StringNext]_stringVars => Inv'
    BY StringTypeStep, EncoderStep
<1>3. Inv => HuffIsStandard
    BY PaddedIs DEF HuffIsStandard
<1> QED  BY <1>1, <1>2, <1>3, PTL DEF StringSpec

\* decode_huffman() reads the coding of hpack and of every other encoder: it
\* never takes padding for a symbol, never drops one and never finds a code
\* that it does not know (unpack.h:35-49), so that what is printed is what was
\* given and no assertion fails.  The last code of the table is left out: the
\* binary search runs past the end for it.
THEOREM StringsAreDecoded ==
    ShortCodes /\ NoneLast => (StringSpec => [](DecodesText /\ RoundTrip /\ NeverAborts))
<1> SUFFICES ASSUME ShortCodes, NoneLast
             PROVE  StringSpec => [](DecodesText /\ RoundTrip /\ NeverAborts)
    OBVIOUS
<1>1. StringInit => StringInv
    BY StringTypeInit, EncoderInit, DecoderInit DEF StringInv
<1>2. StringInv /\ [StringNext]_stringVars => StringInv'
    BY StringTypeStep, EncoderStep, DecoderStep DEF StringInv
<1>3. StringInv => DecodesText /\ RoundTrip /\ NeverAborts
    BY DecoderTells DEF StringInv
<1> QED  BY <1>1, <1>2, <1>3, PTL DEF StringSpec
=============================================================================
