---------------------------- MODULE Wire_proofs ----------------------------
(***************************************************************************)
(* Lemmas about instructions on the wire, for whoever composes an encoder  *)
(* with the decoder on octets (WireSession, Frames).  A turn of the        *)
(* decoder on the octets of an instruction does what the instruction says  *)
(* and leaves what follows.                                                *)
(***************************************************************************)
EXTENDS StdEncoder, Wire, DataLemmas

\* A beginning of two sequences, one after the other.
LEMMA BeginningOfConcat ==
    ASSUME NEW S, NEW a \in Seq(S), NEW b \in Seq(S), NEW m \in 0 .. Len(a) + Len(b)
    PROVE  /\ m <= Len(a) => SubSeq(a \o b, 1, m) = SubSeq(a, 1, m)
           /\ m >= Len(a) => SubSeq(a \o b, 1, m) = a \o SubSeq(b, 1, m - Len(a))
<1>1. /\ Len(a) \in Nat /\ Len(b) \in Nat /\ a \o b \in Seq(S)
      /\ Len(a \o b) = Len(a) + Len(b)
      /\ \A i \in 1 .. Len(a) + Len(b) :
            (a \o b)[i] = IF i <= Len(a) THEN a[i] ELSE b[i - Len(a)]
    OBVIOUS
<1> DEFINE c == a \o b
<1> HIDE DEF c
<1>2. c \in Seq(S) /\ Len(c) = Len(a) + Len(b)
      /\ \A i \in 1 .. Len(a) + Len(b) : c[i] = IF i <= Len(a) THEN a[i] ELSE b[i - Len(a)]
    BY <1>1 DEF c
<1>3. /\ SubSeq(c, 1, m) \in Seq(S) /\ Len(SubSeq(c, 1, m)) = m
      /\ \A i \in 1 .. m : SubSeq(c, 1, m)[i] = c[i]
    BY <1>1, <1>2
<1>4. ASSUME m <= Len(a)  PROVE SubSeq(c, 1, m) = SubSeq(a, 1, m)
  <2>1. /\ SubSeq(a, 1, m) \in Seq(S) /\ Len(SubSeq(a, 1, m)) = m
        /\ \A i \in 1 .. m : SubSeq(a, 1, m)[i] = a[i]
      BY <1>1, <1>4
  <2>2. \A i \in 1 .. m : c[i] = a[i]
      BY <1>1, <1>2, <1>4
  <2> QED  BY <1>3, <2>1, <2>2, SeqEqual
<1>5. ASSUME m >= Len(a)  PROVE SubSeq(c, 1, m) = a \o SubSeq(b, 1, m - Len(a))
  <2> DEFINE d == SubSeq(b, 1, m - Len(a))
             e == a \o d
  <2>1. /\ d \in Seq(S) /\ Len(d) = m - Len(a)
        /\ \A i \in 1 .. m - Len(a) : d[i] = b[i]
      BY <1>1, <1>5
  <2> HIDE DEF d
  <2>2. /\ e \in Seq(S) /\ Len(e) = m
        /\ \A i \in 1 .. m : e[i] = IF i <= Len(a) THEN a[i] ELSE d[i - Len(a)]
      BY <1>1, <1>5, <2>1
  <2> HIDE DEF e
  <2>3. ASSUME NEW i \in 1 .. m  PROVE c[i] = e[i]
    <3>1. i \in 1 .. Len(a) + Len(b) /\ i \in Int /\ Len(a) \in Int
        BY <1>1
    <3>2. CASE i <= Len(a)
        BY <1>2, <2>2, <3>1, <3>2
    <3>3. CASE ~ (i <= Len(a))
      <4>1. i - Len(a) \in 1 .. m - Len(a)
          BY <1>1, <3>1, <3>3
      <4>2. d[i - Len(a)] = b[i - Len(a)]
          BY <2>1, <4>1
      <4>3. c[i] = b[i - Len(a)]
          BY <1>2, <3>1, <3>3
      <4>4. e[i] = d[i - Len(a)]
          BY <2>2, <3>3
      <4> QED  BY <4>2, <4>3, <4>4
    <3> QED  BY <3>2, <3>3
  <2>4. SubSeq(c, 1, m) = e
      BY <1>3, <2>2, <2>3, SeqEqual
  <2> QED  BY <2>4 DEF d, e
<1> QED  BY <1>4, <1>5 DEF c

-----------------------------------------------------------------------------
(* A string is read as it was written, and never read when it was cut.     *)

\* The spelling of a text.
LEMMA SpellingType ==
    ASSUME NEW form \in {"plain", "coded"}, NEW t \in Text
    PROVE  LET os == IF form = "coded" THEN Coded[t] ELSE Plain[t]
               p == IntOctets(form, Len(os))
           IN  /\ os \in Seq(Octet) /\ Len(os) \in UInt
               /\ Spells(form, Len(os), p)
               /\ p \in Seq(Octet) /\ p # << >>
               /\ ReadAs(form) = "plain"
               /\ StringOctets(form, t) = p \o os
               /\ StringOctets(form, t) \in Seq(Octet)
<1> DEFINE os == IF form = "coded" THEN Coded[t] ELSE Plain[t]
           p == IntOctets(form, Len(os))
<1>1. os \in Seq(Octet) /\ Len(os) \in UInt
    BY WireAssumption
<1>2. StringOctets(form, t) = p \o os
    BY DEF StringOctets
<1> HIDE DEF os
<1>3. Spells(form, Len(os), p)
    BY <1>1, IntOctetsSpell
<1>4. p \in Seq(Octet) /\ p # << >>
    BY <1>1, <1>3, SpelledHead
<1>5. ReadAs(form) = "plain"
    BY DEF ReadAs
<1> QED  BY <1>1, <1>2, <1>3, <1>4, <1>5 DEF os

\* get_string reads the string that was written, whichever way it is spelled,
\* and stops where it ends (unpack.h:80-97).  Only Huffman code can be one that
\* decode_huffman does not understand.
LEMMA StringRead ==
    ASSUME NEW form \in {"plain", "coded"}, NEW t \in Text, NEW tail \in Seq(Octet)
    PROVE  LET os == StringOctets(form, t) \o tail
           IN  /\ os \in Seq(Octet) /\ Fits(os) /\ String(os) = t /\ AfterString(os) = tail
               /\ Overruns(os) => form = "coded" /\ t \in Overrun
<1> DEFINE spelling == IF form = "coded" THEN Coded ELSE Plain
           body == spelling[t]
           p == IntOctets(form, Len(body))
           os == StringOctets(form, t) \o tail
           rest == body \o tail
<1>1. /\ body \in Seq(Octet) /\ Len(body) \in UInt
      /\ Spells(form, Len(body), p)
      /\ p \in Seq(Octet) /\ p # << >>
      /\ ReadAs(form) = "plain"
      /\ StringOctets(form, t) = p \o body
      /\ StringOctets(form, t) \in Seq(Octet)
    BY SpellingType
<1>2. \A u \in Text : spelling[u] = body => u = t
    BY WireAssumption
<1> HIDE DEF spelling, body, p
<1>3. os = p \o rest
    BY <1>1
<1>4. os \in Seq(Octet) /\ rest \in Seq(Octet) /\ Len(rest) = Len(body) + Len(tail)
      /\ Len(body) \in Nat /\ Len(tail) \in Nat
    BY <1>1
<1>5. os # << >> /\ Head(os) = p[1]
  <2>1. Len(p) \in Nat \ {0}
      BY <1>1, EmptySeq
  <2>2. Len(p \o rest) = Len(p) + Len(rest) /\ (p \o rest)[1] = p[1] /\ p \o rest \in Seq(Octet)
      BY <1>1, <1>4, <2>1
  <2>3. p \o rest # << >>
      BY <1>4, <2>1, <2>2
  <2> QED  BY <1>3, <2>2, <2>3
<1>6. (Head(os) >= More) <=> form = "coded"
  <2>1. /\ form = "coded" => p[1] >= More
        /\ form = "plain" => p[1] < More
        /\ p[1] \in Octet
      BY <1>1, SpelledHead
  <2>2. p[1] \in Int /\ More \in Int
      BY <2>1, MoreType DEF Octet
  <2> QED  BY <1>5, <2>1, <2>2
<1>7. Length(os) = [val |-> Len(body), rest |-> rest]
  <2>1. form \in Form \cup {"coded", "plain"}
      OBVIOUS
  <2>2. ReadInt(ReadAs(form), p \o rest) = [val |-> Len(body), rest |-> rest]
    <3>1. rest \in Seq(Octet) /\ Len(body) \in UInt /\ Spells(form, Len(body), p)
        BY <1>1, <1>4
    <3> HIDE DEF rest
    <3> QED  BY <2>1, <3>1, ReadSpelled, ZenonT(60)
  <2> QED  BY <1>1, <1>3, <2>2 DEF Length
<1>8. SubSeq(rest, 1, Len(body)) = body
  <2>1. SubSeq(rest, 1, Len(body)) = SubSeq(body, 1, Len(body))
      BY <1>1, <1>4, BeginningOfConcat
  <2> QED  BY <1>1, <2>1, SubSeqFull
<1>9. SubSeq(rest, Len(body) + 1, Len(rest)) = tail
  <2> DEFINE s == SubSeq(rest, Len(body) + 1, Len(rest))
  <2>1. \A i \in 1 .. Len(rest) : rest[i] = IF i <= Len(body) THEN body[i] ELSE tail[i - Len(body)]
      BY <1>1, <1>4
  <2> HIDE DEF rest
  <2>2. /\ s \in Seq(Octet) /\ Len(s) = Len(tail)
        /\ \A i \in 1 .. Len(tail) : s[i] = rest[Len(body) + i]
      BY <1>4
  <2> HIDE DEF s
  <2>3. ASSUME NEW i \in 1 .. Len(tail)  PROVE s[i] = tail[i]
    <3>1. /\ Len(body) + i \in 1 .. Len(rest) /\ ~ (Len(body) + i <= Len(body))
          /\ (Len(body) + i) - Len(body) = i
        BY <1>4
    <3> QED  BY <2>1, <2>2, <3>1
  <2>4. s = tail
      BY <2>2, <2>3, SeqEqual
  <2> QED  BY <2>4 DEF s
<1> HIDE DEF rest, os
<1>10. Fits(os)
    BY <1>4, <1>5, <1>7 DEF Fits
<1>11. String(os) = t
  <2>1. (IF Head(os) >= More THEN Coded ELSE Plain) = spelling
      BY <1>6 DEF spelling
  <2>2. Length(os).val = Len(body) /\ Length(os).rest = rest
      BY <1>7
  <2>3. String(os) = TextOf(spelling, body)
      BY <1>8, <2>1, <2>2, Zenon DEF String
  <2>4. spelling[t] = body
      BY DEF body
  <2>5. TextOf(spelling, body) = CHOOSE u \in Text : spelling[u] = body
      BY <2>4 DEF TextOf
  <2> QED  BY <1>2, <2>3, <2>4, <2>5
<1>12. AfterString(os) = tail
    BY <1>7, <1>9 DEF AfterString
<1>13. Overruns(os) => form = "coded" /\ t \in Overrun
    BY <1>6, <1>11 DEF Overruns
<1> QED  BY <1>4, <1>10, <1>11, <1>12, <1>13 DEF os

\* A string that was cut is never taken for another: the assertions of
\* get_string fail (unpack.h:84, 89).
LEMMA StringCut ==
    ASSUME NEW form \in {"plain", "coded"}, NEW t \in Text,
           NEW m \in 0 .. Len(StringOctets(form, t)) - 1
    PROVE  ~ Fits(SubSeq(StringOctets(form, t), 1, m))
<1> DEFINE body == IF form = "coded" THEN Coded[t] ELSE Plain[t]
           p == IntOctets(form, Len(body))
           os == SubSeq(p \o body, 1, m)
<1>1. /\ body \in Seq(Octet) /\ Len(body) \in UInt
      /\ Spells(form, Len(body), p)
      /\ p \in Seq(Octet) /\ p # << >>
      /\ ReadAs(form) = "plain"
      /\ StringOctets(form, t) = p \o body
    BY SpellingType
<1> HIDE DEF body, p
<1>2. /\ Len(p) \in Nat \ {0} /\ Len(body) \in Nat /\ Len(p \o body) = Len(p) + Len(body)
      /\ m \in 0 .. Len(p) + Len(body) /\ m < Len(p) + Len(body) /\ m \in Nat
    BY <1>1, EmptySeq
<1>3. CASE m = 0
  <2>1. os = << >>
      BY <1>3, SubSeqEmpty
  <2> QED  BY <1>1, <2>1 DEF Fits
<1>4. CASE m # 0 /\ m < Len(p)
  <2>1. os = SubSeq(p, 1, m)
      BY <1>1, <1>2, <1>4, BeginningOfConcat
  <2>2. m \in 1 .. Len(p) - 1
      BY <1>2, <1>4
  <2>3. /\ ReadInt("plain", os).val \in MaxVal(form) .. Len(body)
        /\ ReadInt("plain", os).rest = << >>
    <3>1. form \in Form \cup {"coded", "plain"}
        BY DEF Form
    <3>2. /\ ReadInt(ReadAs(form), SubSeq(p, 1, m)).val \in MaxVal(form) .. Len(body)
          /\ ReadInt(ReadAs(form), SubSeq(p, 1, m)).rest = << >>
        BY <1>1, <2>2, <3>1, ReadCut
    <3> QED  BY <1>1, <2>1, <3>2, Zenon
  <2>4. MaxVal(form) \in Nat /\ MaxVal(form) >= 1
      BY FirstOctet
  <2>5. ~ (Length(os).val <= Len(Length(os).rest))
      BY <1>2, <2>3, <2>4 DEF Length
  <2> QED  BY <1>1, <2>5 DEF Fits
<1>5. CASE m >= Len(p)
  <2> DEFINE rest == SubSeq(body, 1, m - Len(p))
  <2>1. os = p \o rest
      BY <1>1, <1>2, <1>5, BeginningOfConcat
  <2>2. rest \in Seq(Octet) /\ Len(rest) = m - Len(p)
      BY <1>1, <1>2, <1>5
  <2> HIDE DEF rest
  <2>3. ReadInt("plain", os) = [val |-> Len(body), rest |-> rest]
    <3>1. form \in Form \cup {"coded", "plain"}
        OBVIOUS
    <3>2. ReadInt(ReadAs(form), p \o rest) = [val |-> Len(body), rest |-> rest]
      <4>1. Len(body) \in UInt /\ Spells(form, Len(body), p) /\ rest \in Seq(Octet)
          BY <1>1, <2>2
      <4> QED  BY <3>1, <4>1, ReadSpelled, ZenonT(60)
    <3> QED  BY <1>1, <2>1, <3>2
  <2>4. ~ (Length(os).val <= Len(Length(os).rest))
      BY <1>2, <2>2, <2>3 DEF Length
  <2> QED  BY <1>1, <2>4 DEF Fits
<1> QED  BY <1>2, <1>3, <1>4, <1>5

-----------------------------------------------------------------------------
(* An instruction on the wire.                                             *)

\* An instruction whose index fits an unsigned.
Wireable(instr) ==
    /\ instr \in Instruction
    /\ instr.op \in {"indexed", "named"} => instr.index \in UInt

\* The parts of its octets: the form and the value of the integer they begin
\* with, and the strings that follow.
FormOf(instr, unpushed) ==
    IF instr.op \in {"named", "literal"}
    THEN IF instr.push THEN "named" ELSE unpushed
    ELSE instr.op

ValueOf(instr) ==
    CASE instr.op \in {"indexed", "named"} -> instr.index
      [] instr.op = "resize"               -> instr.max
      [] instr.op = "literal"              -> 0

StringsOf(instr, s) ==
    CASE instr.op = "named"   -> StringOctets(s.value, instr.value)
      [] instr.op = "literal" -> StringOctets(s.name, instr.header.name)
                                    \o StringOctets(s.value, instr.header.value)
      [] OTHER                -> << >>

\* An unsigned is a number, and so are those below it.
LEMMA UIntType == 0 \in UInt /\ \A v \in UInt : v \in Nat /\ 0 .. v \subseteq UInt
<1> DEFINE u == 2 ^ UIntBits
<1>1. u \in Nat /\ u >= 1 /\ UInt = 0 .. u - 1
    BY WidthType, MoreType DEF UInt
<1> HIDE DEF u
<1> QED  BY <1>1

\* What unpack() and its strings are made of, for each form of instruction.
LEMMA WireableFields ==
    ASSUME NEW instr, Wireable(instr)
    PROVE  \/ instr.op = "indexed" /\ instr.index \in UInt \ {0}
           \/ instr.op = "resize" /\ instr.max \in UInt
           \/ /\ instr.op = "named" /\ instr.index \in UInt \ {0}
              /\ instr.push \in BOOLEAN /\ instr.value \in Value /\ instr.value \in Text
           \/ /\ instr.op = "literal" /\ instr.push \in BOOLEAN
              /\ instr.header \in Entry
              /\ instr.header.name \in Name /\ instr.header.name \in Text
              /\ instr.header.value \in Value /\ instr.header.value \in Text
              /\ instr.header = [name |-> instr.header.name, value |-> instr.header.value]
<1>1. UInt = 0 .. UIntRange - 1
    BY WireAssumption DEF UInt
<1>2. CASE instr \in [op : {"indexed"}, index : Nat \ {0}]
    BY <1>2 DEF Wireable
<1>3. CASE instr \in [op : {"named"}, push : BOOLEAN, index : Nat \ {0}, value : Value]
    BY <1>3 DEF Wireable, Text
<1>4. CASE instr \in [op : {"literal"}, push : BOOLEAN, header : Entry]
    BY <1>4 DEF Text, Entry
<1>5. CASE instr \in [op : {"resize"}, max : 0 .. UIntRange - 1]
    BY <1>1, <1>5
<1> QED  BY <1>2, <1>3, <1>4, <1>5 DEF Wireable, Instruction

\* An instruction is its first integer and its strings.
LEMMA PieceIs ==
    ASSUME NEW instr, Wireable(instr), NEW s \in Spelling
    PROVE  LET p == IntOctets(FormOf(instr, s.unpushed), ValueOf(instr))
               rest == StringsOf(instr, s)
           IN  /\ FormOf(instr, s.unpushed) \in Form
               /\ ValueOf(instr) \in UInt
               /\ Spells(FormOf(instr, s.unpushed), ValueOf(instr), p)
               /\ p \in Seq(Octet) /\ p # << >>
               /\ rest \in Seq(Octet)
               /\ InstructionOctets(instr, s) = p \o rest
<1> DEFINE f == FormOf(instr, s.unpushed)
           v == ValueOf(instr)
           p == IntOctets(f, v)
           rest == StringsOf(instr, s)
<1>0. s.name \in {"plain", "coded"} /\ s.value \in {"plain", "coded"}
      /\ s.unpushed \in {"unindexed", "never"}
    BY DEF Spelling
<1>1. f \in Form
    BY <1>0, WireableFields DEF FormOf, Form
<1>2. v \in UInt
    BY UIntType, WireableFields DEF ValueOf
<1>3. \A t \in Text : /\ StringOctets(s.name, t) \in Seq(Octet)
                       /\ StringOctets(s.value, t) \in Seq(Octet)
    BY <1>0, SpellingType
<1>4. rest \in Seq(Octet)
  <2>1. CASE instr.op = "named"
      BY <1>3, <2>1, WireableFields DEF StringsOf
  <2>2. CASE instr.op = "literal"
    <3>1. /\ StringOctets(s.name, instr.header.name) \in Seq(Octet)
          /\ StringOctets(s.value, instr.header.value) \in Seq(Octet)
        BY <1>3, <2>2, WireableFields
    <3>2. \A a, b \in Seq(Octet) : a \o b \in Seq(Octet)
        OBVIOUS
    <3> QED  BY <2>2, <3>1, <3>2 DEF StringsOf
  <2>3. CASE instr.op \notin {"named", "literal"}
      BY <2>3 DEF StringsOf
  <2> QED  BY <2>1, <2>2, <2>3
<1>5. Spells(f, v, p)
    BY <1>1, <1>2, IntOctetsSpell
<1>6. p \in Seq(Octet) /\ p # << >>
    BY <1>1, <1>2, <1>5, SpelledHead
<1>7. InstructionOctets(instr, s) = p \o rest
  <2>1. CASE instr.op = "indexed" \/ instr.op = "resize"
    <3>1. InstructionOctets(instr, s) = p /\ rest = << >>
        BY <2>1 DEF InstructionOctets, FormOf, ValueOf, StringsOf
    <3> QED  BY <1>6, <3>1, ConcatEmptySeq
  <2>2. CASE instr.op = "named"
    <3>1. instr.push \in BOOLEAN
        BY <2>2, WireableFields
    <3> QED  BY <2>2, <3>1 DEF InstructionOctets, FormOf, ValueOf, StringsOf
  <2>3. CASE instr.op = "literal"
    <3> DEFINE a == StringOctets(s.name, instr.header.name)
               b == StringOctets(s.value, instr.header.value)
    <3>1. instr.push \in BOOLEAN /\ a \in Seq(Octet) /\ b \in Seq(Octet)
        BY <1>3, <2>3, WireableFields
    <3>2. InstructionOctets(instr, s) = (p \o a) \o b
        BY <2>3, <3>1 DEF InstructionOctets, FormOf, ValueOf
    <3>3. rest = a \o b
        BY <2>3 DEF StringsOf
    <3>4. \A x, y, z \in Seq(Octet) : (x \o y) \o z = x \o (y \o z)
        OBVIOUS
    <3> HIDE DEF a, b, p, rest
    <3> QED  BY <1>6, <3>1, <3>2, <3>3, <3>4
  <2> QED  BY <2>1, <2>2, <2>3, WireableFields
<1> QED  BY <1>1, <1>2, <1>4, <1>5, <1>6, <1>7

\* The first integer of what is in the buffer, if all of it is there.
LEMMA FirstRead ==
    ASSUME NEW f \in Form, NEW v \in UInt, NEW p, Spells(f, v, p),
           NEW rest \in Seq(Octet), buffer = p \o rest
    PROVE  /\ buffer # << >>
           /\ FirstArm = ReadAs(f)
           /\ FirstInt.val = v /\ FirstInt.rest = rest
<1>1. f \in Form \cup {"coded", "plain"}
    OBVIOUS
<1>2. p \in Seq(Octet) /\ p # << >> /\ Arm(p[1]) = ReadAs(f)
    BY <1>1, SpelledHead
<1>3. ReadInt(ReadAs(f), p \o rest) = [val |-> v, rest |-> rest]
    BY <1>1, ReadSpelled, ZenonT(60)
<1>4. buffer # << >> /\ Head(buffer) = p[1]
  <2>1. Len(p) \in Nat \ {0} /\ Len(rest) \in Nat
      BY <1>2, EmptySeq
  <2>2. /\ p \o rest \in Seq(Octet) /\ Len(p \o rest) = Len(p) + Len(rest)
        /\ (p \o rest)[1] = p[1]
      BY <1>2, <2>1
  <2>3. p \o rest # << >>
      BY <2>1, <2>2
  <2> QED  BY <2>2, <2>3
<1>5. FirstArm = ReadAs(f)
    BY <1>2, <1>4 DEF FirstArm
<1>6. FirstInt = [val |-> v, rest |-> rest]
    BY <1>3, <1>5 DEF FirstInt
<1> QED  BY <1>4, <1>5, <1>6

\* The same if it was cut short: the integer is taken for a smaller one, but
\* never for 0, and nothing follows.
LEMMA FirstCut ==
    ASSUME NEW f \in Form, NEW v \in UInt, NEW p, Spells(f, v, p),
           NEW m \in 1 .. Len(p) - 1, buffer = SubSeq(p, 1, m)
    PROVE  /\ buffer # << >>
           /\ FirstArm = ReadAs(f)
           /\ FirstInt.val \in UInt \ {0}
           /\ FirstInt.rest = << >>
<1>1. f \in Form \cup {"coded", "plain"}
    OBVIOUS
<1>2. p \in Seq(Octet) /\ p # << >> /\ Arm(p[1]) = ReadAs(f)
    BY <1>1, SpelledHead
<1>3. buffer # << >> /\ Head(buffer) = p[1]
  <2>1. Len(p) \in Nat /\ m \in 1 .. Len(p)
      BY <1>2
  <2>2. SubSeq(p, 1, m) \in Seq(Octet) /\ Len(SubSeq(p, 1, m)) = m /\ SubSeq(p, 1, m)[1] = p[1]
      BY <1>2, <2>1
  <2>3. SubSeq(p, 1, m) # << >>
      BY <2>1, <2>2
  <2> QED  BY <2>2, <2>3
<1>4. FirstArm = ReadAs(f)
    BY <1>2, <1>3 DEF FirstArm
<1>5. /\ ReadInt(ReadAs(f), SubSeq(p, 1, m)).val \in MaxVal(f) .. v
      /\ ReadInt(ReadAs(f), SubSeq(p, 1, m)).rest = << >>
    BY <1>1, ReadCut
<1>6. FirstInt.val \in MaxVal(f) .. v /\ FirstInt.rest = << >>
    BY <1>4, <1>5 DEF FirstInt
<1>7. MaxVal(f) \in Nat /\ MaxVal(f) >= 1
    BY <1>1, FirstOctet
<1>8. FirstInt.val \in UInt \ {0}
  <2>1. v \in Nat /\ 0 .. v \subseteq UInt
      BY UIntType
  <2>2. FirstInt.val \in 0 .. v /\ FirstInt.val # 0
      BY <1>6, <1>7, <2>1
  <2> QED  BY <2>1, <2>2
<1> QED  BY <1>3, <1>4, <1>6, <1>8

-----------------------------------------------------------------------------
(* One turn of the loop of unpack().                                       *)

\* What an instruction does to the decoder: the arms of Unpack.
CarriesOut(instr) ==
    \/ /\ instr.op = "indexed"
       /\ Deliver(Get(decTable.table, instr.index), FALSE)
    \/ /\ instr.op = "named"
       /\ Deliver([name |-> Get(decTable.table, instr.index).name, value |-> instr.value],
                  instr.push)
    \/ instr.op = "literal" /\ Deliver(instr.header, instr.push)
    \/ /\ instr.op = "resize"
       /\ maxDynamicSize' = instr.max
       /\ decTable' = Shrink(decTable, instr.max)
       /\ UNCHANGED decoded

\* A string of it is in Huffman code that decode_huffman may not understand.
Overran(instr, s) ==
    /\ CodedTexts(instr, s) \cap Overrun # {}
    /\ aborted' = TRUE
    /\ UNCHANGED unpackVars

\* A turn on the octets of an instruction carries it out, takes all of its
\* octets and no more, or fails the assertion of decode_huffman, and no other
\* (unpack.h:46, 115-163).
LEMMA TurnOnPiece ==
    ASSUME NEW instr, Wireable(instr),
           NEW s \in Spelling,
           NEW tail \in Seq(Octet),
           buffer = InstructionOctets(instr, s) \o tail,
           Turn
    PROVE  \/ CarriesOut(instr) /\ buffer' = tail /\ aborted' = aborted
           \/ Overran(instr, s)
<1> DEFINE f == FormOf(instr, s.unpushed)
           v == ValueOf(instr)
           p == IntOctets(f, v)
           rest == StringsOf(instr, s)
<1>0. s.name \in {"plain", "coded"} /\ s.value \in {"plain", "coded"}
      /\ s.unpushed \in {"unindexed", "never"}
    BY DEF Spelling
<1>1. /\ f \in Form /\ v \in UInt /\ Spells(f, v, p)
      /\ p \in Seq(Octet) /\ rest \in Seq(Octet)
      /\ buffer = (p \o rest) \o tail
    BY PieceIs
<1>2. FirstArm = ReadAs(f) /\ FirstInt.val = v /\ FirstInt.rest = rest \o tail
  <2> HIDE DEF f, v, p, rest
  <2>1. \A x, y, z \in Seq(Octet) : (x \o y) \o z = x \o (y \o z) /\ y \o z \in Seq(Octet)
      BY SMTT(30)
  <2>2. rest \o tail \in Seq(Octet) /\ buffer = p \o (rest \o tail)
      BY <1>1, <2>1
  <2> QED  BY <1>1, <2>2, FirstRead
<1>3. \A form \in {"plain", "coded"}, t \in Text, os \in Seq(Octet) :
         /\ Fits(StringOctets(form, t) \o os)
         /\ String(StringOctets(form, t) \o os) = t
         /\ AfterString(StringOctets(form, t) \o os) = os
         /\ Overruns(StringOctets(form, t) \o os) => form = "coded" /\ t \in Overrun
    BY StringRead
<1>4. CASE instr.op = "indexed" /\ instr.index \in UInt \ {0}
  <2>1. f = "indexed" /\ v = instr.index /\ rest = << >>
      BY <1>4 DEF FormOf, ValueOf, StringsOf
  <2>2. FirstArm = "indexed" /\ FirstInt.val = instr.index /\ FirstInt.val # 0
        /\ FirstInt.rest = tail
      BY <1>2, <1>4, <2>1, ConcatEmptySeq DEF ReadAs
  <2>3. TurnIndexed
      BY <2>2 DEF Turn, TurnResize, TurnNamed, TurnLiteral, TurnAborts, TwoStrings
  <2> QED  BY <1>4, <2>2, <2>3 DEF TurnIndexed, CarriesOut
<1>5. CASE instr.op = "resize" /\ instr.max \in UInt
  <2>1. f = "resize" /\ v = instr.max /\ rest = << >>
      BY <1>5 DEF FormOf, ValueOf, StringsOf
  <2>2. FirstArm = "resize" /\ FirstInt.val = instr.max /\ FirstInt.rest = tail
      BY <1>2, <2>1, ConcatEmptySeq DEF ReadAs
  <2>3. TurnResize
      BY <2>2 DEF Turn, TurnIndexed, TurnNamed, TurnLiteral, TurnAborts, TwoStrings
  <2> QED  BY <1>5, <2>2, <2>3 DEF TurnResize, CarriesOut
<1>6. CASE /\ instr.op = "named" /\ instr.index \in UInt \ {0}
           /\ instr.push \in BOOLEAN /\ instr.value \in Text
  <2>1. f = (IF instr.push THEN "named" ELSE s.unpushed) /\ v = instr.index
        /\ rest = StringOctets(s.value, instr.value)
      BY <1>6 DEF FormOf, ValueOf, StringsOf
  <2>2. /\ FirstArm \in {"named", "unindexed"} /\ (FirstArm = "named") = instr.push
        /\ FirstInt.val = instr.index /\ FirstInt.val # 0
      BY <1>0, <1>2, <1>6, <2>1 DEF ReadAs
  <2>3. /\ Fits(FirstInt.rest) /\ String(FirstInt.rest) = instr.value
        /\ AfterString(FirstInt.rest) = tail
        /\ Overruns(FirstInt.rest) => s.value = "coded" /\ instr.value \in Overrun
      BY <1>0, <1>2, <1>3, <1>6, <2>1
  <2>4. CASE TurnNamed
    <3>1. /\ Deliver([name |-> Get(decTable.table, instr.index).name, value |-> instr.value],
                     instr.push)
          /\ buffer' = tail /\ aborted' = aborted
        BY <2>2, <2>3, <2>4 DEF TurnNamed
    <3> QED  BY <1>6, <3>1 DEF CarriesOut
  <2>5. CASE TurnAborts
    <3>1. Overruns(FirstInt.rest)
        BY <2>2, <2>3, <2>5 DEF TurnAborts, SomeStringFails, StringFails, TwoStrings
    <3>2. instr.value \in CodedTexts(instr, s) \cap Overrun
        BY <1>6, <2>3, <3>1 DEF CodedTexts
    <3> QED  BY <2>5, <3>2 DEF TurnAborts, Overran
  <2> QED  BY <2>2, <2>4, <2>5 DEF Turn, TurnIndexed, TurnResize, TurnLiteral, TwoStrings
<1>7. CASE /\ instr.op = "literal" /\ instr.push \in BOOLEAN
           /\ instr.header.name \in Text /\ instr.header.value \in Text
           /\ instr.header = [name |-> instr.header.name, value |-> instr.header.value]
  <2> DEFINE a == StringOctets(s.name, instr.header.name)
             b == StringOctets(s.value, instr.header.value)
  <2>1. f = (IF instr.push THEN "named" ELSE s.unpushed) /\ v = 0 /\ rest = a \o b
      BY <1>7 DEF FormOf, ValueOf, StringsOf
  <2>2. /\ FirstArm \in {"named", "unindexed"} /\ (FirstArm = "named") = instr.push
        /\ FirstInt.val = 0
      BY <1>0, <1>2, <1>7, <2>1 DEF ReadAs
  <2>3. a \in Seq(Octet) /\ b \in Seq(Octet) /\ b \o tail \in Seq(Octet)
    <3>1. a \in Seq(Octet) /\ b \in Seq(Octet)
        BY <1>0, <1>7, SpellingType
    <3> QED  BY <3>1
  <2>4. FirstInt.rest = a \o (b \o tail)
    <3>1. FirstInt.rest = (a \o b) \o tail
        BY <1>2, <2>1
    <3> HIDE DEF a, b
    <3>2. \A x, y, z \in Seq(Octet) : (x \o y) \o z = x \o (y \o z)
        BY SMTT(30)
    <3> QED  BY <2>3, <3>1, <3>2
  <2>5. /\ Fits(FirstInt.rest) /\ String(FirstInt.rest) = instr.header.name
        /\ AfterString(FirstInt.rest) = b \o tail
        /\ Overruns(FirstInt.rest) => s.name = "coded" /\ instr.header.name \in Overrun
    <3>1. \A os \in Seq(Octet) :
             /\ Fits(a \o os) /\ String(a \o os) = instr.header.name
             /\ AfterString(a \o os) = os
             /\ Overruns(a \o os) => s.name = "coded" /\ instr.header.name \in Overrun
        BY <1>0, <1>3, <1>7
    <3> HIDE DEF a, b
    <3> QED  BY <2>3, <2>4, <3>1
  <2>6. /\ Fits(b \o tail) /\ String(b \o tail) = instr.header.value
        /\ AfterString(b \o tail) = tail
        /\ Overruns(b \o tail) => s.value = "coded" /\ instr.header.value \in Overrun
      BY <1>0, <1>3, <1>7
  <2> HIDE DEF a, b
  <2>7. CASE TurnLiteral
    <3>1. /\ Deliver(instr.header, instr.push)
          /\ buffer' = tail /\ aborted' = aborted
        BY <1>7, <2>2, <2>5, <2>6, <2>7 DEF TurnLiteral
    <3> QED  BY <1>7, <3>1 DEF CarriesOut
  <2>8. CASE TurnAborts
    <3>1. Overruns(FirstInt.rest) \/ Overruns(b \o tail)
        BY <2>5, <2>6, <2>8 DEF TurnAborts, SomeStringFails, StringFails
    <3>2. \/ instr.header.name \in CodedTexts(instr, s) \cap Overrun
          \/ instr.header.value \in CodedTexts(instr, s) \cap Overrun
        BY <1>7, <2>5, <2>6, <3>1 DEF CodedTexts
    <3> QED  BY <2>8, <3>2 DEF TurnAborts, Overran
  <2> QED  BY <2>2, <2>7, <2>8 DEF Turn, TurnIndexed, TurnResize, TurnNamed
<1> QED  BY <1>4, <1>5, <1>6, <1>7, WireableFields

\* Of an instruction that is cut short, an assertion fails, unless it is all
\* integer: then something is printed or a size is taken, and the input is at
\* its end.
Spoils(instr) ==
    \/ aborted' = TRUE /\ UNCHANGED unpackVars
    \/ /\ buffer' = << >> /\ aborted' = aborted
       /\ \/ instr.op = "indexed" /\ \E i \in UInt : Deliver(Get(decTable.table, i), FALSE)
          \/ /\ instr.op = "resize"
             /\ UNCHANGED decoded
             /\ \E max \in UInt : maxDynamicSize' = max /\ decTable' = Shrink(decTable, max)

\* A turn on a beginning of the octets of an instruction (unpack.h:71, 84, 89).
LEMMA TurnOnCut ==
    ASSUME NEW instr, Wireable(instr),
           NEW s \in Spelling,
           NEW m \in 1 .. Len(InstructionOctets(instr, s)) - 1,
           buffer = SubSeq(InstructionOctets(instr, s), 1, m),
           Turn
    PROVE  Spoils(instr)
<1> DEFINE f == FormOf(instr, s.unpushed)
           v == ValueOf(instr)
           p == IntOctets(f, v)
           rest == StringsOf(instr, s)
<1>0. s.name \in {"plain", "coded"} /\ s.value \in {"plain", "coded"}
      /\ s.unpushed \in {"unindexed", "never"}
    BY DEF Spelling
<1>1. /\ f \in Form /\ v \in UInt /\ Spells(f, v, p)
      /\ p \in Seq(Octet) /\ p # << >> /\ rest \in Seq(Octet)
      /\ InstructionOctets(instr, s) = p \o rest
    BY PieceIs
<1>2. /\ Len(p) \in Nat \ {0} /\ Len(rest) \in Nat
      /\ m \in 0 .. Len(p) + Len(rest) /\ m # 0 /\ m < Len(p) + Len(rest)
  <2> HIDE DEF p, rest
  <2>1. Len(p) \in Nat \ {0} /\ Len(rest) \in Nat /\ Len(p \o rest) = Len(p) + Len(rest)
      BY <1>1, EmptySeq
  <2> QED  BY <1>1, <2>1
<1>3. CASE m < Len(p)
  <2>1. buffer = SubSeq(p, 1, m) /\ m \in 1 .. Len(p) - 1
    <3> HIDE DEF p, rest
    <3> QED  BY <1>1, <1>2, <1>3, BeginningOfConcat
  <2>2. /\ FirstArm = ReadAs(f) /\ FirstInt.val \in UInt \ {0} /\ FirstInt.rest = << >>
    <3> HIDE DEF f, v, p, rest
    <3> QED  BY <1>1, <2>1, FirstCut
  <2>3. ~ Fits(FirstInt.rest) /\ ~ TwoStrings
      BY <2>2 DEF Fits, TwoStrings
  <2>4. CASE instr.op = "indexed"
    <3>1. FirstArm = "indexed"
        BY <2>2, <2>4 DEF ReadAs, FormOf
    <3>2. TurnIndexed
        BY <2>3, <3>1 DEF Turn, TurnResize, TurnNamed, TurnLiteral, TurnAborts
    <3>3. Deliver(Get(decTable.table, FirstInt.val), FALSE) /\ buffer' = << >> /\ aborted' = aborted
        BY <2>2, <3>2 DEF TurnIndexed
    <3> QED  BY <2>2, <2>4, <3>3 DEF Spoils
  <2>5. CASE instr.op = "resize"
    <3>1. FirstArm = "resize"
        BY <2>2, <2>5 DEF ReadAs, FormOf
    <3>2. TurnResize
        BY <2>3, <3>1 DEF Turn, TurnIndexed, TurnNamed, TurnLiteral, TurnAborts
    <3> QED  BY <2>2, <2>5, <3>2 DEF TurnResize, Spoils
  <2>6. CASE instr.op \in {"named", "literal"}
    <3>1. FirstArm \in {"named", "unindexed"}
        BY <1>0, <2>2, <2>6 DEF ReadAs, FormOf
    <3>2. TurnAborts
        BY <2>3, <3>1 DEF Turn, TurnIndexed, TurnResize, TurnNamed, TurnLiteral
    <3> QED  BY <3>2 DEF TurnAborts, Spoils
  <2> QED  BY <2>4, <2>5, <2>6, WireableFields
<1>4. CASE m >= Len(p)
  <2> DEFINE k == m - Len(p)
             left == SubSeq(rest, 1, k)
  <2>1. buffer = p \o left /\ k \in 0 .. Len(rest) - 1 /\ left \in Seq(Octet)
    <3> HIDE DEF p, rest
    <3>1. k \in 0 .. Len(rest) - 1
        BY <1>2, <1>4
    <3>2. left \in Seq(Octet)
        BY <1>1, <1>2, <3>1
    <3> QED  BY <1>1, <1>2, <1>4, <3>1, <3>2, BeginningOfConcat, SMTT(30)
  <2>2. FirstArm = ReadAs(f) /\ FirstInt.val = v /\ FirstInt.rest = left
    <3> HIDE DEF f, v, p, left
    <3> QED  BY <1>1, <2>1, FirstRead
  <2> HIDE DEF k, left
  <2>3. instr.op \in {"named", "literal"}
    <3>1. rest # << >>
        BY <2>1, EmptySeq
    <3> QED  BY <3>1, WireableFields DEF StringsOf
  <2>4. FirstArm \in {"named", "unindexed"}
      BY <1>0, <2>2, <2>3 DEF ReadAs, FormOf
  <2>5. CASE instr.op = "named"
    <3>1. rest = StringOctets(s.value, instr.value) /\ instr.value \in Text /\ v # 0
        BY <2>5, WireableFields DEF StringsOf, ValueOf
    <3>2. ~ Fits(left)
        BY <1>0, <2>1, <3>1, StringCut DEF left
    <3>3. TurnAborts
        BY <2>2, <2>4, <3>1, <3>2 DEF Turn, TurnIndexed, TurnResize, TurnNamed, TurnLiteral
    <3> QED  BY <3>3 DEF TurnAborts, Spoils
  <2>6. CASE instr.op = "literal"
    <3> DEFINE a == StringOctets(s.name, instr.header.name)
               b == StringOctets(s.value, instr.header.value)
    <3>1. /\ rest = a \o b /\ v = 0
          /\ instr.header.name \in Text /\ instr.header.value \in Text
        BY <2>6, WireableFields DEF StringsOf, ValueOf
    <3>2. a \in Seq(Octet) /\ b \in Seq(Octet)
        BY <1>0, <3>1, SpellingType
    <3>3. /\ Len(a) \in Nat /\ Len(b) \in Nat /\ k \in 0 .. Len(a) + Len(b)
          /\ k < Len(a) + Len(b)
      <4>1. Len(a \o b) = Len(a) + Len(b) /\ Len(a) \in Nat /\ Len(b) \in Nat
        <5> HIDE DEF a, b
        <5> QED  BY <3>2
      <4> QED  BY <2>1, <3>1, <4>1
    <3>4. ~ Fits(left) \/ ~ Fits(AfterString(left))
      <4>1. CASE k < Len(a)
        <5>1. left = SubSeq(a, 1, k)
          <6> HIDE DEF a, b
          <6> QED  BY <3>1, <3>2, <3>3, <4>1, BeginningOfConcat DEF left
        <5>2. k \in 0 .. Len(a) - 1
            BY <3>3, <4>1
        <5> QED  BY <1>0, <3>1, <5>1, <5>2, StringCut
      <4>2. CASE k >= Len(a)
        <5> DEFINE j == k - Len(a)
        <5>1. left = a \o SubSeq(b, 1, j)
          <6>1. left = SubSeq(a \o b, 1, k)
              BY <3>1 DEF left
          <6> HIDE DEF a, b
          <6>2. SubSeq(a \o b, 1, k) = a \o SubSeq(b, 1, k - Len(a))
              BY <3>2, <3>3, <4>2, BeginningOfConcat
          <6> QED  BY <6>1, <6>2
        <5>2. j \in 0 .. Len(b) - 1
            BY <3>3, <4>2
        <5>3. SubSeq(b, 1, j) \in Seq(Octet)
          <6> HIDE DEF b, j
          <6> QED  BY <3>2, <5>2
        <5>4. AfterString(left) = SubSeq(b, 1, j)
            BY <1>0, <3>1, <5>1, <5>3, StringRead
        <5>5. ~ Fits(SubSeq(b, 1, j))
            BY <1>0, <3>1, <5>2, StringCut
        <5> QED  BY <5>4, <5>5
      <4> QED  BY <3>3, <4>1, <4>2
    <3>5. TwoStrings
        BY <2>2, <2>4, <3>1 DEF TwoStrings
    <3>6. TurnAborts
        BY <2>2, <2>4, <3>1, <3>4 DEF Turn, TurnIndexed, TurnResize, TurnNamed, TurnLiteral
    <3> QED  BY <3>6 DEF TurnAborts, Spoils
  <2> QED  BY <2>3, <2>5, <2>6
<1> QED  BY <1>2, <1>3, <1>4

\* The instruction is on the wire, in one of the forms an encoder may choose.
Spelled(instr, os) ==
    \E s \in Spelling : os = InstructionOctets(instr, s)

\* A turn on a beginning of the octets of an instruction and of what follows:
\* with all of them it carries it out, or does not understand a string; with
\* only some it spoils it.
LEMMA TurnOnBeginning ==
    ASSUME NEW instr, Wireable(instr), NEW piece \in Seq(Octet),
           NEW s \in Spelling, piece = InstructionOctets(instr, s),
           NEW rest \in Seq(Octet), NEW m \in 0 .. Len(piece) + Len(rest),
           buffer = SubSeq(piece \o rest, 1, m), Turn
    PROVE  /\ m # 0
           /\ \/ /\ m - Len(piece) \in 0 .. Len(rest)
                 /\ CarriesOut(instr)
                 /\ buffer' = SubSeq(rest, 1, m - Len(piece))
                 /\ aborted' = aborted
              \/ m >= Len(piece) /\ Overran(instr, s)
              \/ m < Len(piece) /\ Spoils(instr)
<1>1. buffer # << >>
    BY DEF Turn, TurnIndexed, TurnResize, TurnNamed, TurnLiteral, TurnAborts, Running
<1>2. m # 0 /\ Len(piece) \in Nat /\ Len(rest) \in Nat
    BY <1>1, SubSeqEmpty
<1>3. CASE m >= Len(piece)
  <2> DEFINE n == m - Len(piece)
             tail == SubSeq(rest, 1, n)
  <2>1. n \in 0 .. Len(rest)
      BY <1>2, <1>3
  <2>2. buffer = piece \o tail /\ tail \in Seq(Octet)
      BY <1>3, <2>1, BeginningOfConcat
  <2> HIDE DEF n, tail
  <2>3. \/ CarriesOut(instr) /\ buffer' = tail /\ aborted' = aborted
        \/ Overran(instr, s)
      BY <2>2, TurnOnPiece
  <2> QED  BY <1>2, <1>3, <2>1, <2>3 DEF n, tail
<1>4. CASE m < Len(piece)
  <2>1. buffer = SubSeq(piece, 1, m) /\ m \in 1 .. Len(piece) - 1
      BY <1>2, <1>4, BeginningOfConcat
  <2>2. Spoils(instr)
      BY <2>1, TurnOnCut
  <2> QED  BY <1>2, <1>4, <2>2
<1> QED  BY <1>2, <1>3, <1>4

\* A turn keeps the decoder a decoder.
LEMMA TurnType ==
    ASSUME decoded \in Seq(Entry), decTable \in Table, maxDynamicSize \in UInt,
           NEW instr, Wireable(instr), CarriesOut(instr) \/ Spoils(instr)
    PROVE  /\ decoded' \in Seq(Entry) /\ decTable' \in Table /\ maxDynamicSize' \in UInt
<1>1. decoded \in Seq(Entry) /\ decTable \in Table /\ maxDynamicSize \in UInt
      /\ decTable.table \in Seq(Entry)
    BY DEF Table
<1>2. ASSUME NEW e \in Entry, NEW push \in BOOLEAN, Deliver(e, push)
      PROVE  decoded' \in Seq(Entry) /\ decTable' \in Table /\ maxDynamicSize' \in UInt
    BY <1>1, <1>2, PushType DEF Deliver
<1>3. ASSUME NEW max \in UInt, maxDynamicSize' = max, decTable' = Shrink(decTable, max),
             decoded' = decoded
      PROVE  decoded' \in Seq(Entry) /\ decTable' \in Table /\ maxDynamicSize' \in UInt
    BY <1>1, <1>3, UIntType, ShrinkType
<1>4. \A i \in UInt : Get(decTable.table, i) \in Entry
    BY <1>1, UIntType, AnyGetType
<1>5. CASE CarriesOut(instr)
  <2>1. CASE instr.op = "indexed" /\ Deliver(Get(decTable.table, instr.index), FALSE)
    <3>1. Get(decTable.table, instr.index) \in Entry
        BY <1>4, <2>1, WireableFields
    <3> QED  BY <1>2, <2>1, <3>1
  <2>2. CASE /\ instr.op = "named"
             /\ Deliver([name |-> Get(decTable.table, instr.index).name, value |-> instr.value],
                        instr.push)
    <3> DEFINE e == [name |-> Get(decTable.table, instr.index).name, value |-> instr.value]
    <3>1. /\ instr.index \in UInt /\ instr.push \in BOOLEAN /\ instr.value \in Value
        BY <2>2, WireableFields
    <3>2. e \in Entry
        BY <1>4, <3>1 DEF Entry
    <3> QED  BY <1>2, <2>2, <3>1, <3>2
  <2>3. CASE instr.op = "literal" /\ Deliver(instr.header, instr.push)
    <3>1. instr.header \in Entry /\ instr.push \in BOOLEAN
        BY <2>3, WireableFields
    <3> QED  BY <1>2, <2>3, <3>1
  <2>4. CASE /\ instr.op = "resize"
             /\ maxDynamicSize' = instr.max
             /\ decTable' = Shrink(decTable, instr.max)
             /\ UNCHANGED decoded
    <3>1. instr.max \in UInt
        BY <2>4, WireableFields
    <3> QED  BY <1>3, <2>4, <3>1
  <2> QED  BY <1>5, <2>1, <2>2, <2>3, <2>4 DEF CarriesOut
<1>6. CASE Spoils(instr)
  <2>1. CASE UNCHANGED unpackVars
      BY <1>1, <2>1 DEF unpackVars
  <2>2. CASE \E i \in UInt : Deliver(Get(decTable.table, i), FALSE)
      BY <1>2, <1>4, <2>2
  <2>3. CASE /\ UNCHANGED decoded
             /\ \E max \in UInt : maxDynamicSize' = max /\ decTable' = Shrink(decTable, max)
      BY <1>3, <2>3
  <2> QED  BY <1>6, <2>1, <2>2, <2>3 DEF Spoils
<1> QED  BY <1>5, <1>6

-----------------------------------------------------------------------------
(* What the encoder writes.                                                *)

\* An index the encoder may write fits an unsigned.
LEMMA IndexFits ==
    ASSUME Len(StaticTable) + SizeLimit < UIntRange,
           NEW es \in Seq(Entry), Bytes(es) <= SizeLimit, NEW i \in ValidIndex(es)
    PROVE  i \in UInt /\ i \in Nat \ {0} /\ Get(es, i) \in Entry
<1>1. UInt = 0 .. UIntRange - 1
    BY WireAssumption DEF UInt
<1>2. Len(es) <= Bytes(es) /\ Bytes(es) \in Nat /\ Len(es) \in Nat
    BY EntriesTakeRoom, BytesType
<1>3. Len(StaticTable) \in Nat /\ UIntRange \in Nat /\ SizeLimit \in Nat
    BY TableAssumption, HeaderAssumption
<1>4. i \in 1 .. Len(StaticTable) + Len(es)
    BY DEF ValidIndex
<1>5. i \in UInt
    BY <1>1, <1>2, <1>3, <1>4
<1> QED  BY <1>5, GetType

\* What an instruction that has been written leaves of the encoder.
Wrote(instr) ==
    /\ Wireable(instr)
    /\ out' = Append(out, instr)
    /\ sent' \in Seq(Header)
    /\ stdTable' \in Seq(Entry)
    /\ stdMax' \in 0 .. SizeLimit
    /\ Bytes(stdTable') <= stdMax'

\* Whatever the encoder chooses, what it writes fits the wire.
LEMMA EncoderWrote ==
    ASSUME Len(StaticTable) + SizeLimit < UIntRange,
           sent \in Seq(Header), stdTable \in Seq(Entry),
           stdMax \in 0 .. SizeLimit, Bytes(stdTable) <= stdMax,
           StdNext
    PROVE  \E instr : Wrote(instr)
<1>1. /\ sent \in Seq(Header) /\ stdTable \in Seq(Entry)
      /\ stdMax \in Nat /\ SizeLimit \in Nat /\ stdMax \in 0 .. SizeLimit
      /\ Bytes(stdTable) <= stdMax /\ Bytes(stdTable) <= SizeLimit
    BY BytesType, HeaderAssumption
<1>2. ASSUME NEW h \in Header, NEW push \in BOOLEAN, MaybeInsert(push, h)
      PROVE  /\ stdTable' \in Seq(Entry) /\ stdMax' \in 0 .. SizeLimit
             /\ Bytes(stdTable') <= stdMax'
  <2>1. h \in Entry
      BY HeaderAssumption
  <2>2. Insert(stdTable, h, stdMax) \in Seq(Entry) /\ Bytes(Insert(stdTable, h, stdMax)) <= stdMax
      BY <1>1, <2>1, InsertFits
  <2> QED  BY <1>1, <1>2, <2>2 DEF MaybeInsert
<1>3. ASSUME NEW h \in Header, NEW instr, Write(h, instr)
      PROVE  sent' \in Seq(Header) /\ out' = Append(out, instr)
    BY <1>1, <1>3 DEF Write
<1>4. ASSUME NEW h \in Header, StdIndexed(h)  PROVE \E instr : Wrote(instr)
  <2>1. PICK i \in ValidIndex(stdTable) : Write(h, Indexed(i)) /\ MaybeInsert(FALSE, h)
      BY <1>4 DEF StdIndexed
  <2>2. Wireable(Indexed(i))
      BY <1>1, <2>1, IndexFits DEF Wireable, Indexed, Instruction
  <2>3. Wrote(Indexed(i))
      BY <1>2, <1>3, <2>1, <2>2 DEF Wrote
  <2> QED  BY <2>3
<1>5. ASSUME NEW h \in Header, StdNamed(h)  PROVE \E instr : Wrote(instr)
  <2>1. PICK i \in ValidIndex(stdTable), push \in BOOLEAN :
           Write(h, NamedByIndex(push, i, h.value)) /\ MaybeInsert(push, h)
      BY <1>5 DEF StdNamed
  <2>2. h.value \in Value
      BY HeaderAssumption DEF Entry
  <2>3. Wireable(NamedByIndex(push, i, h.value))
      BY <1>1, <2>1, <2>2, IndexFits DEF Wireable, NamedByIndex, Instruction
  <2>4. Wrote(NamedByIndex(push, i, h.value))
      BY <1>2, <1>3, <2>1, <2>3 DEF Wrote
  <2> QED  BY <2>4
<1>6. ASSUME NEW h \in Header, StdLiteral(h)  PROVE \E instr : Wrote(instr)
  <2>1. PICK push \in BOOLEAN : Write(h, Literal(push, h)) /\ MaybeInsert(push, h)
      BY <1>6 DEF StdLiteral
  <2>2. Wireable(Literal(push, h))
      BY HeaderAssumption DEF Wireable, Literal, Instruction
  <2>3. Wrote(Literal(push, h))
      BY <1>2, <1>3, <2>1, <2>2 DEF Wrote
  <2> QED  BY <2>3
<1>7. ASSUME NEW max \in Sizes, StdResize(max)  PROVE \E instr : Wrote(instr)
  <2>1. max \in 0 .. SizeLimit /\ max \in Nat /\ max \in 0 .. UIntRange - 1
      BY HeaderAssumption, TableAssumption
  <2>2. Wireable(Resize(max))
      BY <2>1 DEF Wireable, Resize, Instruction
  <2>3. Fit(stdTable, max) \in Seq(Entry) /\ Bytes(Fit(stdTable, max)) <= max
      BY <1>1, <2>1, FitFits
  <2>4. Wrote(Resize(max))
      BY <1>1, <1>7, <2>1, <2>2, <2>3 DEF StdResize, Wrote
  <2> QED  BY <2>4
<1> QED  BY <1>4, <1>5, <1>6, <1>7 DEF StdNext, StdEncode

-----------------------------------------------------------------------------
(* The decoder beside the encoder.                                         *)

\* The decoder has carried out all that was written before the moment m.
DecoderAt(m) ==
    /\ decoded \in Seq(Entry)
    /\ decTable \in Table
    /\ Len(decoded) = m.count
    /\ \A k \in 1 .. Len(decoded) : decoded[k] = sent[k]
    /\ Agrees(m.table, decTable.table)
    /\ Accounted(decTable)

\* What the step makes of the decoder when it is at the moment n after it.
CarriedOut(n) ==
    /\ decoded' = decoded \/ decoded' = Append(decoded, sent[Len(decoded) + 1])
    /\ decoded' \in Seq(Entry)
    /\ decTable' \in Table
    /\ Len(decoded') = n.count
    /\ \A k \in 1 .. Len(decoded') : decoded'[k] = sent'[k]
    /\ Agrees(n.table, decTable'.table)
    /\ Accounted(decTable')

\* What carries out an instruction does what the encoder meant by it.
LEMMA MeantIsDone ==
    ASSUME NEW instr, Wireable(instr), sent \in Seq(Header),
           NEW a \in MomentType, NEW b \in MomentType, b.count <= Len(sent),
           Denotes(instr, a, sent[b.count], b),
           DecoderAt(a), CarriesOut(instr), sent' = sent
    PROVE  CarriedOut(b)
<1>1. Does(instr, decoded, decTable, decoded', decTable')
  <2>1. instr.op \in {"named", "literal"} => instr.push \in BOOLEAN
      BY WireableFields
  <2> QED  BY <2>1 DEF CarriesOut, Deliver, Does, Delivers
<1>2. DecodedAt(sent, decoded, decTable, a) /\ sent \in Seq(Entry)
    BY HeaderAssumption DEF DecoderAt, DecodedAt
<1>3. /\ decoded' = decoded \/ decoded' = Append(decoded, sent[Len(decoded) + 1])
      /\ DecodedAt(sent, decoded', decTable', b)
    BY <1>1, <1>2, DoneAsMeant
<1> QED  BY <1>3 DEF DecodedAt, CarriedOut, Agrees, Accounted
=============================================================================
