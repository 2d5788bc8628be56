----------------------------- MODULE Loops_proofs -----------------------------
(***************************************************************************)
(* Proofs about four components that each run a loop of their own: the     *)
(* integer codec writes and reads integers as Octets says, for every width *)
(* and every padding; zpipe exits with success only when all was carried   *)
(* over; the searches of the tables keep to them; and the scan of the      *)
(* lines takes every header from its own line, also from what was printed. *)
(***************************************************************************)
EXTENDS IntCodec, Zpipe, TableSearch, Lines, DataLemmas

-----------------------------------------------------------------------------
(* The integer codec.                                                      *)

\* What is put above the prefix, and the groups of it that are written.
Beyond == value - MaxVal(form)
Written == Len(octets) - 1

\* Between two turns of put_vint: the groups so far are those of the value, all
\* marked, and rest is the value without them.  Only padding writes a group
\* that the value does not need.
PutInv ==
    /\ putting = "idle" => octets = << >> /\ pads = 0
    /\ putting = "vint" =>
          /\ Len(octets) >= 1 /\ octets[1] = Mark[form] + MaxVal(form)
          /\ value >= MaxVal(form)
          /\ \A k \in 1 .. Written : octets[k + 1] = ((Beyond \div Weight(k)) % More) + More
          /\ rest = Beyond \div Weight(Written + 1)
          /\ pads > 0 => rest = 0
          /\ pads = 0 /\ Written > 0 => rest > 0
          /\ Written <= MaxGroups - 1 + pads
    /\ putting = "done" =>
          /\ Spells(form, value, octets)
          /\ Written <= MaxGroups + pads
          /\ pads = 0 => octets = IntOctets(form, value)

\* j octets are read, of the m that were fed.
Stands(m, j) ==
    /\ input = SubSeq(octets, j + 1, m) \o after
    /\ IF cut THEN m < Len(octets) ELSE m = Len(octets)

\* Between two turns of get_int: got is the value of the groups read so far.
GetInv ==
    /\ putting # "done" => getting = "idle" /\ input = << >>
    /\ cut => after = << >>
    /\ getting = "idle" =>
          /\ got = 0 /\ bitpos = 0
          /\ input # << >> => \E m \in 1 .. Len(octets) : Stands(m, 0)
    /\ getting = "vint" =>
          /\ value >= MaxVal(form) /\ gotForm = ReadAs(form)
          /\ \E m \in 1 .. Len(octets) : \E j \in 1 .. m :
                /\ Stands(m, j)
                /\ bitpos = GroupBits * (j - 1)
                /\ got = Beyond % Weight(j)
                /\ ~ cut => j < m
    /\ getting = "done" =>
          IF cut THEN got <= value /\ input = << >>
          ELSE gotForm = ReadAs(form) /\ got = value /\ input = after

IntInv == IntTypeOK /\ PutInv /\ GetInv

\* What holds at the start.
LEMMA IntInvInit == IntInit => IntInv
<1> SUFFICES ASSUME IntInit  PROVE IntInv
    OBVIOUS
<1>1. 0 \in UInt /\ MaxGroups \in Nat /\ MaxPad \in Nat
    BY WidthType, MoreType, PadAssumption DEF UInt
<1>2. 0 \in {GroupBits * k : k \in 0 .. MaxGroups + MaxPad}
  <2>1. 0 \in 0 .. MaxGroups + MaxPad /\ GroupBits * 0 = 0
      BY <1>1, OctetAssumption
  <2> QED  BY <2>1
<1>3. IntTypeOK
  <2>1. bitpos \in {GroupBits * k : k \in 0 .. MaxGroups + MaxPad}
      BY <1>2 DEF IntInit
  <2>2. << >> \in Seq(Octet) /\ Len(octets) <= 1 + MaxGroups + MaxPad
      BY <1>1 DEF IntInit
  <2>3. rest \in UInt /\ value \in UInt /\ got \in UInt /\ pads \in 0 .. MaxPad
      BY <1>1 DEF IntInit
  <2> QED  BY <2>1, <2>2, <2>3 DEF IntInit, IntTypeOK, Form
<1> QED  BY <1>3 DEF IntInit, IntInv, PutInv, GetInv

-----------------------------------------------------------------------------
(* Writing.                                                                *)

\* Nothing is read while octets are written.
LEMMA WritingKeepsGet ==
    ASSUME IntInv, putting # "done", UNCHANGED getVars
    PROVE  GetInv'
BY DEF IntInv, GetInv, getVars

\* put_int() writes the first octet.
LEMMA PutIntKeeps ==
    ASSUME IntInv, NEW f \in Form, NEW v \in UInt, PutInt(f, v)
    PROVE  IntInv'
<1> DEFINE x == IF v < MaxVal(f) THEN v ELSE MaxVal(f)
<1>1. /\ putting = "idle" /\ form' = f /\ value' = v /\ pads' = pads
      /\ octets' = << Mark[f] + x >> /\ UNCHANGED getVars
    BY DEF PutInt
<1>2. v \in Nat /\ MaxVal(f) \in Nat /\ UInt \subseteq Nat
    BY FirstOctet, WidthType DEF UInt
<1>3. Mark[f] + x \in Octet
    BY <1>2, FirstOctet
<1>4. octets' \in Seq(Octet) /\ Len(octets') = 1
    BY <1>1, <1>3
<1>5. v >= MaxVal(f) => v - MaxVal(f) \in UInt
    BY <1>2, WidthType DEF UInt
<1>6. putting' \in {"vint", "done"} /\ rest' \in UInt
    BY <1>2, <1>5 DEF PutInt, IntInv, IntTypeOK
<1>7. MaxGroups \in Nat /\ MaxGroups >= 2 /\ MaxPad \in Nat /\ pads = 0
    BY <1>1, WidthType, PadAssumption DEF IntInv, PutInv
<1>8. IntTypeOK'
    BY <1>1, <1>4, <1>6, <1>7 DEF IntInv, IntTypeOK, getVars
<1>9. PutInv'
  <2>1. CASE v < MaxVal(f)
    <3>1. putting' = "done" /\ octets' = << Mark[f] + v >>
        BY <1>1, <2>1 DEF PutInt
    <3>2. Spells(f, v, octets')
        BY <1>2, <1>4, <2>1, <3>1 DEF Spells
    <3>3. octets' = IntOctets(f, v)
        BY <2>1, <3>1 DEF IntOctets
    <3>4. Written' = 0
        BY <1>4 DEF Written
    <3> QED  BY <1>1, <1>7, <3>1, <3>2, <3>3, <3>4 DEF PutInv
  <2>2. CASE v >= MaxVal(f)
    <3>1. putting' = "vint" /\ octets' = << Mark[f] + MaxVal(f) >> /\ rest' = v - MaxVal(f)
        BY <1>1, <1>2, <2>2 DEF PutInt
    <3>2. Written' = 0 /\ Beyond' = v - MaxVal(f) /\ octets'[1] = Mark[f] + MaxVal(f)
        BY <1>1, <1>4, <3>1 DEF Written, Beyond
    <3>3. rest' = Beyond' \div Weight(Written' + 1)
      <4>1. Weight(1) = 1 /\ 0 + 1 = 1
          BY WeightStep
      <4> DEFINE w == v - MaxVal(f)
      <4>2. w \in Nat
          BY <1>2, <2>2
      <4> HIDE DEF w
      <4>3. w \div 1 = w
          BY <4>2
      <4> QED  BY <3>1, <3>2, <4>1, <4>3 DEF w
    <3> QED  BY <1>1, <1>4, <1>7, <2>2, <3>1, <3>2, <3>3 DEF PutInv
  <2> QED  BY <1>2, <2>1, <2>2
<1>10. GetInv'
    BY <1>1, WritingKeepsGet
<1> QED  BY <1>8, <1>9, <1>10 DEF IntInv

\* A value that reaches a group has no more groups than unsigned.
LEMMA GroupBound ==
    ASSUME NEW w \in UInt, NEW k \in Nat \ {0}, w >= Weight(k)
    PROVE  k <= MaxGroups
<1>1. MaxGroups + 1 \in Nat \ {0} /\ Weight(k) \in Nat /\ Weight(MaxGroups + 1) \in Nat
    BY WidthType, WeightType
<1>2. ASSUME MaxGroups + 1 <= k  PROVE FALSE
  <2>1. Weight(MaxGroups + 1) <= Weight(k)
      BY <1>1, <1>2, WeightMonotone
  <2> QED  BY <1>1, <2>1, WidthType DEF UInt
<1> QED  BY <1>1, <1>2, WidthType

\* A turn of put_vint: what rest is, and what is left of the value after the
\* next group.
LEMMA TurnFacts ==
    ASSUME IntInv, putting = "vint"
    PROVE  /\ form \in Form /\ value \in UInt /\ value >= MaxVal(form)
           /\ Beyond \in UInt /\ Beyond \in Nat /\ Written \in Nat /\ rest \in Nat
           /\ octets \in Seq(Octet) /\ Len(octets) = Written + 1
           /\ rest = Beyond \div Weight(Written + 1)
           /\ rest \div More = Beyond \div Weight(Written + 2)
           /\ rest \div More \in Nat
           /\ rest \div More > 0 <=> Beyond >= Weight(Written + 2)
           /\ rest > 0 <=> Beyond >= Weight(Written + 1)
           /\ rest < More <=> Beyond < Weight(Written + 2)
           /\ Written <= MaxGroups - 1 + pads
           /\ MaxGroups \in Nat /\ MaxPad \in Nat /\ pads \in 0 .. MaxPad
<1>1. /\ form \in Form /\ value \in UInt /\ value >= MaxVal(form)
      /\ octets \in Seq(Octet) /\ Len(octets) >= 1
      /\ rest = Beyond \div Weight(Written + 1) /\ Written <= MaxGroups - 1 + pads
      /\ pads \in 0 .. MaxPad
    BY DEF IntInv, IntTypeOK, PutInv
<1>2. value \in Nat /\ MaxVal(form) \in Nat
    BY <1>1, FirstOctet, WidthType DEF UInt
<1>3. Beyond \in UInt /\ Beyond \in Nat
    BY <1>1, <1>2, WidthType DEF Beyond, UInt
<1>4. Written \in Nat /\ Len(octets) = Written + 1
    BY <1>1 DEF Written
<1> DEFINE w == Beyond
           a == Weight(Written + 1)
           b == Weight(Written + 2)
           m == More
<1>5. a \in Nat \ {0} /\ b \in Nat \ {0} /\ b = a * m /\ m \in Nat \ {0}
  <2> DEFINE k == Written + 1
  <2>1. k \in Nat /\ k > 0 /\ Written + 2 = k + 1
      BY <1>4
  <2> HIDE DEF k
  <2>2. Weight(k) \in Nat \ {0} /\ Weight(k + 1) \in Nat \ {0} /\ Weight(k + 1) = Weight(k) * More
      BY <2>1, WeightStep
  <2>3. a = Weight(k) /\ b = Weight(k + 1)
      BY <2>1 DEF k
  <2> QED  BY <2>2, <2>3, MoreType
<1>6. rest = w \div a
    BY <1>1
<1> HIDE DEF w, a, b, m
<1>7. w \in Nat
    BY <1>3 DEF w
<1>8. rest \in Nat /\ (rest = 0 <=> w < a)
    BY <1>5, <1>6, <1>7, DivZero
<1>9. rest \div m = w \div b
    BY <1>5, <1>6, <1>7, DivDiv
<1>10. rest \div m \in Nat /\ (rest \div m = 0 <=> w < b) /\ (rest \div m = 0 <=> rest < m)
    BY <1>5, <1>7, <1>8, <1>9, DivZero
<1>11. MaxGroups \in Nat /\ MaxPad \in Nat
    BY WidthType, PadAssumption
<1>12. /\ rest \div m > 0 <=> w >= b
       /\ rest > 0 <=> w >= a
       /\ rest < m <=> w < b
  <2> DEFINE q == rest \div m
  <2>1. q \in Nat /\ (q = 0 <=> w < b) /\ (q = 0 <=> rest < m)
      BY <1>10
  <2> HIDE DEF q
  <2>2. q > 0 <=> w >= b
      BY <1>5, <1>7, <2>1
  <2>3. rest > 0 <=> w >= a
      BY <1>5, <1>7, <1>8
  <2> QED  BY <2>1, <2>2, <2>3 DEF q
<1> QED  BY <1>1, <1>3, <1>4, <1>6, <1>8, <1>9, <1>10, <1>11, <1>12 DEF w, a, b, m

\* A turn of the loop and a padding group both append a marked group.
LEMMA MarkedGroupKeeps ==
    ASSUME IntInv, putting = "vint",
           octets' = Append(octets, More + (rest % More)),
           rest' = rest \div More,
           UNCHANGED << form, value, putting >>,
           \/ pads' = pads /\ rest' > 0
           \/ pads' = pads + 1 /\ rest' = 0 /\ pads < MaxPad,
           UNCHANGED getVars
    PROVE  IntInv'
<1> DEFINE n == Written
           d == rest % More
<1>1. /\ form \in Form /\ value \in UInt /\ value >= MaxVal(form)
      /\ Beyond \in UInt /\ Beyond \in Nat /\ n \in Nat /\ rest \in Nat
      /\ octets \in Seq(Octet) /\ Len(octets) = n + 1
      /\ rest = Beyond \div Weight(n + 1)
      /\ rest \div More = Beyond \div Weight(n + 2)
      /\ rest \div More \in Nat
      /\ rest \div More > 0 <=> Beyond >= Weight(n + 2)
      /\ n <= MaxGroups - 1 + pads
      /\ MaxGroups \in Nat /\ MaxPad \in Nat /\ pads \in 0 .. MaxPad
    BY TurnFacts
<1>2. /\ octets[1] = Mark[form] + MaxVal(form)
      /\ \A k \in 1 .. n : octets[k + 1] = ((Beyond \div Weight(k)) % More) + More
      /\ pads > 0 => rest = 0
    BY DEF IntInv, PutInv
<1>3. d \in 0 .. More - 1 /\ More \in Nat /\ More >= 16 /\ d = (Beyond \div Weight(n + 1)) % More
  <2>1. More \in Nat \ {0} /\ More >= 16 /\ rest \in Int
      BY <1>1, MoreType
  <2>2. rest % More \in 0 .. More - 1
      BY <2>1, ModFacts
  <2> QED  BY <1>1, <2>1, <2>2
<1>4. More + d \in Octet
    BY <1>3 DEF Octet
<1> HIDE DEF d
<1>5. /\ octets' \in Seq(Octet) /\ Len(octets') = n + 2
      /\ \A k \in 1 .. n + 1 : octets'[k] = octets[k]
      /\ octets'[n + 2] = More + d
  <2>1. octets' = Append(octets, More + d)
      BY DEF d
  <2> QED  BY <1>1, <1>4, <2>1
<1>6. Beyond' = Beyond /\ Written' = n + 1
    BY <1>1, <1>5 DEF Beyond, Written
<1>7. \A k \in 1 .. n + 1 : octets'[k + 1] = ((Beyond \div Weight(k)) % More) + More
  <2> SUFFICES ASSUME NEW k \in 1 .. n + 1
               PROVE  octets'[k + 1] = ((Beyond \div Weight(k)) % More) + More
      OBVIOUS
  <2>1. CASE k = n + 1
    <3>1. octets'[k + 1] = More + d /\ d = (Beyond \div Weight(k)) % More
        BY <1>1, <1>3, <1>5, <2>1
    <3>2. More + d = d + More
        BY <1>3
    <3> QED  BY <3>1, <3>2
  <2>2. CASE k \in 1 .. n
    <3>1. octets'[k + 1] = octets[k + 1]
        BY <1>1, <1>5, <2>2
    <3>2. octets[k + 1] = ((Beyond \div Weight(k)) % More) + More
        BY <1>2, <2>2
    <3> QED  BY <3>1, <3>2
  <2> QED  BY <1>1, <2>1, <2>2
<1>8. n + 1 <= MaxGroups - 1 + pads'
  <2>1. CASE pads' = pads /\ rest' > 0
    <3>1. n + 2 \in Nat \ {0} /\ Beyond >= Weight(n + 2)
        BY <1>1, <2>1
    <3>2. n + 2 <= MaxGroups
        BY <1>1, <3>1, GroupBound
    <3> QED  BY <1>1, <2>1, <3>2
  <2>2. CASE pads' = pads + 1
      BY <1>1, <2>2
  <2> QED  BY <2>1, <2>2
<1>9. rest' = Beyond' \div Weight(Written' + 1)
  <2>1. Written' + 1 = n + 2
      BY <1>1, <1>6
  <2> QED  BY <1>1, <1>6, <2>1
<1>10. (pads' > 0 => rest' = 0) /\ (pads' = 0 /\ Written' > 0 => rest' > 0)
  <2>1. CASE pads' = pads /\ rest' > 0
    <3>1. pads = 0
      <4>1. pads > 0 => ~ (Beyond >= Weight(n + 2))
        <5>1. ASSUME rest = 0  PROVE rest \div More = 0
            BY <1>3, <5>1
        <5> QED  BY <1>1, <1>2, <5>1
      <4>2. Beyond >= Weight(n + 2)
          BY <1>1, <2>1
      <4> QED  BY <1>1, <4>1, <4>2
    <3> QED  BY <2>1, <3>1
  <2>2. CASE pads' = pads + 1 /\ rest' = 0
      BY <1>1, <2>2
  <2> QED  BY <2>1, <2>2
<1>11. PutInv'
  <2>1. putting' = "vint" /\ form' = form /\ value' = value
      OBVIOUS
  <2>2. octets'[1] = Mark[form] + MaxVal(form) /\ Len(octets') >= 1
      BY <1>1, <1>2, <1>5
  <2>3. \A k \in 1 .. Written' : octets'[k + 1] = ((Beyond' \div Weight(k)) % More) + More
      BY <1>6, <1>7
  <2>4. Written' <= MaxGroups - 1 + pads'
      BY <1>6, <1>8
  <2> QED  BY <1>1, <1>9, <1>10, <2>1, <2>2, <2>3, <2>4 DEF PutInv
<1>12. IntTypeOK'
  <2>1. pads' \in 0 .. MaxPad
      BY <1>1
  <2>2. Len(octets') <= 1 + MaxGroups + MaxPad
      BY <1>1, <1>5, <1>8, <2>1
  <2>3. rest' \in UInt
    <3>1. rest' \in Nat /\ rest' <= rest
      <4>1. More \in Nat \ {0}
          BY <1>3
      <4> QED  BY <1>1, <4>1, QuotientBelow
    <3>2. rest \in UInt
        BY DEF IntInv, IntTypeOK
    <3> QED  BY <1>1, <3>1, <3>2, WidthType DEF UInt
  <2> QED  BY <1>5, <2>1, <2>2, <2>3 DEF IntInv, IntTypeOK, getVars
<1>13. GetInv'
    BY WritingKeepsGet
<1> QED  BY <1>11, <1>12, <1>13 DEF IntInv

\* put_vint() writes a group and goes on.
LEMMA PutVintMoreKeeps ==
    ASSUME IntInv, PutVintMore
    PROVE  IntInv'
<1>1. /\ putting = "vint" /\ rest >= More
      /\ octets' = Append(octets, More + (rest % More)) /\ rest' = rest \div More
      /\ UNCHANGED << form, value, putting, pads, getVars >>
    BY DEF PutVintMore
<1>2. rest \in Nat /\ More \in Nat \ {0} /\ rest \div More \in Nat
    BY <1>1, TurnFacts, MoreType
<1>3. rest \div More # 0
    BY <1>1, <1>2, DivZero
<1>4. rest' > 0
  <2> DEFINE q == rest \div More
  <2>1. q \in Nat /\ q # 0
      BY <1>2, <1>3
  <2> HIDE DEF q
  <2>2. q > 0
      BY <2>1
  <2> QED  BY <1>1, <2>2 DEF q
<1> QED  BY <1>1, <1>4, MarkedGroupKeeps

\* Another encoder writes a group of zeros.
LEMMA OtherPadsKeeps ==
    ASSUME IntInv, OtherPads
    PROVE  IntInv'
<1>1. /\ putting = "vint" /\ rest < More /\ pads < MaxPad
      /\ octets' = Append(octets, More + rest) /\ rest' = 0 /\ pads' = pads + 1
      /\ UNCHANGED << form, value, putting, getVars >>
    BY DEF OtherPads
<1>2. rest \in Nat /\ More \in Nat \ {0}
    BY <1>1, TurnFacts, MoreType
<1>3. rest \in 0 .. More - 1
    BY <1>1, <1>2
<1>4. rest % More = rest
    BY <1>2, <1>3, ModSmall
<1>5. rest \div More = 0
    BY <1>1, <1>2, DivZero
<1> QED  BY <1>1, <1>4, <1>5, MarkedGroupKeeps

\* put_vint() writes the last group.
LEMMA PutVintEndKeeps ==
    ASSUME IntInv, PutVintEnd
    PROVE  IntInv'
<1> DEFINE n == Written
<1>1. /\ putting = "vint" /\ rest < More /\ octets' = Append(octets, rest) /\ putting' = "done"
      /\ UNCHANGED << form, value, rest, pads, getVars >>
    BY DEF PutVintEnd
<1>2. /\ form \in Form /\ value \in UInt /\ value >= MaxVal(form)
      /\ Beyond \in UInt /\ Beyond \in Nat /\ n \in Nat /\ rest \in Nat
      /\ octets \in Seq(Octet) /\ Len(octets) = n + 1
      /\ rest = Beyond \div Weight(n + 1)
      /\ rest > 0 <=> Beyond >= Weight(n + 1)
      /\ rest < More <=> Beyond < Weight(n + 2)
      /\ n <= MaxGroups - 1 + pads
      /\ MaxGroups \in Nat /\ MaxPad \in Nat /\ pads \in 0 .. MaxPad
    BY <1>1, TurnFacts
<1>3. /\ octets[1] = Mark[form] + MaxVal(form)
      /\ \A k \in 1 .. n : octets[k + 1] = ((Beyond \div Weight(k)) % More) + More
      /\ pads = 0 /\ n > 0 => rest > 0
    BY <1>1 DEF IntInv, PutInv
<1>4. More \in Nat /\ rest \in Octet /\ rest % More = rest
  <2>1. More \in Nat \ {0} /\ rest \in 0 .. More - 1
      BY <1>1, <1>2, MoreType
  <2> QED  BY <2>1, ModSmall DEF Octet
<1>5. /\ octets' \in Seq(Octet) /\ Len(octets') = n + 2
      /\ \A k \in 1 .. n + 1 : octets'[k] = octets[k]
      /\ octets'[n + 2] = rest
    BY <1>1, <1>2, <1>4, SMTT(30)
<1>6. \A k \in 1 .. n + 1 :
        octets'[k + 1] = ((Beyond \div Weight(k)) % More) + IF k < n + 1 THEN More ELSE 0
  <2> SUFFICES ASSUME NEW k \in 1 .. n + 1
               PROVE  octets'[k + 1] = ((Beyond \div Weight(k)) % More) + IF k < n + 1 THEN More ELSE 0
      OBVIOUS
  <2>1. CASE k = n + 1
    <3>1. octets'[k + 1] = rest /\ rest = (Beyond \div Weight(k)) % More
        BY <1>2, <1>4, <1>5, <2>1
    <3>2. rest = rest + (IF k < n + 1 THEN More ELSE 0)
        BY <1>2, <2>1
    <3> QED  BY <3>1, <3>2
  <2>2. CASE k \in 1 .. n
    <3>1. octets'[k + 1] = octets[k + 1] /\ k < n + 1
        BY <1>2, <1>5, <2>2
    <3>2. octets[k + 1] = ((Beyond \div Weight(k)) % More) + More
        BY <1>3, <2>2
    <3> QED  BY <3>1, <3>2
  <2> QED  BY <1>2, <2>1, <2>2
<1>7. Spells(form, value, octets')
  <2>1. MaxVal(form) \in Nat /\ value \in Nat
      BY <1>2, FirstOctet, WidthType DEF UInt
  <2>2. Len(octets') - 1 = n + 1 /\ Len(octets') >= 1 /\ n + 1 >= 1
        /\ (n + 1) + 1 = n + 2 /\ octets'[1] = octets[1]
      BY <1>2, <1>5
  <2>3. ~ (value < MaxVal(form))
      BY <1>2, <2>1
  <2>4. Beyond < Weight((n + 1) + 1)
      BY <1>1, <1>2, <2>2
  <2> HIDE DEF n
  <2> QED  BY <1>3, <1>5, <1>6, <2>2, <2>3, <2>4 DEF Spells, Beyond
<1>8. pads = 0 => octets' = IntOctets(form, value)
  <2> SUFFICES ASSUME pads = 0  PROVE octets' = IntOctets(form, value)
      OBVIOUS
  <2>1. ASSUME Len(octets') > 2  PROVE Beyond >= Weight(Len(octets') - 1)
    <3>1. n > 0 /\ Len(octets') - 1 = n + 1
        BY <1>2, <1>5, <2>1
    <3> QED  BY <1>2, <1>3, <3>1
  <2> QED  BY <1>2, <1>7, <2>1, ShortestSpelling DEF Beyond
<1>9. PutInv'
  <2>1. Written' = n + 1
      BY <1>2, <1>5 DEF Written
  <2>2. Written' <= MaxGroups + pads'
      BY <1>1, <1>2, <2>1
  <2> QED  BY <1>1, <1>7, <1>8, <2>2 DEF PutInv
<1>10. IntTypeOK'
  <2>1. Len(octets') <= 1 + MaxGroups + MaxPad
      BY <1>2, <1>5
  <2> QED  BY <1>1, <1>5, <2>1 DEF IntInv, IntTypeOK, getVars
<1>11. GetInv'
  <2>1. getting' = "idle" /\ input' = << >> /\ got' = got /\ bitpos' = bitpos
        /\ cut' = cut /\ after' = after
      BY <1>1 DEF IntInv, GetInv, getVars
  <2> QED  BY <1>1, <2>1 DEF IntInv, GetInv, getVars
<1> QED  BY <1>9, <1>10, <1>11 DEF IntInv

-----------------------------------------------------------------------------
(* Reading.                                                                *)

\* Once put, the integer is spelled.
LEMMA PutFacts ==
    ASSUME IntInv, putting = "done"
    PROVE  /\ form \in Form /\ value \in UInt /\ value \in Nat
           /\ MaxVal(form) \in Nat /\ MaxVal(form) >= 1
           /\ Spells(form, value, octets)
           /\ octets \in Seq(Octet) /\ Len(octets) \in Nat /\ Len(octets) >= 1
           /\ Len(octets) <= 1 + MaxGroups + MaxPad
           /\ after \in Seq(Octet) /\ input \in Seq(Octet)
           /\ MaxGroups \in Nat /\ MaxPad \in Nat
<1>1. /\ form \in Form /\ value \in UInt
      /\ octets \in Seq(Octet) /\ after \in Seq(Octet) /\ input \in Seq(Octet)
      /\ Len(octets) <= 1 + MaxGroups + MaxPad
      /\ Spells(form, value, octets)
    BY DEF IntInv, IntTypeOK, PutInv
<1>2. Len(octets) \in Nat /\ Len(octets) >= 1
    BY <1>1 DEF Spells
<1>3. value \in Nat /\ MaxVal(form) \in Nat /\ MaxVal(form) >= 1
    BY <1>1, FirstOctet, WidthType DEF UInt
<1> QED  BY <1>1, <1>2, <1>3, WidthType, PadAssumption

\* Writing is over while octets are read.
LEMMA ReadingKeepsPut ==
    ASSUME IntInv, UNCHANGED putVars
    PROVE  PutInv'
BY DEF IntInv, PutInv, putVars, Written, Beyond

\* The decoder is given the octets, all of them or some.
LEMMA FeedKeeps ==
    ASSUME IntInv, Feed
    PROVE  IntInv'
<1>1. /\ putting = "done" /\ getting = "idle"
      /\ UNCHANGED << putVars, gotForm, got, bitpos, getting >>
    BY DEF Feed
<1>2. /\ octets \in Seq(Octet) /\ Len(octets) \in Nat /\ Len(octets) >= 1
      /\ form' = form /\ value' = value /\ octets' = octets /\ putting' = putting
    BY <1>1, PutFacts DEF putVars
<1>3. \E m \in 1 .. Len(octets) :
        /\ input' = SubSeq(octets, 1, m) \o after' /\ input' \in Seq(Octet) /\ after' \in Seq(Octet)
        /\ cut' \in BOOLEAN
        /\ IF cut' THEN m < Len(octets) /\ after' = << >> ELSE m = Len(octets)
  <2>1. ASSUME NEW t \in {<< >>, << 0 >>, << 2 * More - 1 >>},
               input' = octets \o t, after' = t, cut' = FALSE
        PROVE  /\ input' = SubSeq(octets, 1, Len(octets)) \o after' /\ Len(octets) \in 1 .. Len(octets)
               /\ input' \in Seq(Octet) /\ after' \in Seq(Octet)
    <3>1. t \in Seq(Octet)
      <4> DEFINE o == 2 * More - 1
      <4>1. 0 \in Octet /\ o \in Octet
          BY MoreType DEF Octet
      <4> HIDE DEF o
      <4>2. << >> \in Seq(Octet) /\ << 0 >> \in Seq(Octet) /\ << o >> \in Seq(Octet)
          BY <4>1
      <4> QED  BY <4>2, Zenon DEF o
    <3>2. SubSeq(octets, 1, Len(octets)) = octets
        BY <1>2, SubSeqFull
    <3> QED  BY <1>2, <2>1, <3>1, <3>2
  <2>2. ASSUME NEW k \in 1 .. Len(octets) - 1,
               input' = SubSeq(octets, 1, k), after' = << >>, cut' = TRUE
        PROVE  /\ input' = SubSeq(octets, 1, k) \o after' /\ k \in 1 .. Len(octets) /\ k < Len(octets)
               /\ input' \in Seq(Octet) /\ after' \in Seq(Octet)
    <3>1. SubSeq(octets, 1, k) \in Seq(Octet)
        BY <1>2
    <3> QED  BY <1>2, <2>2, <3>1
  <2>3. \/ \E t \in {<< >>, << 0 >>, << 2 * More - 1 >>} :
              input' = octets \o t /\ after' = t /\ cut' = FALSE
        \/ \E k \in 1 .. Len(octets) - 1 :
              input' = SubSeq(octets, 1, k) /\ after' = << >> /\ cut' = TRUE
      BY DEF Feed
  <2>4. CASE \E t \in {<< >>, << 0 >>, << 2 * More - 1 >>} :
              input' = octets \o t /\ after' = t /\ cut' = FALSE
      BY <2>1, <2>4
  <2>5. CASE \E k \in 1 .. Len(octets) - 1 :
              input' = SubSeq(octets, 1, k) /\ after' = << >> /\ cut' = TRUE
      BY <2>2, <2>5
  <2> QED  BY <2>3, <2>4, <2>5
<1>4. IntTypeOK'
    BY <1>1, <1>3 DEF IntInv, IntTypeOK, putVars
<1>5. GetInv'
  <2>1. got' = 0 /\ bitpos' = 0 /\ getting' = "idle" /\ putting' = "done"
      BY <1>1, <1>2 DEF IntInv, GetInv
  <2>2. \E m \in 1 .. Len(octets') : Stands(m, 0)'
      BY <1>2, <1>3 DEF Stands
  <2>3. cut' => after' = << >>
      BY <1>3
  <2> QED  BY <2>1, <2>2, <2>3 DEF GetInv
<1> QED  BY <1>1, <1>4, <1>5, ReadingKeepsPut DEF IntInv

\* The next octet of what is left to read.
LEMMA StandsNext ==
    ASSUME NEW os \in Seq(Octet), NEW t \in Seq(Octet), NEW m \in 1 .. Len(os), NEW j \in 0 .. m - 1
    PROVE  LET s == SubSeq(os, j + 1, m) \o t
           IN  /\ s # << >> /\ Head(s) = os[j + 1]
               /\ Tail(s) = SubSeq(os, j + 2, m) \o t
<1> DEFINE a == SubSeq(os, j + 1, m)
           b == SubSeq(os, j + 2, m)
           i == j + 1
<1>1. i \in 1 .. Len(os) /\ m \in i .. Len(os) /\ i + 1 = j + 2 /\ m \in Int /\ j \in Int
    BY LenProperties
<1>2. Head(a) = os[i] /\ Tail(a) = b
  <2>1. Head(SubSeq(os, i, m)) = os[i] /\ Tail(SubSeq(os, i, m)) = SubSeq(os, i + 1, m)
    <3> HIDE DEF i
    <3> QED  BY <1>1, HeadTailOfSubSeq
  <2> QED  BY <1>1, <2>1
<1>3. a \in Seq(Octet) /\ Len(a) = m - j
  <2>1. \A k \in j + 1 .. m : os[k] \in Octet
      BY <1>1
  <2>2. a \in Seq(Octet) /\ Len(a) = IF j + 1 <= m THEN m - (j + 1) + 1 ELSE 0
      BY <1>1, <2>1, SubSeqProperties
  <2>3. j + 1 <= m /\ m - (j + 1) + 1 = m - j
      BY <1>1
  <2> QED  BY <2>2, <2>3
<1>4. a # << >> /\ Len(a) >= 1
    BY <1>1, <1>3
<1> HIDE DEF a, b
<1>5. a \o t # << >> /\ Head(a \o t) = Head(a) /\ Tail(a \o t) = Tail(a) \o t
  <2>1. a \o t \in Seq(Octet) /\ Len(a \o t) = Len(a) + Len(t) /\ a \o t # << >>
      BY <1>3, <1>4
  <2>2. Head(a \o t) = Head(a)
      BY <1>3, <1>4
  <2>3. Tail(a \o t) = Tail(a) \o t
      BY <1>3, <1>4
  <2> QED  BY <2>1, <2>2, <2>3
<1> QED  BY <1>2, <1>5 DEF a, b

\* get_int() reads the first octet.
LEMMA GetIntKeeps ==
    ASSUME IntInv, GetInt
    PROVE  IntInv'
<1>1. /\ getting = "idle" /\ input # << >> /\ input' = Tail(input)
      /\ gotForm' = Arm(Head(input))
      /\ UNCHANGED << putVars, after, cut, bitpos >>
    BY DEF GetInt
<1>2. putting = "done" /\ bitpos = 0 /\ (cut => after = << >>)
    BY <1>1 DEF IntInv, GetInv
<1>3. /\ form \in Form /\ value \in UInt /\ value \in Nat
      /\ MaxVal(form) \in Nat /\ MaxVal(form) >= 1
      /\ Spells(form, value, octets)
      /\ octets \in Seq(Octet) /\ Len(octets) \in Nat /\ Len(octets) >= 1
      /\ after \in Seq(Octet) /\ input \in Seq(Octet)
    BY <1>2, PutFacts
<1>4. PICK m \in 1 .. Len(octets) : Stands(m, 0)
    BY <1>1 DEF IntInv, GetInv
<1>5. Head(input) = octets[1] /\ input' = SubSeq(octets, 2, m) \o after
  <2>1. 0 \in 0 .. m - 1
      BY <1>3
  <2>2. input = SubSeq(octets, 0 + 1, m) \o after
      BY <1>4 DEF Stands
  <2>3. Head(SubSeq(octets, 0 + 1, m) \o after) = octets[0 + 1]
        /\ Tail(SubSeq(octets, 0 + 1, m) \o after) = SubSeq(octets, 0 + 2, m) \o after
      BY <1>3, <2>1, StandsNext
  <2> QED  BY <1>1, <2>2, <2>3
<1>6. /\ gotForm' = ReadAs(form) /\ MaxVal(gotForm') = MaxVal(form)
      /\ Head(input) % (MaxVal(gotForm') + 1) = IF value < MaxVal(form) THEN value ELSE MaxVal(form)
  <2>1. Arm(octets[1]) = ReadAs(form)
      BY <1>3, SpelledHead
  <2>2. octets[1] % (MaxVal(form) + 1) = IF value < MaxVal(form) THEN value ELSE MaxVal(form)
      BY <1>3, SpelledHead
  <2>3. MaxVal(ReadAs(form)) = MaxVal(form)
      BY <1>3, FirstOctet
  <2> QED  BY <1>1, <1>5, <2>1, <2>2, <2>3
<1>7. gotForm' \in Form \ {"never"}
    BY <1>3, <1>6 DEF ReadAs, Form
<1>8. UNCHANGED << form, value, octets, putting, after, cut, bitpos >>
    BY <1>1 DEF putVars
<1>9. CASE value < MaxVal(form)
  <2>1. got' = value /\ getting' = "done"
      BY <1>3, <1>6, <1>9 DEF GetInt
  <2>2. Len(octets) = 1
      BY <1>3, <1>9 DEF Spells
  <2>3. ~ cut
      BY <1>4, <2>2 DEF Stands
  <2>4. input' = after
    <3>1. m = 1
        BY <1>3, <2>2
    <3>2. SubSeq(octets, 2, 1) = << >>
        BY <1>3
    <3> QED  BY <1>3, <1>5, <3>1, <3>2
  <2>5. GetInv'
      BY <1>2, <1>6, <1>8, <2>1, <2>3, <2>4 DEF GetInv
  <2>6. IntTypeOK'
      BY <1>1, <1>3, <1>7, <2>1, <2>4 DEF IntInv, IntTypeOK, putVars
  <2> QED  BY <1>1, <2>5, <2>6, ReadingKeepsPut DEF IntInv
<1>10. CASE value >= MaxVal(form)
  <2>1. got' = 0 /\ getting' = "vint"
      BY <1>3, <1>6, <1>10 DEF GetInt
  <2>2. Beyond \in Nat /\ Beyond % Weight(1) = 0 /\ GroupBits * (1 - 1) = 0
    <3> DEFINE w == Beyond
    <3>1. w \in Nat
        BY <1>3, <1>10 DEF Beyond
    <3> HIDE DEF w
    <3>2. w % 1 = 0
        BY <3>1
    <3>3. Weight(1) = 1
        BY WeightStep
    <3> QED  BY <3>1, <3>2, <3>3, OctetAssumption DEF w
  <2>3. Len(octets) - 1 >= 1
      BY <1>3, <1>10 DEF Spells
  <2>4. Stands(m, 1)' /\ (~ cut => 1 < m) /\ 1 \in 1 .. m
    <3>1. IF cut THEN m < Len(octets) ELSE m = Len(octets)
        BY <1>4 DEF Stands
    <3>2. Stands(m, 1)'
        BY <1>5, <1>8, <3>1 DEF Stands
    <3> QED  BY <1>3, <2>3, <3>1, <3>2
  <2>5. GetInv'
    <3>1. \E j \in 1 .. m :
            /\ Stands(m, j)'
            /\ bitpos' = GroupBits * (j - 1)
            /\ got' = Beyond' % Weight(j)
            /\ ~ cut' => j < m
      <4>1. Beyond' = Beyond
          BY <1>8 DEF Beyond
      <4> QED  BY <1>2, <1>8, <2>1, <2>2, <2>4, <4>1
    <3> QED  BY <1>2, <1>3, <1>6, <1>8, <1>10, <2>1, <3>1 DEF GetInv
  <2>6. IntTypeOK'
    <3>1. 0 \in UInt
        BY WidthType, MoreType DEF UInt
    <3>2. input' \in Seq(Octet)
        BY <1>1, <1>3
    <3> QED  BY <1>1, <1>7, <2>1, <3>1, <3>2 DEF IntInv, IntTypeOK, putVars
  <2> QED  BY <1>1, <2>5, <2>6, ReadingKeepsPut DEF IntInv
<1> QED  BY <1>3, <1>9, <1>10

\* A group of the value that is read is shifted to where it belongs, and at
\* the width or beyond, where a shift is undefined, there is nothing to shift.
LEMMA ShiftedIs ==
    ASSUME NEW w \in UInt, NEW j \in Nat \ {0}, NEW b,
           b % More = (w \div Weight(j)) % More,
           bitpos = GroupBits * (j - 1),
           NEW s \in Shifted(b)
    PROVE  /\ s \in Nat
           /\ (w % Weight(j)) + s = w % Weight(j + 1)
<1> DEFINE p == Weight(j)
           q == w \div p
           d == q % More
           u == 2 ^ UIntBits
           x == w % p
<1>1. /\ w \in Nat /\ p \in Nat \ {0} /\ More \in Nat \ {0} /\ u \in Nat \ {0} /\ w < u
      /\ Weight(j + 1) = p * More
      /\ 2 ^ bitpos = p
  <2>1. Weight(j + 1) = p * More /\ p \in Nat \ {0}
      BY WeightStep
  <2>2. 2 ^ bitpos = p
      BY DEF Weight
  <2> QED  BY <2>1, <2>2, WidthType, MoreType DEF UInt
<1>2. b % More = d
    OBVIOUS
<1> HIDE DEF p, u
<1>3. q \in Nat
    BY <1>1, DivZero
<1>4. d \in Nat /\ d <= q
  <2> HIDE DEF q
  <2> QED  BY <1>1, <1>3, RemainderBelow
<1>5. x \in Nat /\ w = p * q + x /\ p * q \in Nat
  <2>1. w \in Int /\ p \in Nat \ {0}
      BY <1>1
  <2>2. x \in 0 .. p - 1 /\ w = p * q + x
      BY <2>1, ModFacts
  <2> HIDE DEF q, x
  <2> QED  BY <1>1, <1>3, <2>2
<1>6. w % Weight(j + 1) = x + p * d
  <2>1. w \in Nat /\ p \in Nat \ {0} /\ More \in Nat \ {0}
      BY <1>1
  <2>2. w % (p * More) = x + p * d
      BY <2>1, ModOfProduct, Zenon
  <2> QED  BY <1>1, <2>2, Zenon
<1> HIDE DEF q, d, x
<1>7. p * d \in Nat /\ p * d <= p * q /\ p * d < u /\ d * p = p * d
  <2>1. p * d \in Nat /\ d * p = p * d
      BY <1>1, <1>4
  <2>2. p * d <= p * q
    <3>1. q - d \in Nat
        BY <1>3, <1>4
    <3>2. p * (q - d) \in Nat /\ p * (q - d) = p * q - p * d
        BY <1>1, <1>3, <1>4, <3>1
    <3> QED  BY <1>5, <2>1, <3>2
  <2> QED  BY <1>1, <1>5, <2>1, <2>2
<1>8. s = p * d
  <2>1. CASE bitpos < UIntBits
    <3>1. s = (d * p) % u
        BY <1>1, <1>2, <2>1 DEF Shifted, u
    <3> DEFINE y == p * d
    <3>2. y \in 0 .. u - 1
        BY <1>1, <1>7
    <3>3. s = y % u
        BY <1>7, <3>1
    <3> HIDE DEF y
    <3>4. y % u = y
        BY <1>1, <3>2, ModSmall
    <3> QED  BY <3>3, <3>4 DEF y
  <2>2. CASE ~ (bitpos < UIntBits)
    <3>1. s = 0 \/ s = (d * 2 ^ (bitpos % UIntBits)) % u
        BY <1>2, <2>2 DEF Shifted, u
    <3>2. UIntBits \in Nat \ {0} /\ bitpos \in Nat /\ UIntBits <= bitpos
      <4>1. UIntBits \in Nat /\ UIntBits # 0 /\ GroupBits \in Nat /\ j - 1 \in Nat
          BY OctetAssumption
      <4>2. bitpos \in Nat
          BY <4>1
      <4> QED  BY <2>2, <4>1, <4>2
    <3>3. u <= p
      <4>1. 2 ^ UIntBits <= 2 ^ bitpos
          BY <3>2, PowerMonotone
      <4> QED  BY <1>1, <4>1 DEF u
    <3>4. d = 0
      <4>1. w < p
          BY <1>1, <3>3
      <4>2. q = 0
          BY <1>1, <4>1, DivZero DEF q
      <4> QED  BY <1>4, <4>2
    <3>5. (d * 2 ^ (bitpos % UIntBits)) % u = 0
      <4> DEFINE z == 2 ^ (bitpos % UIntBits)
      <4>1. z \in Int
          BY <3>2
      <4> HIDE DEF z
      <4>2. 0 * z = 0
          BY <4>1
      <4>3. 0 % u = 0
          BY <1>1, ModSmall
      <4> QED  BY <3>4, <4>2, <4>3 DEF z
    <3>6. p * d = 0
        BY <1>1, <3>4
    <3> QED  BY <3>1, <3>5, <3>6
  <2> QED  BY <2>1, <2>2
<1> QED  BY <1>6, <1>7, <1>8 DEF x, p

\* get_int() reads a group.
LEMMA GetVintKeeps ==
    ASSUME IntInv, GetVint
    PROVE  IntInv'
<1>1. /\ getting = "vint" /\ input # << >> /\ input' = Tail(input)
      /\ bitpos' = bitpos + GroupBits
      /\ getting' = IF Head(input) < More THEN "done" ELSE "vint"
      /\ UNCHANGED << putVars, after, cut, gotForm >>
    BY DEF GetVint
<1>2. /\ putting = "done" /\ (cut => after = << >>)
      /\ value >= MaxVal(form) /\ gotForm = ReadAs(form)
    BY <1>1 DEF IntInv, GetInv
<1>3. /\ form \in Form /\ value \in UInt /\ value \in Nat
      /\ MaxVal(form) \in Nat /\ MaxVal(form) >= 1
      /\ Spells(form, value, octets)
      /\ octets \in Seq(Octet) /\ Len(octets) \in Nat /\ Len(octets) >= 1
      /\ Len(octets) <= 1 + MaxGroups + MaxPad
      /\ after \in Seq(Octet) /\ input \in Seq(Octet)
      /\ MaxGroups \in Nat /\ MaxPad \in Nat
    BY <1>2, PutFacts
<1>4. PICK m \in 1 .. Len(octets) : \E j \in 1 .. m :
        /\ Stands(m, j)
        /\ bitpos = GroupBits * (j - 1)
        /\ got = Beyond % Weight(j)
        /\ ~ cut => j < m
    BY <1>1 DEF IntInv, GetInv
<1>5. PICK j \in 1 .. m :
        /\ Stands(m, j)
        /\ bitpos = GroupBits * (j - 1)
        /\ got = Beyond % Weight(j)
        /\ ~ cut => j < m
    BY <1>4
<1>6. m \in Nat /\ j \in Nat \ {0} /\ j < m
  <2>1. m \in Nat /\ j \in Nat \ {0} /\ j <= m
      BY <1>3
  <2>2. ASSUME cut, j = m  PROVE FALSE
    <3>1. input = SubSeq(octets, m + 1, m) \o << >>
        BY <1>2, <1>5, <2>2 DEF Stands
    <3>2. SubSeq(octets, m + 1, m) = << >>
        BY <2>1, SubSeqEmpty
    <3> QED  BY <1>1, <3>1, <3>2
  <2> QED  BY <1>5, <2>1, <2>2
<1> DEFINE w == Beyond
           b == octets[j + 1]
           n == Len(octets) - 1
           x == w % Weight(j + 1)
<1>7. Head(input) = b /\ input' = SubSeq(octets, j + 2, m) \o after
  <2>1. j \in 0 .. m - 1
      BY <1>6
  <2>2. LET s == SubSeq(octets, j + 1, m) \o after
        IN  Head(s) = octets[j + 1] /\ Tail(s) = SubSeq(octets, j + 2, m) \o after
      BY <1>3, <2>1, StandsNext
  <2> QED  BY <1>1, <1>5, <2>2 DEF Stands
<1>8. /\ w \in UInt /\ w \in Nat /\ w + MaxVal(form) = value /\ n \in Nat /\ w < Weight(n + 1)
      /\ b \in Octet /\ b % More = (w \div Weight(j)) % More
      /\ b >= More <=> j < n
      /\ j <= n
  <2>1. w \in UInt /\ w \in Nat /\ w + MaxVal(form) = value
      BY <1>2, <1>3, WidthType DEF Beyond, UInt
  <2>2. j \in 1 .. n
      BY <1>3, <1>6
  <2> QED  BY <1>2, <1>3, <2>1, <2>2, SpelledGroups DEF Beyond
<1> HIDE DEF w, b
<1>9. PICK s \in Shifted(b) :
        got' = (got + s + IF b < More THEN MaxVal(gotForm) ELSE 0) % 2 ^ UIntBits
    BY <1>7 DEF GetVint
<1>10. got + s = x /\ MaxVal(gotForm) = MaxVal(form)
  <2>1. (w % Weight(j)) + s = w % Weight(j + 1)
      BY <1>5, <1>6, <1>8, ShiftedIs
  <2> QED  BY <1>2, <1>3, <1>5, <2>1, FirstOctet DEF w
<1>11. x \in Nat /\ x <= w
  <2>1. Weight(j + 1) \in Nat \ {0}
      BY <1>6, WeightType
  <2> QED  BY <1>8, <2>1, RemainderBelow
<1>12. UNCHANGED << form, value, octets, putting, after, cut, gotForm >> /\ Beyond' = Beyond
    BY <1>1 DEF putVars, Beyond
<1>13. input' \in Seq(Octet)
    BY <1>1, <1>3
<1>14. bitpos' = GroupBits * ((j + 1) - 1)
    BY <1>1, <1>5, <1>6, OctetAssumption
<1>15. bitpos' \in {GroupBits * k : k \in 0 .. MaxGroups + MaxPad}
  <2>1. j \in 0 .. MaxGroups + MaxPad /\ (j + 1) - 1 = j
      BY <1>3, <1>6
  <2>2. bitpos' = GroupBits * j
      BY <1>14, <2>1
  <2> QED  BY <2>1, <2>2
<1>16. got' = (x + IF b < More THEN MaxVal(form) ELSE 0) % 2 ^ UIntBits
    BY <1>9, <1>10
<1>17. \A y \in UInt : y % 2 ^ UIntBits = y
  <2> DEFINE u == 2 ^ UIntBits
  <2>1. u \in Nat \ {0} /\ UInt = 0 .. u - 1
      BY WidthType, MoreType DEF UInt
  <2> HIDE DEF u
  <2>2. \A y \in 0 .. u - 1 : y % u = y
      BY <2>1, ModSmall
  <2> QED  BY <2>1, <2>2 DEF u
<1> HIDE DEF x
<1>18. CASE b < More
  <2>1. ~ (b >= More)
      BY <1>8, <1>18, OctetType, MoreType
  <2>2. j = n /\ m = Len(octets)
      BY <1>3, <1>6, <1>8, <2>1
  <2>3. ~ cut
      BY <1>5, <2>2 DEF Stands
  <2>4. x = w
    <3>1. w \in 0 .. Weight(n + 1) - 1 /\ Weight(n + 1) \in Nat \ {0}
      <4>1. Weight(n + 1) \in Nat \ {0}
          BY <1>8, WeightType
      <4> QED  BY <1>8, <4>1
    <3> QED  BY <2>2, <3>1, ModSmall DEF x
  <2>5. got' = value
    <3>1. w + MaxVal(form) = value /\ value % 2 ^ UIntBits = value
        BY <1>3, <1>8, <1>17
    <3> QED  BY <1>16, <1>18, <2>4, <3>1
  <2>6. input' = after
    <3>1. SubSeq(octets, j + 2, m) = << >>
        BY <1>6, <2>2, SubSeqEmpty
    <3>2. << >> \o after = after
        BY <1>3, ConcatEmptySeq
    <3> QED  BY <1>7, <3>1, <3>2
  <2>7. getting' = "done"
      BY <1>1, <1>7, <1>18
  <2>8. GetInv'
      BY <1>2, <1>12, <2>3, <2>5, <2>6, <2>7 DEF GetInv
  <2>9. IntTypeOK'
      BY <1>1, <1>3, <1>13, <1>15, <2>5, <2>7 DEF IntInv, IntTypeOK, putVars
  <2> QED  BY <1>1, <2>8, <2>9, ReadingKeepsPut DEF IntInv
<1>19. CASE ~ (b < More)
  <2>1. b >= More
      BY <1>8, <1>19, OctetType, MoreType
  <2>2. j < n
      BY <1>8, <2>1
  <2>3. got' = x /\ x \in UInt
    <3>1. x \in UInt /\ x + 0 = x
        BY <1>8, <1>11, WidthType DEF UInt
    <3> QED  BY <1>16, <1>17, <1>19, <3>1
  <2>4. getting' = "vint"
      BY <1>1, <1>7, <1>19
  <2>5. Stands(m, j + 1)' /\ (~ cut => j + 1 < m) /\ j + 1 \in 1 .. m
    <3>1. IF cut THEN m < Len(octets) ELSE m = Len(octets)
        BY <1>5 DEF Stands
    <3>2. (j + 1) + 1 = j + 2
        BY <1>6
    <3>3. Stands(m, j + 1)'
        BY <1>7, <1>12, <3>1, <3>2 DEF Stands
    <3> QED  BY <1>3, <1>6, <2>2, <3>1, <3>3
  <2>6. GetInv'
    <3>1. \E k \in 1 .. m :
            /\ Stands(m, k)'
            /\ bitpos' = GroupBits * (k - 1)
            /\ got' = Beyond' % Weight(k)
            /\ ~ cut' => k < m
        BY <1>12, <1>14, <2>3, <2>5 DEF x, w
    <3> QED  BY <1>2, <1>12, <2>4, <3>1 DEF GetInv
  <2>7. IntTypeOK'
      BY <1>1, <1>13, <1>15, <2>3, <2>4 DEF IntInv, IntTypeOK, putVars
  <2> QED  BY <1>1, <2>6, <2>7, ReadingKeepsPut DEF IntInv
<1> QED  BY <1>18, <1>19

\* get_int() finds the end of the input instead of a group.
LEMMA GetVintCutKeeps ==
    ASSUME IntInv, GetVintCut
    PROVE  IntInv'
<1>1. /\ getting = "vint" /\ input = << >>
      /\ got' = (got + MaxVal(gotForm)) % 2 ^ UIntBits /\ getting' = "done"
      /\ UNCHANGED << putVars, input, after, cut, gotForm, bitpos >>
    BY DEF GetVintCut
<1>2. /\ putting = "done" /\ (cut => after = << >>)
      /\ value >= MaxVal(form) /\ gotForm = ReadAs(form)
    BY <1>1 DEF IntInv, GetInv
<1>3. /\ form \in Form /\ value \in UInt /\ value \in Nat
      /\ MaxVal(form) \in Nat /\ MaxVal(gotForm) = MaxVal(form)
      /\ octets \in Seq(Octet) /\ Len(octets) \in Nat
      /\ after \in Seq(Octet)
    BY <1>2, PutFacts, FirstOctet
<1>4. PICK m \in 1 .. Len(octets) : \E j \in 1 .. m :
        /\ Stands(m, j)
        /\ bitpos = GroupBits * (j - 1)
        /\ got = Beyond % Weight(j)
        /\ ~ cut => j < m
    BY <1>1 DEF IntInv, GetInv
<1>5. PICK j \in 1 .. m :
        /\ Stands(m, j)
        /\ got = Beyond % Weight(j)
        /\ ~ cut => j < m
    BY <1>4
<1>6. cut
  <2> SUFFICES ASSUME ~ cut  PROVE FALSE
      OBVIOUS
  <2>1. j \in 0 .. m - 1
      BY <1>3, <1>5
  <2>2. SubSeq(octets, j + 1, m) \o after # << >>
      BY <1>3, <2>1, StandsNext
  <2> QED  BY <1>1, <1>5, <2>2 DEF Stands
<1>7. Beyond \in Nat /\ Beyond + MaxVal(form) = value
    BY <1>2, <1>3 DEF Beyond
<1>8. got \in Nat /\ got <= Beyond
  <2>1. Weight(j) \in Nat \ {0}
      BY <1>3, WeightType
  <2> QED  BY <1>5, <1>7, <2>1, RemainderBelow
<1> DEFINE x == got + MaxVal(form)
           u == 2 ^ UIntBits
<1>9. u \in Nat \ {0} /\ UInt = 0 .. u - 1
    BY WidthType, MoreType DEF UInt
<1>10. x \in Nat /\ x <= value
    BY <1>3, <1>7, <1>8
<1> HIDE DEF u
<1>11. got' = x % u
    BY <1>1, <1>3 DEF u
<1> HIDE DEF x
<1>12. x \in 0 .. u - 1
    BY <1>3, <1>9, <1>10
<1>13. got' = x
    BY <1>9, <1>11, <1>12, ModSmall
<1>14. GetInv'
  <2>1. cut' /\ putting' = "done" /\ getting' = "done" /\ input' = << >> /\ after' = after
        /\ value' = value
      BY <1>1, <1>2, <1>6 DEF putVars
  <2> QED  BY <1>2, <1>6, <1>10, <1>13, <2>1 DEF GetInv
<1>15. IntTypeOK'
  <2>1. got' \in UInt
      BY <1>9, <1>12, <1>13
  <2> QED  BY <1>1, <2>1 DEF IntInv, IntTypeOK, putVars
<1> QED  BY <1>1, <1>14, <1>15, ReadingKeepsPut DEF IntInv

-----------------------------------------------------------------------------
(* The codec as a whole.                                                   *)

\* IntInv is inductive.
LEMMA IntInvStep == IntInv /\ [IntNext]_intVars => IntInv'
<1> SUFFICES ASSUME IntInv, [IntNext]_intVars  PROVE IntInv'
    OBVIOUS
<1>1. CASE \E f \in Form : \E v \in UInt : PutInt(f, v)
    BY <1>1, PutIntKeeps
<1>2. CASE PutVintMore
    BY <1>2, PutVintMoreKeeps
<1>3. CASE PutVintEnd
    BY <1>3, PutVintEndKeeps
<1>4. CASE OtherPads
    BY <1>4, OtherPadsKeeps
<1>5. CASE Feed
    BY <1>5, FeedKeeps
<1>6. CASE GetInt
    BY <1>6, GetIntKeeps
<1>7. CASE GetVint
    BY <1>7, GetVintKeeps
<1>8. CASE GetVintCut
    BY <1>8, GetVintCutKeeps
<1>9. CASE UNCHANGED intVars
    BY <1>9, ZenonT(30) DEF IntInv, IntTypeOK, PutInv, GetInv, Stands, Written, Beyond, intVars, putVars, getVars
<1> QED
    BY <1>1, <1>2, <1>3, <1>4, <1>5, <1>6, <1>7, <1>8, <1>9 DEF IntNext, Returned

\* The inductive invariant gives the four invariants.
LEMMA IntInvGives == IntInv => IntTypeOK /\ IntegerRoundTrip /\ LoopsComputeOctets /\ CutFallsShort
<1> SUFFICES ASSUME IntInv
             PROVE  IntTypeOK /\ IntegerRoundTrip /\ LoopsComputeOctets /\ CutFallsShort
    OBVIOUS
<1>1. IntTypeOK
    BY DEF IntInv
<1>2. IntegerRoundTrip
  <2> SUFFICES ASSUME getting = "done", ~ cut
               PROVE  /\ gotForm = IF form = "never" THEN "unindexed" ELSE form
                      /\ got = value /\ input = after
      BY DEF IntegerRoundTrip
  <2>1. gotForm = ReadAs(form) /\ got = value /\ input = after
      BY DEF IntInv, GetInv
  <2>2. ReadAs(form) = IF form = "never" THEN "unindexed" ELSE form
      BY <1>1 DEF ReadAs, IntTypeOK, Form
  <2> QED  BY <2>1, <2>2
<1>3. LoopsComputeOctets
  <2>1. (putting = "done" /\ pads = 0) => octets = IntOctets(form, value)
      BY DEF IntInv, PutInv
  <2>2. ASSUME getting = "done", ~ cut
        PROVE  ReadInt(gotForm, octets \o after) = [val |-> got, rest |-> input]
    <3>1. putting = "done" /\ gotForm = ReadAs(form) /\ got = value /\ input = after
        BY <2>2 DEF IntInv, GetInv
    <3>2. form \in Form /\ value \in UInt /\ Spells(form, value, octets) /\ after \in Seq(Octet)
        BY <3>1, PutFacts
    <3> QED  BY <3>1, <3>2, ReadSpelled
  <2> QED  BY <2>1, <2>2 DEF LoopsComputeOctets
<1>4. CutFallsShort
    BY DEF CutFallsShort, IntInv, GetInv
<1> QED  BY <1>1, <1>2, <1>3, <1>4

\* IntInv holds in every state.
LEMMA IntInvHolds == IntSpec => []IntInv
BY IntInvInit, IntInvStep, PTL DEF IntSpec

\* Every variable keeps its type: the octets written are no more than the
\* groups of unsigned and the padding (hpack.cc:16-34, unpack.h:62-80).
THEOREM IntTyped == IntSpec => []IntTypeOK
BY IntInvHolds, IntInvGives, PTL

\* Every integer, in every form, with any padding, is read as it was put, and
\* the decoder stands at the octet that follows (hpack.cc:16-34,
\* unpack.h:62-80, 121-138).
THEOREM IntegersRoundTrip == IntSpec => []IntegerRoundTrip
BY IntInvHolds, IntInvGives, PTL

\* The loops write and read what Octets says in one step: what Wire takes for
\* an integer is what the code does (hpack.cc:16-34, unpack.h:62-80).
THEOREM LoopsMeetOctets == IntSpec => []LoopsComputeOctets
BY IntInvHolds, IntInvGives, PTL

\* What is cut short is never taken for more than was put (unpack.h:71).
THEOREM CutsFallShort == IntSpec => []CutFallsShort
BY IntInvHolds, IntInvGives, PTL

-----------------------------------------------------------------------------
(* zpipe.                                                                  *)

StreamOctet == Carrier \cup {END, BAD}

Running == loop \in {"start", "read", "pump"}

\* A stream that ends, and nothing after its end.
WholeStream(s) ==
    /\ Len(s) > 0 /\ s[Len(s)] = END
    /\ \A j \in 1 .. Len(s) - 1 : s[j] \in Carrier

\* While def() runs, what was read is in the buffer, inside zlib, or carried by
\* what was written; the stream has its end once zlib says so.
DefInv ==
    (defl /\ Running) =>
        /\ source \in Nat /\ done \in 0 .. source /\ in \in Nat
        /\ dest \in Seq(Carrier \cup {END})
        /\ done = in + held + Carried(dest)
        /\ flush => done = source /\ loop = "pump"
        /\ loop # "pump" => in = 0 /\ ret = "Z_OK"
        /\ ret \in {"Z_OK", "Z_STREAM_END"}
        /\ ret = "Z_OK" => dest \in Seq(Carrier)
        /\ ret = "Z_STREAM_END" => flush /\ in = 0 /\ held = 0 /\ WholeStream(dest)

\* What inflate() has used.
Used == done - Len(in)

\* While inf() runs, what inflate() has used all carries something, and that is
\* inside zlib or written; the buffer holds what was read after it.
InfInv ==
    (~ defl /\ Running) =>
        /\ source \in Seq(StreamOctet) /\ done \in 0 .. Len(source)
        /\ in \in Seq(StreamOctet) /\ Used \in 0 .. done
        /\ \A k \in 1 .. Len(in) : in[k] = source[Used + k]
        /\ \A k \in 1 .. Used : source[k] \in Carrier
        /\ dest \in Nat
        /\ held + dest = Carried(SubSeq(source, 1, Used))
        /\ loop # "pump" => in = << >>
        /\ ret # "Z_STREAM_END"

\* What def() wrote when it succeeds is a stream, for exit() to write the rest of.
DestInv == defl /\ code = "Z_OK" => dest \in Seq(Carrier \cup {END})

ZpipeInv ==
    /\ defl \in BOOLEAN /\ flush \in BOOLEAN
    /\ Running => held \in Nat /\ code = "none" /\ ~ failed
    /\ DefInv /\ InfInv /\ DestInv
    /\ OkMeansAll
-----------------------------------------------------------------------------
(* What a stream carries.                                                  *)

\* What a symbol of a stream carries is a number.
LEMMA PlainType ==
    ASSUME NEW o
    PROVE  Plain(o) \in Nat
BY ZpipeAssumption DEF Plain, Carrier

\* f sums what the first n octets carry.
SumsOf(f, s, n) ==
    /\ f \in [0 .. n -> Nat]
    /\ f[0] = 0
    /\ \A k \in 1 .. n : f[k] = f[k - 1] + Plain(s[k])

\* The sums of what the octets carry exist.
LEMMA SumsExist ==
    ASSUME NEW S, NEW s \in Seq(S)
    PROVE  \E f : SumsOf(f, s, Len(s))
<1> DEFINE T == {n \in 0 .. Len(s) : \E f : SumsOf(f, s, n)}
<1>1. 0 \in T
  <2>1. SumsOf([k \in 0 .. 0 |-> 0], s, 0)
      BY DEF SumsOf
  <2> QED  BY <2>1
<1>2. ASSUME NEW n \in 0 .. Len(s) - 1, n \in T  PROVE n + 1 \in T
  <2>1. PICK f : SumsOf(f, s, n)
      BY <1>2
  <2> DEFINE g == [k \in 0 .. n + 1 |-> IF k = n + 1 THEN f[n] + Plain(s[n + 1]) ELSE f[k]]
  <2>2. Plain(s[n + 1]) \in Nat
      BY PlainType
  <2>3. g \in [0 .. n + 1 -> Nat] /\ g[0] = 0
      BY <2>1, <2>2 DEF SumsOf
  <2>4. ASSUME NEW k \in 1 .. n + 1  PROVE g[k] = g[k - 1] + Plain(s[k])
      BY <2>1 DEF SumsOf
  <2>5. SumsOf(g, s, n + 1)
    <3> HIDE DEF g
    <3> QED  BY <2>3, <2>4 DEF SumsOf
  <2> QED  BY <2>5
<1>3. 0 .. Len(s) \subseteq T
  <2> HIDE DEF T
  <2> QED  BY <1>1, <1>2, Induction
<1> QED  BY <1>3

\* The recursive definition of the sums defines a function.
LEMMA SumsAre ==
    ASSUME NEW S, NEW s \in Seq(S)
    PROVE  SumsOf(Sums(s), s, Len(s))
<1> DEFINE n == Len(s)
           L(f) == [k \in 0 .. n |-> IF k = 0 THEN 0 ELSE f[k - 1] + Plain(s[k])]
           g == Sums(s)
<1>1. PICK f : SumsOf(f, s, n)
    BY SumsExist
<1>2. f = L(f)
    BY <1>1 DEF SumsOf
<1>3. g = CHOOSE h : h = L(h)
    BY DEF Sums
<1>4. g = L(g)
    BY <1>2, <1>3
<1> DEFINE T == {k \in 0 .. n : g[k] = f[k]}
<1>5. 0 .. n \subseteq T
  <2>1. 0 \in T
      BY <1>2, <1>4
  <2>2. ASSUME NEW k \in 0 .. n - 1, k \in T  PROVE k + 1 \in T
    <3>1. k + 1 \in 0 .. n /\ k + 1 # 0 /\ (k + 1) - 1 = k
        OBVIOUS
    <3>2. g[k + 1] = g[k] + Plain(s[k + 1])
      <4> HIDE DEF g
      <4> QED  BY <1>4, <3>1
    <3>3. f[k + 1] = f[k] + Plain(s[k + 1])
        BY <1>1, <3>1 DEF SumsOf
    <3> QED  BY <2>2, <3>1, <3>2, <3>3
  <2>3. n \in Nat
      OBVIOUS
  <2> HIDE DEF T, n
  <2> QED  BY <2>1, <2>2, <2>3, Induction
<1>6. g = f
  <2>1. \A k \in 0 .. n : g[k] = f[k]
      BY <1>5
  <2>2. g = [k \in 0 .. n |-> g[k]]
    <3> HIDE DEF g
    <3> QED  BY <1>4
  <2>3. f = [k \in 0 .. n |-> f[k]]
      BY <1>1 DEF SumsOf
  <2> HIDE DEF g, n
  <2> QED  BY <2>1, <2>2, <2>3
<1> QED  BY <1>1, <1>6

\* A stream carries a number of octets, and the empty one none.
LEMMA CarriedType ==
    ASSUME NEW S, NEW s \in Seq(S)
    PROVE  /\ Carried(s) \in Nat
           /\ Len(s) = 0 => Carried(s) = 0
BY SumsAre DEF SumsOf, Carried

\* What is carried by the octets up to some place, and by those behind it.
LEMMA SumsOfConcat ==
    ASSUME NEW S, NEW s \in Seq(S), NEW t \in Seq(S), NEW u \in Seq(S),
           Len(u) = Len(s) + Len(t),
           \A k \in 1 .. Len(s) : u[k] = s[k],
           \A k \in 1 .. Len(t) : u[Len(s) + k] = t[k]
    PROVE  Carried(u) = Carried(s) + Carried(t)
<1> DEFINE m == Len(s)
           n == Len(t)
           f == Sums(s)
           g == Sums(t)
           h == Sums(u)
           A == {k \in 0 .. m : h[k] = f[k]}
           B == {k \in 0 .. n : h[m + k] = f[m] + g[k]}
<1>1. /\ SumsOf(f, s, m) /\ SumsOf(g, t, n) /\ SumsOf(h, u, m + n)
      /\ m \in Nat /\ n \in Nat
  <2>1. SumsOf(Sums(s), s, Len(s)) /\ SumsOf(Sums(t), t, Len(t)) /\ SumsOf(Sums(u), u, Len(u))
      BY SumsAre, Zenon
  <2>2. Len(u) = m + n /\ m \in Nat /\ n \in Nat
      OBVIOUS
  <2> QED  BY <2>1, <2>2
<1>2. /\ \A k \in 1 .. m : u[k] = s[k]
      /\ \A k \in 1 .. n : u[m + k] = t[k]
    OBVIOUS
<1>3. Carried(u) = h[m + n] /\ Carried(s) = f[m] /\ Carried(t) = g[n]
    BY DEF Carried
<1> HIDE DEF f, g, h, m, n
<1>type. /\ f[m] \in Nat /\ g[0] = 0 /\ m \in 0 .. m
        /\ \A k \in 0 .. n : g[k] \in Nat
  <2>1. f \in [0 .. m -> Nat] /\ g \in [0 .. n -> Nat] /\ g[0] = 0
      BY <1>1, Zenon DEF SumsOf
  <2>2. m \in 0 .. m
      BY <1>1
  <2> QED  BY <2>1, <2>2, Zenon
<1>4. 0 .. m \subseteq A
  <2>1. 0 \in A
      BY <1>1 DEF SumsOf
  <2>2. ASSUME NEW k \in 0 .. m - 1, k \in A  PROVE k + 1 \in A
    <3>1. k + 1 \in 1 .. m /\ k + 1 \in 1 .. m + n /\ (k + 1) - 1 = k
        BY <1>1
    <3>2. h[k + 1] = h[k] + Plain(u[k + 1]) /\ f[k + 1] = f[k] + Plain(s[k + 1])
        BY <1>1, <3>1 DEF SumsOf
    <3> QED  BY <1>2, <2>2, <3>1, <3>2
  <2> HIDE DEF A
  <2> QED  BY <1>1, <2>1, <2>2, Induction
<1>5. 0 .. n \subseteq B
  <2>1. 0 \in B
    <3>1. h[m] = f[m]
        BY <1>1, <1>4
    <3> QED  BY <1>1, <1>type, <3>1
  <2>2. ASSUME NEW k \in 0 .. n - 1, k \in B  PROVE k + 1 \in B
    <3>1. /\ k + 1 \in 1 .. n /\ m + (k + 1) \in 1 .. m + n
          /\ (k + 1) - 1 = k /\ (m + (k + 1)) - 1 = m + k /\ k \in 0 .. n
        BY <1>1
    <3>2. h[m + (k + 1)] = h[m + k] + Plain(u[m + (k + 1)]) /\ g[k + 1] = g[k] + Plain(t[k + 1])
        BY <1>1, <3>1 DEF SumsOf
    <3>3. u[m + (k + 1)] = t[k + 1]
        BY <1>2, <3>1
    <3>4. f[m] \in Nat /\ g[k] \in Nat /\ Plain(t[k + 1]) \in Nat
      <4>1. f[m] \in Nat /\ g[k] \in Nat
          BY <1>type, <3>1, Zenon
      <4> QED  BY <4>1, PlainType, Zenon
    <3>5. h[m + (k + 1)] = f[m] + g[k + 1]
        BY <2>2, <3>2, <3>3, <3>4
    <3> QED  BY <3>1, <3>5
  <2> HIDE DEF B
  <2> QED  BY <1>1, <2>1, <2>2, Induction
<1>6. h[m + n] = f[m] + g[n]
    BY <1>1, <1>5
<1> QED  BY <1>3, <1>6

\* One octet more.
LEMMA CarriedNext ==
    ASSUME NEW S, NEW s \in Seq(S), NEW j \in 1 .. Len(s)
    PROVE  Carried(SubSeq(s, 1, j)) = Carried(SubSeq(s, 1, j - 1)) + Plain(s[j])
<1> DEFINE a == SubSeq(s, 1, j - 1)
           b == << s[j] >>
           c == SubSeq(s, 1, j)
<1>1. /\ a \in Seq(S) /\ b \in Seq(S) /\ c \in Seq(S)
      /\ Len(a) = j - 1 /\ Len(b) = 1 /\ Len(c) = Len(a) + Len(b)
      /\ \A k \in 1 .. Len(a) : c[k] = a[k]
      /\ \A k \in 1 .. Len(b) : c[Len(a) + k] = b[k]
      /\ b[1] = s[j]
    OBVIOUS
<1> HIDE DEF a, b, c
<1>2. Carried(c) = Carried(a) + Carried(b)
    BY <1>1, SumsOfConcat
<1>3. Carried(b) = Plain(s[j])
  <2>1. SumsOf(Sums(b), b, 1)
    <3>1. SumsOf(Sums(b), b, Len(b))
        BY <1>1, SumsAre, Zenon
    <3> QED  BY <1>1, <3>1
  <2>2. Sums(b)[0] = 0 /\ Sums(b)[1] = Sums(b)[1 - 1] + Plain(b[1]) /\ Plain(b[1]) \in Nat
      BY <2>1, PlainType DEF SumsOf
  <2>3. Sums(b)[1] = Plain(b[1])
      BY <2>2
  <2> QED  BY <1>1, <2>3 DEF Carried
<1> QED  BY <1>2, <1>3 DEF a, c

\* The lesser of two numbers.
LEMMA LesserOf ==
    ASSUME NEW a \in Nat, NEW b \in Nat
    PROVE  /\ Min({a, b}) \in Nat /\ Min({a, b}) <= a /\ Min({a, b}) <= b
           /\ Min({a, b}) < a => Min({a, b}) = b
           /\ b < a => Min({a, b}) = b
<1>1. Min({a, b}) \in {a, b} /\ \A y \in {a, b} : Min({a, b}) <= y
    BY LeastIs
<1> QED  BY <1>1

\* END and BAD carry nothing.
LEMMA CarrierFacts ==
    /\ Carrier \subseteq Nat \ {0} /\ 1 \in Carrier
    /\ END \notin Carrier /\ BAD \notin Carrier /\ END # BAD
    /\ Plain(END) = 0 /\ Plain(BAD) = 0
BY ZpipeAssumption DEF Carrier, END, BAD, Plain

\* A stream up to its first END.
LEMMA UpToEndIs ==
    ASSUME NEW s \in Seq(StreamOctet), NEW k \in 1 .. Len(s), s[k] = END,
           \A j \in 1 .. k - 1 : s[j] \in Carrier
    PROVE  Complete(s) /\ UpToEnd(s) = SubSeq(s, 1, k)
<1> DEFINE I == {i \in 1 .. Len(s) : s[i] = END}
<1>1. k \in I /\ I \subseteq Nat
    OBVIOUS
<1>2. Min(I) \in I /\ Min(I) <= k
  <2> HIDE DEF I
  <2>1. I # {}
      BY <1>1
  <2> QED  BY <1>1, <2>1, LeastIs
<1>3. Min(I) = k
  <2>1. ASSUME Min(I) < k  PROVE FALSE
    <3>1. Min(I) \in 1 .. k - 1 /\ s[Min(I)] = END
      <4> DEFINE i == Min(I)
      <4>1. i \in I /\ i <= k /\ i < k
          BY <1>2, <2>1
      <4> HIDE DEF i
      <4>2. i \in 1 .. Len(s) /\ s[i] = END
          BY <4>1
      <4>3. i \in 1 .. k - 1
          BY <4>1, <4>2
      <4> QED  BY <4>2, <4>3 DEF i
    <3> HIDE DEF I
    <3> QED  BY <3>1, CarrierFacts
  <2>2. Min(I) \in Nat
      BY <1>1, <1>2
  <2> HIDE DEF I
  <2> QED  BY <1>2, <2>1, <2>2
<1>4. SelectInSeq(s, LAMBDA o : o = END) = IF I # {} THEN Min(I) ELSE 0
    BY DEF SelectInSeq
<1>5. UpToEnd(s) = SubSeq(s, 1, k)
  <2>1. I # {}
      BY <1>1
  <2> HIDE DEF I
  <2> QED  BY <1>3, <1>4, <2>1 DEF UpToEnd
<1>6. Complete(s)
    BY DEF Complete
<1> QED  BY <1>5, <1>6

-----------------------------------------------------------------------------
(* The loops of zpipe.                                                     *)

\* Both programs start with nothing read, held or written.
LEMMA ZpipeInvInit == ZpipeInit => ZpipeInv
<1> SUFFICES ASSUME ZpipeInit  PROVE ZpipeInv
    OBVIOUS
<1>1. defl \in BOOLEAN /\ flush \in BOOLEAN /\ Running /\ held \in Nat /\ code = "none" /\ ~ failed
    BY DEF ZpipeInit, Running
<1>2. DefInv
  <2> SUFFICES ASSUME defl  PROVE DefInv
      BY DEF DefInv
  <2>1. source \in Nat /\ done = 0 /\ in = 0 /\ held = 0 /\ dest = << >> /\ ~ flush
      BY ZpipeAssumption DEF ZpipeInit
  <2>2. << >> \in Seq(Carrier \cup {END}) /\ << >> \in Seq(Carrier) /\ Len(<< >>) = 0
      OBVIOUS
  <2>3. Carried(dest) = 0
      BY <2>1, <2>2, CarriedType
  <2> QED  BY <2>1, <2>2, <2>3 DEF DefInv, ZpipeInit
<1>3. InfInv
  <2> SUFFICES ASSUME ~ defl  PROVE InfInv
      BY DEF InfInv
  <2>1. /\ source \in StreamsUpTo(MaxFile, Carrier \cup {END, BAD})
        /\ done = 0 /\ in = << >> /\ held = 0 /\ dest = 0 /\ ret = "Z_OK"
      BY DEF ZpipeInit
  <2>2. source \in Seq(StreamOctet)
      BY <2>1 DEF StreamsUpTo, StreamOctet
  <2> DEFINE none == SubSeq(source, 1, 0)
  <2>3. none \in Seq(StreamOctet) /\ Len(none) = 0 /\ in \in Seq(StreamOctet) /\ Len(in) = 0
      BY <2>1, <2>2
  <2>4. Carried(none) = 0
    <3> HIDE DEF none
    <3> QED  BY <2>3, CarriedType
  <2>5. Used = 0
    <3>1. Used = 0 - 0
        BY <2>1, <2>3, Zenon DEF Used
    <3> QED  BY <3>1
  <2>6. held + dest = Carried(SubSeq(source, 1, Used))
      BY <2>1, <2>4, <2>5
  <2>7. Len(source) \in Nat /\ 0 \in 0 .. Len(source)
      BY <2>2
  <2>8. /\ \A k \in 1 .. Len(in) : in[k] = source[Used + k]
        /\ \A k \in 1 .. Used : source[k] \in Carrier
      BY <2>3, <2>5
  <2> QED  BY <2>1, <2>2, <2>3, <2>5, <2>6, <2>7, <2>8 DEF InfInv
<1>4. DestInv /\ OkMeansAll
    BY DEF ZpipeInit, DestInv, OkMeansAll
<1> QED  BY <1>1, <1>2, <1>3, <1>4 DEF ZpipeInv

\* main() returns something else than Z_OK and Z_DATA_ERROR.
LEMMA OtherReturn ==
    ASSUME ZpipeInv, Running, NEW c, Return(c), defl' \in BOOLEAN, flush' \in BOOLEAN,
           c # "Z_OK", c # "Z_DATA_ERROR", c = "Z_ERRNO" <=> failed'
    PROVE  ZpipeInv'
<1>1. loop' = "returned" /\ code' = c
    BY DEF Return
<1>2. ~ Running'
    BY <1>1 DEF Running
<1>3. DefInv' /\ InfInv' /\ DestInv'
    BY <1>1, <1>2 DEF DefInv, InfInv, DestInv
<1>4. OkMeansAll'
    BY <1>1 DEF OkMeansAll
<1> QED  BY <1>2, <1>3, <1>4 DEF ZpipeInv

\* Before the loop.
LEMMA StartStep == ZpipeInv /\ Start => ZpipeInv'
<1> SUFFICES ASSUME ZpipeInv, Start  PROVE ZpipeInv'
    OBVIOUS
<1>1. /\ Running /\ loop = "start" /\ defl' = defl /\ flush' = flush /\ failed' = failed
      /\ defl \in BOOLEAN /\ flush \in BOOLEAN /\ ~ failed
    BY DEF Start, Running, ZpipeInv
<1>2. CASE loop' = "read" /\ code' = code
  <2>1. UNCHANGED << defl, source, done, in, flush, held, dest, ret, failed, lost, code >>
      BY <1>2 DEF Start
  <2>2. Running'
      BY <1>2 DEF Running
  <2>3. DefInv' /\ InfInv'
      BY <1>1, <1>2, <2>1 DEF ZpipeInv, DefInv, InfInv, Used
  <2>4. DestInv' /\ OkMeansAll'
      BY <1>1, <1>2, <2>1 DEF ZpipeInv, DestInv, OkMeansAll
  <2> QED  BY <1>1, <2>1, <2>2, <2>3, <2>4 DEF ZpipeInv
<1>3. CASE \E c \in {"usage", "abort", "Z_MEM_ERROR", "Z_VERSION_ERROR", "Z_STREAM_ERROR"} :
              Return(c)
  <2>1. PICK c \in {"usage", "abort", "Z_MEM_ERROR", "Z_VERSION_ERROR", "Z_STREAM_ERROR"} :
            Return(c)
      BY <1>3
  <2>2. c # "Z_OK" /\ c # "Z_DATA_ERROR" /\ c # "Z_ERRNO"
      OBVIOUS
  <2> QED  BY <1>1, <2>1, <2>2, OtherReturn
<1> QED  BY <1>2, <1>3 DEF Start

\* An error of fread() ends the program without success.
LEMMA FreadFailsStep == ZpipeInv /\ FreadFails => ZpipeInv'
<1> SUFFICES ASSUME ZpipeInv, FreadFails  PROVE ZpipeInv'
    OBVIOUS
<1>1. /\ Running /\ defl' = defl /\ flush' = flush /\ failed' = TRUE /\ Return("Z_ERRNO")
      /\ defl \in BOOLEAN /\ flush \in BOOLEAN
    BY DEF FreadFails, Running, ZpipeInv
<1> QED  BY <1>1, OtherReturn

\* def() reads: what it reads fills its buffer, or is the rest of the file.
LEMMA DefReads == ZpipeInv /\ defl /\ Read => ZpipeInv'
<1> SUFFICES ASSUME ZpipeInv, defl, Read  PROVE ZpipeInv'
    OBVIOUS
<1> DEFINE amount == Min({CHUNK, Total - done})
<1>1. /\ Running /\ loop = "read" /\ code = "none" /\ ~ failed /\ held \in Nat
      /\ source \in Nat /\ done \in 0 .. source
      /\ dest \in Seq(Carrier \cup {END})
      /\ done = in + held + Carried(dest) /\ in = 0 /\ ret = "Z_OK"
      /\ dest \in Seq(Carrier)
    BY DEF Read, Running, ZpipeInv, DefInv
<1>2. /\ done' = done + amount /\ in' = amount /\ (flush' <=> amount < CHUNK)
      /\ loop' = "pump" /\ flush' \in BOOLEAN
      /\ defl' = defl /\ source' = source /\ held' = held /\ dest' = dest
      /\ ret' = ret /\ failed' = failed /\ code' = code
  <2>1. flush' = (amount < CHUNK)
      BY Zenon DEF Read, Fread
  <2>2. (flush' <=> amount < CHUNK) /\ flush' \in BOOLEAN
    <3> HIDE DEF amount
    <3>1. (amount < CHUNK) \in BOOLEAN
        OBVIOUS
    <3> QED  BY <2>1, <3>1, Zenon
  <2>3. /\ done' = done + amount /\ in' = amount /\ loop' = "pump"
        /\ defl' = defl /\ source' = source /\ held' = held /\ dest' = dest
        /\ ret' = ret /\ failed' = failed /\ code' = code
      BY DEF Read, Fread
  <2> QED  BY <2>2, <2>3
<1>3. /\ amount \in Nat /\ amount <= CHUNK /\ amount <= source - done
      /\ amount < CHUNK => amount = source - done
  <2>1. Total - done = source - done /\ source - done \in Nat /\ CHUNK \in Nat
      BY <1>1, ZpipeAssumption DEF Total
  <2> QED  BY <2>1, LesserOf
<1> HIDE DEF amount
<1>4. Running' /\ defl' /\ flush' \in BOOLEAN
    BY <1>2 DEF Running
<1>5. Carried(dest) \in Nat
    BY <1>1, CarriedType
<1>6. DefInv'
  <2>1. Carried(dest') = Carried(dest)
      BY <1>2
  <2>2. done' = in' + held' + Carried(dest') /\ done' \in 0 .. source'
      BY <1>1, <1>2, <1>3, <1>5, <2>1
  <2>3. flush' => done' = source'
      BY <1>1, <1>2, <1>3
  <2>4. source' \in Nat /\ in' \in Nat /\ dest' \in Seq(Carrier \cup {END}) /\ dest' \in Seq(Carrier)
      BY <1>1, <1>2, <1>3
  <2> QED  BY <1>1, <1>2, <2>2, <2>3, <2>4 DEF DefInv
<1>7. InfInv'
    BY <1>4 DEF InfInv
<1>8. DestInv' /\ OkMeansAll'
    BY <1>1, <1>2 DEF DestInv, OkMeansAll
<1> QED  BY <1>1, <1>2, <1>4, <1>6, <1>7, <1>8 DEF ZpipeInv

\* A stream all of whose octets carry something has no end.
LEMMA NotComplete ==
    ASSUME NEW s \in Seq(StreamOctet), NEW k \in 0 .. Len(s),
           \A j \in 1 .. k : s[j] \in Carrier,
           k = Len(s) \/ s[k + 1] = BAD
    PROVE  ~ Complete(s)
<1> SUFFICES ASSUME NEW i \in 1 .. Len(s), s[i] = END, \A j \in 1 .. i - 1 : s[j] \in Carrier
             PROVE  FALSE
    BY DEF Complete
<1>1. i \notin 1 .. k
    BY CarrierFacts
<1>2. k + 1 \in 1 .. i /\ s[k + 1] = BAD
    BY <1>1
<1>3. CASE k + 1 = i
    BY <1>2, <1>3, CarrierFacts
<1>4. CASE k + 1 # i
  <2>1. k + 1 \in 1 .. i - 1
      BY <1>2, <1>4
  <2> QED  BY <1>2, <2>1, CarrierFacts
<1> QED  BY <1>3, <1>4

\* inf() reads, and gives up at the end of a stream that has no end.
LEMMA InfReads == ZpipeInv /\ ~ defl /\ Read => ZpipeInv'
<1> SUFFICES ASSUME ZpipeInv, ~ defl, Read  PROVE ZpipeInv'
    OBVIOUS
<1> DEFINE amount == Min({CHUNK, Total - done})
           n == Len(source)
<1>1. /\ Running /\ loop = "read" /\ code = "none" /\ ~ failed /\ held \in Nat
      /\ source \in Seq(StreamOctet) /\ done \in 0 .. n /\ n \in Nat
      /\ in = << >> /\ Used \in 0 .. done
      /\ \A k \in 1 .. Used : source[k] \in Carrier
      /\ dest \in Nat /\ held + dest = Carried(SubSeq(source, 1, Used))
      /\ ret # "Z_STREAM_END"
    BY DEF Read, Running, ZpipeInv, InfInv
<1>2. Used = done
  <2>1. Len(in) = 0
      BY <1>1
  <2> QED  BY <1>1, <2>1 DEF Used
<1>3. /\ done' = done + amount /\ in' = SubSeq(source, done + 1, done + amount)
      /\ defl' = defl /\ source' = source /\ held' = held /\ dest' = dest
      /\ ret' = ret /\ failed' = failed
    BY DEF Read, Fread
<1>4. flush' \in BOOLEAN
  <2>1. flush' = (amount < CHUNK)
      BY Zenon DEF Read, Fread
  <2> HIDE DEF amount
  <2>2. (amount < CHUNK) \in BOOLEAN
      OBVIOUS
  <2> QED  BY <2>1, <2>2, Zenon
<1>5. /\ amount \in Nat /\ amount <= CHUNK /\ amount <= n - done
      /\ amount < CHUNK => amount = n - done
      /\ CHUNK \in Nat \ {0}
  <2>1. Total - done = n - done /\ n - done \in Nat /\ CHUNK \in Nat \ {0}
      BY <1>1, ZpipeAssumption DEF Total
  <2> HIDE DEF n
  <2> QED  BY <2>1, LesserOf
<1>6. IF in' = << >> THEN InfReturn ELSE loop' = "pump" /\ code' = code
    BY DEF Read
<1> HIDE DEF amount
<1>7. /\ in' \in Seq(StreamOctet) /\ Len(in') = amount
      /\ \A k \in 1 .. amount : in'[k] = source[done + k]
  <2>1. done \in Nat /\ done + amount \in done .. Len(source)
      BY <1>1, <1>5
  <2>2. (done + amount) - done = amount
      BY <1>1, <1>5
  <2> DEFINE u == done + amount
             e == SubSeq(source, done + 1, u)
  <2>3. in' = e
      BY <1>3
  <2>4. u \in done .. Len(source) /\ u - done = amount
      BY <2>1, <2>2
  <2> HIDE DEF u
  <2>5. /\ e \in Seq(StreamOctet) /\ Len(e) = u - done
        /\ \A k \in 1 .. u - done : e[k] = source[done + k]
      BY <1>1, <2>1, <2>4, SliceIs
  <2> HIDE DEF e
  <2> QED  BY <2>3, <2>4, <2>5
<1>8. CASE in' = << >>
  <2>1. Len(in') = 0
      BY <1>8
  <2>2. done = n
      BY <1>1, <1>5, <1>7, <2>1
  <2>3. ~ Complete(source)
      BY <1>1, <1>2, <2>2, NotComplete
  <2>4. loop' = "returned" /\ code' = "Z_DATA_ERROR"
      BY <1>1, <1>3, <1>6, <1>8 DEF InfReturn, Return
  <2>5. ~ Running'
      BY <2>4 DEF Running
  <2>6. Complete(source') <=> Complete(source)
      BY <1>3
  <2>7. DestInv' /\ OkMeansAll'
      BY <1>1, <1>3, <2>3, <2>4, <2>6 DEF DestInv, OkMeansAll
  <2> QED  BY <1>3, <1>4, <2>5, <2>7 DEF ZpipeInv, DefInv, InfInv
<1>9. CASE in' # << >>
  <2>1. loop' = "pump" /\ code' = code
      BY <1>6, <1>9
  <2>2. Running'
      BY <2>1 DEF Running
  <2>3. Used' = done
    <3>1. Used' = (done + amount) - amount
        BY <1>3, <1>7, Zenon DEF Used
    <3> QED  BY <1>1, <1>5, <3>1
  <2>4. InfInv'
    <3>1. held' + dest' = Carried(SubSeq(source', 1, Used'))
        BY <1>1, <1>2, <1>3, <2>3
    <3>2. done' \in 0 .. Len(source') /\ Used' \in 0 .. done'
        BY <1>1, <1>3, <1>5, <2>3
    <3>3. \A k \in 1 .. Len(in') : in'[k] = source'[Used' + k]
        BY <1>3, <1>7, <2>3
    <3>4. \A k \in 1 .. Used' : source'[k] \in Carrier
        BY <1>1, <1>2, <1>3, <2>3
    <3>5. source' \in Seq(StreamOctet) /\ dest' \in Nat
        BY <1>1, <1>3
    <3> QED  BY <1>1, <1>3, <1>7, <2>1, <3>1, <3>2, <3>3, <3>4, <3>5 DEF InfInv
  <2>5. DefInv'
      BY <1>3 DEF DefInv
  <2>6. DestInv' /\ OkMeansAll'
      BY <1>1, <1>3, <2>1 DEF DestInv, OkMeansAll
  <2> QED  BY <1>1, <1>3, <1>4, <2>1, <2>2, <2>4, <2>5, <2>6 DEF ZpipeInv
<1> QED  BY <1>8, <1>9

\* deflate() gives out a piece of a stream, and def() writes it.
LEMMA DefTurns == ZpipeInv /\ DeflateTurn => ZpipeInv'
<1> SUFFICES ASSUME ZpipeInv, DeflateTurn  PROVE ZpipeInv'
    OBVIOUS
<1>1. /\ Running /\ defl /\ loop = "pump" /\ code = "none" /\ ~ failed /\ held \in Nat
      /\ source \in Nat /\ done \in 0 .. source /\ in \in Nat /\ flush \in BOOLEAN
      /\ dest \in Seq(Carrier \cup {END})
      /\ done = in + held + Carried(dest)
      /\ flush => done = source
      /\ ret \in {"Z_OK", "Z_STREAM_END"}
      /\ ret = "Z_OK" => dest \in Seq(Carrier)
      /\ ret = "Z_STREAM_END" => flush /\ in = 0 /\ held = 0 /\ WholeStream(dest)
    BY DEF DeflateTurn, Running, ZpipeInv, DefInv
<1>2. PICK fill \in StreamsUpTo(CHUNK, Carrier \cup {END}), take \in 0 .. in :
         LET ends == END \in Range(fill)
             full == Len(fill) = CHUNK
         IN  /\ held' = held + take - Carried(fill) /\ held' >= 0
             /\ in' = in - take
             /\ ~ full => in' = 0
             /\ ends => flush /\ in' = 0 /\ held' = 0 /\ SelectInSeq(fill, LAMBDA o : o = END) = Len(fill)
             /\ (flush /\ ~ full) => ends \/ ret = "Z_STREAM_END"
             /\ ret = "Z_STREAM_END" => fill = << >>
             /\ ret' = IF ends THEN "Z_STREAM_END" ELSE ret
             /\ WriteStream(fill, full)
    BY DEF DeflateTurn
<1>3. /\ defl' = defl /\ source' = source /\ done' = done /\ flush' = flush
    BY DEF DeflateTurn
<1> DEFINE ends == END \in Range(fill)
           full == Len(fill) = CHUNK
<1>4. fill \in Seq(Carrier \cup {END})
    BY DEF StreamsUpTo
<1>5. ends <=> \E k \in 1 .. Len(fill) : fill[k] = END
    BY <1>4 DEF Range
<1>6. CASE \E k \in 0 .. Len(fill) :
              dest' = dest \o SubSeq(fill, 1, k) /\ failed' = TRUE /\ Return("Z_ERRNO")
    BY <1>1, <1>3, <1>6, OtherReturn
<1>7. CASE dest' = dest \o fill /\ Turned(full) /\ UNCHANGED failed
  <2>1. /\ held' = held + take - Carried(fill) /\ held' >= 0 /\ in' = in - take
        /\ ~ full => in' = 0
        /\ ends => flush /\ in' = 0 /\ held' = 0
        /\ (flush /\ ~ full) => ends \/ ret = "Z_STREAM_END"
        /\ ret = "Z_STREAM_END" => fill = << >>
        /\ ret' = IF ends THEN "Z_STREAM_END" ELSE ret
      BY <1>2
  <2>2. Carried(fill) \in Nat /\ Carried(dest) \in Nat
      BY <1>1, <1>4, CarriedType
  <2>3. /\ dest' \in Seq(Carrier \cup {END}) /\ Len(dest') = Len(dest) + Len(fill)
        /\ \A k \in 1 .. Len(dest) : dest'[k] = dest[k]
        /\ \A k \in 1 .. Len(fill) : dest'[Len(dest) + k] = fill[k]
      BY <1>1, <1>4, <1>7
  <2>4. Carried(dest') = Carried(dest) + Carried(fill)
    <3> DEFINE d == dest'
    <3>1. /\ d \in Seq(Carrier \cup {END}) /\ Len(d) = Len(dest) + Len(fill)
          /\ \A k \in 1 .. Len(dest) : d[k] = dest[k]
          /\ \A k \in 1 .. Len(fill) : d[Len(dest) + k] = fill[k]
        BY <2>3
    <3>2. dest \in Seq(Carrier \cup {END})
        BY <1>1
    <3> HIDE DEF d
    <3>3. Carried(d) = Carried(dest) + Carried(fill)
        BY <1>4, <3>1, <3>2, SumsOfConcat
    <3> QED  BY <3>3 DEF d
  <2>5. in' \in Nat /\ held' \in Nat
      BY <1>1, <2>1, <2>2
  <2>6. done' = in' + held' + Carried(dest') /\ done' \in 0 .. source'
    <3>1. /\ done = in + held + Carried(dest) /\ in \in Nat /\ held \in Nat /\ take \in Nat
          /\ Carried(fill) \in Nat /\ Carried(dest) \in Nat
        BY <1>1, <2>2
    <3>2. /\ in' = in - take /\ held' = held + take - Carried(fill)
          /\ Carried(dest') = Carried(dest) + Carried(fill)
        BY <2>1, <2>4
    <3>3. done = in' + held' + Carried(dest')
        BY <3>1, <3>2
    <3> QED  BY <1>1, <1>3, <3>3
  <2>7. ends => WholeStream(dest')
    <3> SUFFICES ASSUME ends  PROVE WholeStream(dest')
        OBVIOUS
    <3> DEFINE I == {i \in 1 .. Len(fill) : fill[i] = END}
    <3>1. I # {} /\ I \subseteq Nat
        BY <1>5
    <3>2. SelectInSeq(fill, LAMBDA o : o = END) = IF I # {} THEN Min(I) ELSE 0
        BY DEF SelectInSeq
    <3>3. Min(I) = Len(fill) /\ Min(I) \in I /\ \A y \in I : Min(I) <= y
      <4>1. SelectInSeq(fill, LAMBDA o : o = END) = Len(fill)
          BY <1>2
      <4> HIDE DEF I
      <4> QED  BY <3>1, <3>2, <4>1, LeastIs
    <3>4. /\ Len(fill) \in 1 .. Len(fill) /\ fill[Len(fill)] = END
          /\ \A k \in 1 .. Len(fill) - 1 : fill[k] # END
      <4>1. Len(fill) \in I /\ \A y \in I : Len(fill) <= y
          BY <3>3
      <4> QED  BY <1>4, <4>1
    <3>5. ret = "Z_OK"
      <4>1. CASE ret = "Z_STREAM_END"
        <5>1. Len(fill) = 0
            BY <2>1, <4>1
        <5> QED  BY <3>4, <5>1
      <4> QED  BY <1>1, <4>1
    <3>6. dest \in Seq(Carrier)
        BY <1>1, <3>5
    <3>7. ASSUME NEW j \in 1 .. Len(dest') - 1  PROVE dest'[j] \in Carrier
      <4>1. CASE j <= Len(dest)
          BY <2>3, <3>6, <4>1
      <4>2. CASE j > Len(dest)
        <5>1. PICK k \in 1 .. Len(fill) - 1 : j = Len(dest) + k
          <6>1. j - Len(dest) \in 1 .. Len(fill) - 1 /\ j = Len(dest) + (j - Len(dest))
              BY <1>1, <1>4, <2>3, <4>2
          <6> QED  BY <6>1
        <5>2. fill[k] \in Carrier \cup {END} /\ fill[k] # END /\ dest'[j] = fill[k]
            BY <1>4, <2>3, <3>4, <5>1
        <5> QED  BY <5>2
      <4>3. Len(dest) \in Nat
          BY <1>1
      <4> QED  BY <4>1, <4>2, <4>3
    <3>8. Len(dest') > 0 /\ dest'[Len(dest')] = END
        BY <1>1, <1>4, <2>3, <3>4
    <3> QED  BY <3>7, <3>8 DEF WholeStream
  <2>8. ret = "Z_STREAM_END" => WholeStream(dest') /\ in' = 0 /\ held' = 0 /\ ~ full /\ ~ ends
    <3> SUFFICES ASSUME ret = "Z_STREAM_END"
                 PROVE  WholeStream(dest') /\ in' = 0 /\ held' = 0 /\ ~ full /\ ~ ends
        OBVIOUS
    <3>1. Len(fill) = 0 /\ WholeStream(dest) /\ in = 0 /\ held = 0
        BY <1>1, <2>1
    <3>2. Carried(fill) = 0
        BY <1>4, <3>1, CarriedType
    <3>3. in' = 0 /\ held' = 0
      <4>1. take \in 0 .. in /\ in' = in - take /\ held' = held + take - Carried(fill)
          BY <2>1
      <4>2. take = 0
          BY <3>1, <4>1
      <4> QED  BY <3>1, <3>2, <4>1, <4>2
    <3>4. ~ full /\ ~ ends
        BY <1>5, <3>1, ZpipeAssumption
    <3>5. Len(dest') = Len(dest) /\ \A k \in 1 .. Len(dest) : dest'[k] = dest[k]
        BY <1>1, <2>3, <3>1
    <3>6. Len(dest) \in Nat
        BY <1>1
    <3>7. WholeStream(dest')
        BY <3>1, <3>5, <3>6 DEF WholeStream
    <3> QED  BY <3>3, <3>4, <3>7
  <2>9. ret' \in {"Z_OK", "Z_STREAM_END"} /\ (ret' = "Z_STREAM_END" => WholeStream(dest') /\ in' = 0 /\ held' = 0 /\ flush)
      BY <1>1, <2>1, <2>7, <2>8
  <2>10. ret' = "Z_OK" => dest' \in Seq(Carrier)
    <3> SUFFICES ASSUME ret' = "Z_OK"  PROVE dest' \in Seq(Carrier)
        OBVIOUS
    <3>1. ~ ends /\ ret = "Z_OK" /\ dest \in Seq(Carrier)
        BY <1>1, <2>1
    <3>2. \A k \in 1 .. Len(fill) : fill[k] \in Carrier
        BY <1>4, <1>5, <3>1
    <3>3. fill \in Seq(Carrier)
        BY <1>4, <3>2
    <3> QED  BY <1>7, <3>1, <3>3
  <2>11. failed' = failed
      BY <1>7
  <2>12. CASE full
    <3>1. loop' = "pump" /\ code' = code
        BY <1>1, <1>7, <2>12 DEF Turned
    <3>2. Running'
        BY <3>1 DEF Running
    <3>3. DefInv'
        BY <1>1, <1>3, <2>3, <2>5, <2>6, <2>9, <2>10, <3>1 DEF DefInv
    <3>4. InfInv'
        BY <1>1, <1>3 DEF InfInv
    <3>5. DestInv' /\ OkMeansAll'
        BY <1>1, <2>11, <3>1 DEF DestInv, OkMeansAll
    <3> QED  BY <1>1, <1>3, <2>5, <2>11, <3>1, <3>2, <3>3, <3>4, <3>5 DEF ZpipeInv
  <2>13. CASE ~ full /\ flush
    <3>1. in' = 0 /\ ret' = "Z_STREAM_END"
        BY <2>1, <2>13
    <3>2. loop' = "returned" /\ code' = "Z_OK"
        BY <1>1, <1>7, <2>13, <3>1 DEF Turned, Return
    <3>3. WholeStream(dest') /\ Carried(dest') = source'
        BY <1>1, <1>3, <2>2, <2>4, <2>6, <2>9, <2>13, <3>1
    <3>4. Complete(dest') /\ UpToEnd(dest') = dest'
      <4> DEFINE d == dest'
      <4>1. d \in Seq(Carrier \cup {END}) /\ Len(d) \in 1 .. Len(d) /\ d[Len(d)] = END
            /\ \A j \in 1 .. Len(d) - 1 : d[j] \in Carrier
          BY <2>3, <3>3 DEF WholeStream
      <4> HIDE DEF d
      <4>2. d \in Seq(StreamOctet) /\ SubSeq(d, 1, Len(d)) = d
          BY <4>1 DEF StreamOctet
      <4>3. Complete(d) /\ UpToEnd(d) = SubSeq(d, 1, Len(d))
          BY <4>1, <4>2, UpToEndIs
      <4>4. Complete(d) /\ UpToEnd(d) = d
          BY <4>2, <4>3
      <4> QED  BY <4>4 DEF d
    <3>5. DestInv' /\ OkMeansAll'
        BY <1>1, <1>3, <2>3, <2>11, <3>2, <3>3, <3>4 DEF DestInv, OkMeansAll, Whole
    <3>6. ~ Running'
        BY <3>2 DEF Running
    <3> QED  BY <1>1, <1>3, <3>5, <3>6 DEF ZpipeInv, DefInv, InfInv
  <2>14. CASE ~ full /\ ~ flush
    <3>1. in' = 0 /\ ret' = "Z_OK"
        BY <2>1, <2>9, <2>14
    <3>2. loop' = "read" /\ code' = code
        BY <1>1, <1>3, <1>7, <2>14, <3>1 DEF Turned
    <3>3. Running'
        BY <3>2 DEF Running
    <3>4. DefInv'
        BY <1>1, <1>3, <2>3, <2>5, <2>6, <2>10, <2>14, <3>1, <3>2 DEF DefInv
    <3>5. InfInv'
        BY <1>1, <1>3 DEF InfInv
    <3>6. DestInv' /\ OkMeansAll'
        BY <1>1, <2>11, <3>2 DEF DestInv, OkMeansAll
    <3> QED  BY <1>1, <1>3, <2>5, <2>11, <3>2, <3>3, <3>4, <3>5, <3>6 DEF ZpipeInv
  <2> QED  BY <2>12, <2>13, <2>14
<1>8. WriteStream(fill, full)
    BY <1>2
<1> QED  BY <1>6, <1>7, <1>8 DEF WriteStream

\* inflate() uses what is carried until the buffer is full, and inf() writes it.
LEMMA InfTurns == ZpipeInv /\ InflateTurn => ZpipeInv'
<1> SUFFICES ASSUME ZpipeInv, InflateTurn  PROVE ZpipeInv'
    OBVIOUS
<1> DEFINE stops(j) == held + Carried(SubSeq(in, 1, j)) >= CHUNK \/ (j > 0 /\ in[j] \notin Carrier)
           J     == {j \in 0 .. Len(in) : stops(j)} \cup {Len(in)}
           used  == Min(J)
           holds == held + Carried(SubSeq(in, 1, used))
           amount == Min({CHUNK, holds})
           last  == IF used > 0 THEN in[used] ELSE 1
<1>1. /\ Running /\ ~ defl /\ loop = "pump" /\ code = "none" /\ ~ failed /\ held \in Nat
      /\ source \in Seq(StreamOctet) /\ done \in 0 .. Len(source)
      /\ in \in Seq(StreamOctet) /\ Used \in 0 .. done
      /\ \A k \in 1 .. Len(in) : in[k] = source[Used + k]
      /\ \A k \in 1 .. Used : source[k] \in Carrier
      /\ dest \in Nat /\ held + dest = Carried(SubSeq(source, 1, Used))
      /\ ret # "Z_STREAM_END" /\ flush \in BOOLEAN
    BY DEF InflateTurn, Running, ZpipeInv, InfInv
<1>2. /\ in' = SubSeq(in, used + 1, Len(in))
      /\ held' = holds - amount
      /\ ret' = CASE last = BAD -> "Z_DATA_ERROR" [] last = END -> "Z_STREAM_END"
                   [] OTHER -> IF used + amount > 0 THEN "Z_OK" ELSE "Z_BUF_ERROR"
      /\ IF last = BAD
         THEN Return(ret') /\ UNCHANGED << dest, written, failed, lost >>
         ELSE WriteText(amount, amount = CHUNK)
      /\ UNCHANGED << defl, source, done, flush >>
    BY DEF InflateTurn
<1>3. /\ used \in 0 .. Len(in) /\ (used # Len(in) => stops(used))
      /\ \A j \in 0 .. used - 1 : ~ stops(j)
  <2>1. J \subseteq Nat /\ J # {} /\ J \subseteq 0 .. Len(in)
      BY <1>1
  <2>2. used \in J /\ \A y \in J : used <= y
    <3> HIDE DEF J
    <3> QED  BY <2>1, LeastIs
  <2>3. used \in 0 .. Len(in)
    <3> HIDE DEF J
    <3> QED  BY <2>1, <2>2
  <2>4. used # Len(in) => stops(used)
      BY <2>2
  <2>5. ASSUME NEW j \in 0 .. used - 1  PROVE ~ stops(j)
    <3>1. j \notin J
      <4> HIDE DEF J
      <4> QED  BY <2>2, <2>3
    <3>2. j \in 0 .. Len(in)
      <4> HIDE DEF used
      <4> QED  BY <2>3
    <3> QED  BY <3>1, <3>2
  <2> QED  BY <2>3, <2>4, <2>5
<1>4. Len(in) \in Nat /\ Len(in) = done - Used
    BY <1>1 DEF Used
<1> HIDE DEF J, used
<1>5. /\ \A j \in 0 .. Len(in) : Carried(SubSeq(in, 1, j)) \in Nat
      /\ \A j \in 1 .. Len(in) :
            Carried(SubSeq(in, 1, j)) = Carried(SubSeq(in, 1, j - 1)) + Plain(in[j])
  <2>1. \A j \in 0 .. Len(in) : SubSeq(in, 1, j) \in Seq(StreamOctet)
      BY <1>1, BeginningIs
  <2> QED  BY <1>1, <2>1, CarriedType, CarriedNext
<1>6. holds \in Nat
    BY <1>1, <1>3, <1>5
<1>7. /\ amount \in Nat /\ amount <= CHUNK /\ amount <= holds
      /\ amount < CHUNK => amount = holds
      /\ holds < CHUNK => amount < CHUNK
      /\ CHUNK \in Nat \ {0}
  <2> HIDE DEF holds
  <2>1. /\ amount \in Nat /\ amount <= CHUNK /\ amount <= holds /\ CHUNK \in Nat \ {0}
        /\ (amount < CHUNK => amount = holds)
        /\ (holds < CHUNK => amount = holds)
      BY <1>6, ZpipeAssumption, LesserOf
  <2> HIDE DEF amount
  <2> QED  BY <1>6, <2>1
\* Only the last octet used can be one that carries nothing, and then the
\* buffer is not full.
<1>8. \A j \in 1 .. used - 1 : in[j] \in Carrier
    BY <1>3, <1>4
<1>9. last \notin Carrier => used > 0 /\ last = in[used] /\ holds < CHUNK
  <2> SUFFICES ASSUME last \notin Carrier  PROVE used > 0 /\ last = in[used] /\ holds < CHUNK
      OBVIOUS
  <2>1. used > 0 /\ last = in[used]
      BY CarrierFacts
  <2>2. used - 1 \in 0 .. used - 1 /\ used \in 1 .. Len(in) /\ used - 1 \in 0 .. Len(in)
      BY <1>3, <1>4, <2>1
  <2>3. held + Carried(SubSeq(in, 1, used - 1)) < CHUNK
    <3>1. ~ (held + Carried(SubSeq(in, 1, used - 1)) >= CHUNK)
        BY <1>3, <2>2
    <3>2. Carried(SubSeq(in, 1, used - 1)) \in Nat
        BY <1>5, <2>2
    <3> QED  BY <1>1, <1>7, <3>1, <3>2
  <2>4. Carried(SubSeq(in, 1, used)) = Carried(SubSeq(in, 1, used - 1)) + 0
      BY <1>5, <2>1, <2>2 DEF Plain
  <2>5. Carried(SubSeq(in, 1, used - 1)) \in Nat
      BY <1>5, <2>2
  <2> QED  BY <2>1, <2>3, <2>4, <2>5
<1>10. /\ in' \in Seq(StreamOctet) /\ Len(in') = Len(in) - used
       /\ \A k \in 1 .. Len(in') : in'[k] = in[used + k]
  <2> DEFINE e == SubSeq(in, used + 1, Len(in))
  <2>1. used \in Nat /\ used <= Len(in)
      BY <1>3, <1>4
  <2>2. /\ e \in Seq(StreamOctet) /\ Len(e) = IF used <= Len(in) THEN Len(in) - used ELSE 0
        /\ \A k \in 1 .. Len(e) : e[k] = in[used + k]
      BY <1>1, <2>1, EndIs
  <2>3. in' = e
      BY <1>2
  <2> HIDE DEF e
  <2> QED  BY <2>1, <2>2, <2>3
<1>11. Used' = Used + used
  <2>1. Used' = done - (Len(in) - used)
      BY <1>2, <1>10, Zenon DEF Used
  <2> QED  BY <1>1, <1>3, <1>4, <2>1
<1>12. /\ \A k \in 1 .. Used + used - 1 : source[k] \in Carrier
       /\ used > 0 => source[Used + used] = in[used]
       /\ Used + used \in 0 .. Len(source)
  <2>1. ASSUME NEW k \in 1 .. Used + used - 1  PROVE source[k] \in Carrier
    <3>1. CASE k <= Used
      <4>1. k \in 1 .. Used
          BY <1>1, <1>3, <1>4, <3>1
      <4> QED  BY <1>1, <4>1
    <3>2. CASE k > Used
      <4>1. k - Used \in 1 .. used - 1 /\ k - Used \in 1 .. Len(in) /\ Used + (k - Used) = k
          BY <1>1, <1>3, <1>4, <3>2
      <4>2. in[k - Used] = source[Used + (k - Used)]
          BY <1>1, <4>1
      <4> QED  BY <1>8, <4>1, <4>2
    <3> QED  BY <1>1, <3>1, <3>2
  <2>2. used > 0 => source[Used + used] = in[used]
      BY <1>1, <1>3, <1>4
  <2>3. Used + used \in 0 .. Len(source)
      BY <1>1, <1>3, <1>4
  <2> QED  BY <2>1, <2>2, <2>3
<1>13. holds + dest = Carried(SubSeq(source, 1, Used + used))
  <2> DEFINE a == SubSeq(source, 1, Used)
             b == SubSeq(in, 1, used)
             c == SubSeq(source, 1, Used + used)
  <2>1. /\ a \in Seq(StreamOctet) /\ Len(a) = Used
        /\ \A k \in 1 .. Used : a[k] = source[k]
    <3>1. Used \in 0 .. Len(source)
        BY <1>1
    <3> QED  BY <1>1, <3>1, BeginningIs
  <2>2. /\ b \in Seq(StreamOctet) /\ Len(b) = used
        /\ \A k \in 1 .. used : b[k] = in[k]
      BY <1>1, <1>3, BeginningIs
  <2>3. /\ c \in Seq(StreamOctet) /\ Len(c) = Used + used
        /\ \A k \in 1 .. Used + used : c[k] = source[k]
    <3> DEFINE u == Used + used
    <3>1. u \in 0 .. Len(source)
        BY <1>12
    <3> HIDE DEF u
    <3>2. /\ SubSeq(source, 1, u) \in Seq(StreamOctet) /\ Len(SubSeq(source, 1, u)) = u
          /\ \A k \in 1 .. u : SubSeq(source, 1, u)[k] = source[k]
        BY <1>1, <3>1, BeginningIs
    <3> QED  BY <3>2 DEF u
  <2>4. holds = held + Carried(b)
      OBVIOUS
  <2>5. held + dest = Carried(a)
      BY <1>1
  <2> HIDE DEF a, b, c, holds
  <2>6. ASSUME NEW k \in 1 .. used  PROVE c[Used + k] = b[k]
    <3>1. k \in 1 .. Len(in) /\ Used + k \in 1 .. Used + used
        BY <1>1, <1>3, <1>4
    <3> QED  BY <1>1, <2>2, <2>3, <3>1
  <2>7. ASSUME NEW k \in 1 .. Used  PROVE c[k] = a[k]
    <3>1. k \in 1 .. Used + used
        BY <1>1, <1>3, <1>4
    <3> QED  BY <2>1, <2>3, <3>1
  <2>8. Carried(c) = Carried(a) + Carried(b)
    <3>1. Len(c) = Len(a) + Len(b)
        BY <2>1, <2>2, <2>3
    <3>2. \A k \in 1 .. Len(a) : c[k] = a[k]
        BY <2>1, <2>7
    <3>3. \A k \in 1 .. Len(b) : c[Len(a) + k] = b[k]
        BY <2>1, <2>2, <2>6
    <3>4. a \in Seq(StreamOctet) /\ b \in Seq(StreamOctet) /\ c \in Seq(StreamOctet)
        BY <2>1, <2>2, <2>3
    <3> QED  BY <3>1, <3>2, <3>3, <3>4, SumsOfConcat
  <2>9. Carried(b) \in Nat
      BY <2>2, CarriedType
  <2>10. holds + dest = Carried(c)
      BY <1>1, <2>4, <2>5, <2>8, <2>9
  <2> QED  BY <2>10 DEF c
<1> HIDE DEF holds, amount, last
\* The stream is wrong.
<1>14. CASE last = BAD
  <2>1. used > 0 /\ source[Used + used] = BAD
      BY <1>9, <1>12, <1>14, CarrierFacts
  <2>2. ~ Complete(source)
    <3> DEFINE k == Used + used - 1
    <3>1. k \in 0 .. Len(source) /\ k + 1 = Used + used
        BY <1>1, <1>3, <1>4, <1>12, <2>1
    <3>2. (\A j \in 1 .. k : source[j] \in Carrier) /\ source[k + 1] = BAD
        BY <1>12, <2>1, <3>1
    <3> HIDE DEF k
    <3> QED  BY <1>1, <3>1, <3>2, NotComplete
  <2>3. loop' = "returned" /\ code' = "Z_DATA_ERROR" /\ failed' = failed
    <3>1. ret' = "Z_DATA_ERROR"
        BY <1>2, <1>14, CarrierFacts
    <3>2. Return(ret') /\ failed' = failed
        BY <1>2, <1>14
    <3> QED  BY <3>1, <3>2 DEF Return
  <2>4. defl' = defl /\ source' = source /\ flush' = flush
      BY <1>2
  <2>5. ~ Running'
      BY <2>3 DEF Running
  <2>6. Complete(source') <=> Complete(source)
      BY <2>4
  <2>7. DestInv' /\ OkMeansAll'
      BY <1>1, <2>2, <2>3, <2>4, <2>6 DEF DestInv, OkMeansAll
  <2> QED  BY <1>1, <2>4, <2>5, <2>7 DEF ZpipeInv, DefInv, InfInv
<1>15. CASE last # BAD
  <2>1. WriteText(amount, amount = CHUNK)
      BY <1>2, <1>15
  <2>2. /\ defl' = defl /\ source' = source /\ done' = done /\ flush' = flush
        /\ held' = holds - amount /\ held' \in Nat
      BY <1>2, <1>6, <1>7
  <2>3. /\ last = END => ret' = "Z_STREAM_END"
        /\ last # END => ret' # "Z_STREAM_END"
      BY <1>2, <1>15
  <2>4. CASE \E k \in 0 .. amount : dest' = dest + k /\ failed' = TRUE /\ Return("Z_ERRNO")
    <3>1. failed' = TRUE /\ Return("Z_ERRNO")
        BY <2>4
    <3>2. defl' \in BOOLEAN /\ flush' \in BOOLEAN
        BY <1>1, <2>2 DEF ZpipeInv
    <3> QED  BY <1>1, <3>1, <3>2, OtherReturn
  <2>5. CASE dest' = dest + amount /\ Turned(amount = CHUNK) /\ UNCHANGED failed
    <3>1. dest' \in Nat /\ held' + dest' = Carried(SubSeq(source', 1, Used')) /\ failed' = failed
      <4>1. held' + dest' = holds + dest
          BY <1>1, <1>6, <1>7, <2>2, <2>5
      <4> QED  BY <1>1, <1>7, <1>11, <1>13, <2>2, <2>5, <4>1
    <3>2. CASE last = END
      <4>1. used > 0 /\ source[Used + used] = END /\ holds < CHUNK
          BY <1>9, <1>12, <3>2, CarrierFacts
      <4>2. amount < CHUNK /\ held' = 0 /\ ret' = "Z_STREAM_END"
          BY <1>6, <1>7, <2>2, <2>3, <3>2, <4>1
      <4>3. loop' = "returned" /\ code' = "Z_OK"
          BY <1>1, <1>7, <2>5, <4>2 DEF Turned, Return
      <4>4. Complete(source) /\ UpToEnd(source) = SubSeq(source, 1, Used + used)
        <5> DEFINE k == Used + used
        <5>1. k \in 1 .. Len(source) /\ source[k] = END /\ \A j \in 1 .. k - 1 : source[j] \in Carrier
            BY <1>1, <1>3, <1>4, <1>12, <4>1
        <5> HIDE DEF k
        <5>2. Complete(source) /\ UpToEnd(source) = SubSeq(source, 1, k)
            BY <1>1, <5>1, UpToEndIs
        <5> QED  BY <5>2 DEF k
      <4>5. dest' = Carried(UpToEnd(source))
          BY <1>11, <2>2, <3>1, <4>2, <4>4
      <4>6. Complete(source') /\ dest' = Carried(UpToEnd(source'))
          BY <2>2, <4>4, <4>5
      <4>7. DestInv' /\ OkMeansAll'
          BY <1>1, <2>2, <3>1, <4>3, <4>6 DEF DestInv, OkMeansAll, Whole
      <4>8. ~ Running'
          BY <4>3 DEF Running
      <4> QED  BY <1>1, <2>2, <4>7, <4>8 DEF ZpipeInv, DefInv, InfInv
    <3>3. CASE last # END
      <4>1. /\ \A k \in 1 .. Used' : source'[k] \in Carrier
            /\ Used' \in 0 .. done' /\ done' \in 0 .. Len(source')
            /\ \A k \in 1 .. Len(in') : in'[k] = source'[Used' + k]
        <5>1. last \in Carrier
          <6>1. CASE used > 0
            <7>1. in[used] \in StreamOctet /\ last = in[used]
                BY <1>1, <1>3, <1>4, <6>1 DEF last
            <7> QED  BY <1>15, <3>3, <7>1 DEF StreamOctet
          <6>2. CASE ~ (used > 0)
              BY <6>2, CarrierFacts DEF last
          <6> QED  BY <6>1, <6>2
        <5>2. used > 0 => source[Used + used] \in Carrier
            BY <1>12, <5>1 DEF last
        <5>3. ASSUME NEW k \in 1 .. Used + used  PROVE source[k] \in Carrier
          <6>1. CASE k = Used + used
            <7>1. CASE used > 0
                BY <5>2, <6>1, <7>1
            <7>2. CASE ~ (used > 0)
              <8>1. k \in 1 .. Used
                  BY <1>1, <1>3, <1>4, <6>1, <7>2
              <8> QED  BY <1>1, <8>1
            <7> QED  BY <7>1, <7>2
          <6>2. CASE k # Used + used
            <7>1. k \in 1 .. Used + used - 1
                BY <1>1, <1>3, <1>4, <6>2
            <7> QED  BY <1>12, <7>1
          <6> QED  BY <6>1, <6>2
        <5>4. Used + used \in 0 .. done
            BY <1>1, <1>3, <1>4
        <5>5. ASSUME NEW k \in 1 .. Len(in')  PROVE in'[k] = source[(Used + used) + k]
          <6>1. used + k \in 1 .. Len(in) /\ Used + (used + k) = (Used + used) + k
              BY <1>1, <1>3, <1>4, <1>10
          <6> QED  BY <1>1, <1>10, <6>1
        <5> QED  BY <1>1, <1>11, <2>2, <5>3, <5>4, <5>5
      <4>2. source' \in Seq(StreamOctet) /\ ret' # "Z_STREAM_END"
          BY <1>1, <2>2, <2>3, <3>3
      <4>3. CASE amount = CHUNK
        <5>1. loop' = "pump" /\ code' = code
            BY <1>1, <2>5, <4>3 DEF Turned
        <5>2. Running'
            BY <5>1 DEF Running
        <5>3. InfInv'
            BY <1>10, <3>1, <4>1, <4>2, <5>1 DEF InfInv
        <5>4. DefInv'
            BY <1>1, <2>2 DEF DefInv
        <5>5. DestInv' /\ OkMeansAll'
            BY <1>1, <3>1, <5>1 DEF DestInv, OkMeansAll
        <5> QED  BY <1>1, <2>2, <3>1, <5>1, <5>2, <5>3, <5>4, <5>5 DEF ZpipeInv
      <4>4. CASE amount # CHUNK
        <5>1. loop' = "read" /\ code' = code
            BY <1>1, <2>5, <4>2, <4>4 DEF Turned
        <5>2. Running'
            BY <5>1 DEF Running
        <5>3. used = Len(in)
          <6>1. holds < CHUNK
              BY <1>6, <1>7, <4>4
          <6>2. ~ (held + Carried(SubSeq(in, 1, used)) >= CHUNK)
              BY <1>6, <1>7, <6>1 DEF holds
          <6>3. ~ (used > 0 /\ in[used] \notin Carrier)
              BY <1>9, <1>12, <4>1, <1>11, <2>2, <1>3, <1>4, <1>1
          <6> QED  BY <1>3, <6>2, <6>3
        <5>4. in' = << >>
          <6>1. Len(in') = 0
              BY <1>4, <1>10, <5>3
          <6> QED  BY <1>10, <6>1
        <5>5. InfInv'
            BY <1>10, <3>1, <4>1, <4>2, <5>4 DEF InfInv
        <5>6. DefInv'
            BY <1>1, <2>2 DEF DefInv
        <5>7. DestInv' /\ OkMeansAll'
            BY <1>1, <3>1, <5>1 DEF DestInv, OkMeansAll
        <5> QED  BY <1>1, <2>2, <3>1, <5>1, <5>2, <5>5, <5>6, <5>7 DEF ZpipeInv
      <4> QED  BY <4>3, <4>4
    <3> QED  BY <3>2, <3>3
  <2> QED  BY <2>1, <2>4, <2>5 DEF WriteText
<1> QED  BY <1>14, <1>15

\* An error of inflate() ends the program without success.
LEMMA InflateFailsStep == ZpipeInv /\ InflateFails => ZpipeInv'
<1> SUFFICES ASSUME ZpipeInv, InflateFails  PROVE ZpipeInv'
    OBVIOUS
<1>1. /\ Running /\ defl' = defl /\ flush' = flush /\ failed' = failed
      /\ Return("Z_MEM_ERROR") /\ ~ failed
      /\ defl \in BOOLEAN /\ flush \in BOOLEAN
    BY DEF InflateFails, Running, ZpipeInv
<1> QED  BY <1>1, OtherReturn

\* exit() writes the rest of what fwrite() took, or something is lost.
LEMMA ExitStep == ZpipeInv /\ Exit => ZpipeInv'
<1> SUFFICES ASSUME ZpipeInv, Exit  PROVE ZpipeInv'
    OBVIOUS
<1>1. /\ loop' = "exited" /\ defl' = defl /\ source' = source /\ dest' = dest
      /\ flush' = flush /\ failed' = failed /\ code' = code
      /\ written' = SizeOf(dest) \/ lost'
    BY DEF Exit
<1>2. ~ Running'
    BY <1>1 DEF Running
<1>3. DefInv' /\ InfInv' /\ DestInv'
    BY <1>1, <1>2 DEF ZpipeInv, DefInv, InfInv, DestInv
<1>4. OkMeansAll'
  <2>1. code = "Z_OK" => Whole(dest)'
    <3>1. code = "Z_OK" => Whole(dest)
        BY DEF ZpipeInv, OkMeansAll
    <3> QED  BY <1>1, <3>1 DEF Whole
  <2>2. code = "Z_OK" /\ ~ lost' => Whole(File)'
    <3> SUFFICES ASSUME code = "Z_OK", ~ lost'  PROVE Whole(File)'
        OBVIOUS
    <3>1. File' = dest'
      <4>1. CASE defl
        <5>1. dest \in Seq(Carrier \cup {END})
            BY <4>1 DEF ZpipeInv, DestInv
        <5>2. SubSeq(dest, 1, Len(dest)) = dest
            BY <5>1
        <5> QED  BY <1>1, <4>1, <5>2 DEF File, SizeOf
      <4>2. CASE ~ defl
          BY <1>1, <4>2 DEF File, SizeOf
      <4> QED  BY <4>1, <4>2
    <3> QED  BY <2>1, <3>1 DEF Whole
  <2> QED  BY <1>1, <2>1, <2>2 DEF ZpipeInv, OkMeansAll
<1> QED  BY <1>1, <1>2, <1>3, <1>4 DEF ZpipeInv

-----------------------------------------------------------------------------
(* zpipe as a whole.                                                       *)

\* ZpipeInv is inductive.
LEMMA ZpipeInvStep == ZpipeInv /\ [ZpipeStep \/ ZpipeEnded]_zpipeVars => ZpipeInv'
<1> SUFFICES ASSUME ZpipeInv, [ZpipeStep \/ ZpipeEnded]_zpipeVars  PROVE ZpipeInv'
    OBVIOUS
<1>1. CASE Start
    BY <1>1, StartStep
<1>2. CASE Read
  <2>1. defl \/ ~ defl
      OBVIOUS
  <2> QED  BY <1>2, <2>1, DefReads, InfReads
<1>3. CASE FreadFails
    BY <1>3, FreadFailsStep
<1>4. CASE DeflateTurn
    BY <1>4, DefTurns
<1>5. CASE InflateTurn
    BY <1>5, InfTurns
<1>6. CASE InflateFails
    BY <1>6, InflateFailsStep
<1>7. CASE Exit
    BY <1>7, ExitStep
<1>8. CASE ZpipeEnded \/ UNCHANGED zpipeVars
  <2>1. /\ defl' = defl /\ source' = source /\ done' = done /\ in' = in /\ flush' = flush
        /\ held' = held /\ dest' = dest /\ written' = written /\ ret' = ret /\ loop' = loop
        /\ failed' = failed /\ lost' = lost /\ code' = code
      BY <1>8 DEF ZpipeEnded, zpipeVars
  <2>2. (Running' <=> Running) /\ Used' = Used
      BY <2>1 DEF Running, Used
  <2>3. DefInv' /\ InfInv'
      BY <2>1, <2>2 DEF ZpipeInv, DefInv, InfInv
  <2>4. DestInv' /\ OkMeansAll'
      BY <2>1 DEF ZpipeInv, DestInv, OkMeansAll, Whole, File
  <2> QED  BY <2>1, <2>2, <2>3, <2>4 DEF ZpipeInv
<1> QED  BY <1>1, <1>2, <1>3, <1>4, <1>5, <1>6, <1>7, <1>8 DEF ZpipeStep

\* The inductive invariant of zpipe.
THEOREM ZpipeInvariant == ZpipeSpec => []ZpipeInv
<1> QED  BY ZpipeInvInit, ZpipeInvStep, PTL DEF ZpipeSpec

\* zpipe answers Z_OK only when all that it was given is in what fwrite() took,
\* and then it is in the file in the end, unless the write at exit fails.
THEOREM ZpipeOkMeansAll == ZpipeSpec => []OkMeansAll
<1>1. ZpipeInv => OkMeansAll
    BY DEF ZpipeInv
<1> QED  BY <1>1, ZpipeInvariant, PTL

-----------------------------------------------------------------------------
(* The searches of the static table.                                       *)

N == Len(StaticTable)

\* The static table is a sequence of entries.
LEMMA TableLength == N \in Nat /\ StaticTable \in Seq(Entry)
BY TableAssumption DEF N

\* Where the search ends for each range of len names, given where it ends for
\* the shorter ones.
Row(name, f, len) ==
    [first \in 1 .. N + 1 - len |->
        LET half == len \div 2
            mid  == first + half
        IN  IF len = 0 THEN first
            ELSE IF NameRank[StaticTable[mid].name] < NameRank[name]
                 THEN f[len - half - 1][mid + 1]
                 ELSE f[half][first]]

\* f is the search of the ranges of at most n names.
SearchOf(f, name, n) ==
    /\ f = [k \in 0 .. n |-> f[k]]
    /\ \A k \in 0 .. n : f[k] = Row(name, f, k)

\* What is left of a range is shorter.
LEMMA Halves ==
    ASSUME NEW len \in Nat \ {0}
    PROVE  len \div 2 \in 0 .. len - 1 /\ len - len \div 2 - 1 \in 0 .. len - 1
<1>1. len \div 2 \in Nat /\ 2 * (len \div 2) <= len
    OBVIOUS
<1> QED  BY <1>1

\* The rows of a table that stays.
LEMMA RowSame ==
    ASSUME NEW name, NEW f, NEW g, NEW len \in Nat, \A k \in 0 .. len - 1 : f[k] = g[k]
    PROVE  Row(name, f, len) = Row(name, g, len)
<1>1. CASE len = 0
    BY <1>1 DEF Row
<1>2. CASE len # 0
  <2>1. len \div 2 \in 0 .. len - 1 /\ len - len \div 2 - 1 \in 0 .. len - 1
      BY <1>2, Halves
  <2>2. f[len \div 2] = g[len \div 2] /\ f[len - len \div 2 - 1] = g[len - len \div 2 - 1]
      BY <2>1
  <2> QED  BY <2>2, Zenon DEF Row
<1> QED  BY <1>1, <1>2

\* The search for a name exists as a function.
LEMMA SearchExists ==
    ASSUME NEW name
    PROVE  \E f : SearchOf(f, name, N)
<1> DEFINE T == {n \in 0 .. N : \E f : SearchOf(f, name, n)}
<1>1. 0 \in T
  <2> DEFINE f == [k \in 0 .. 0 |-> Row(name, << >>, 0)]
  <2>1. Row(name, << >>, 0) = Row(name, f, 0)
    <3> HIDE DEF f
    <3> QED  BY DEF Row
  <2>2. f = [k \in 0 .. 0 |-> f[k]] /\ f[0] = Row(name, << >>, 0) /\ \A k \in 0 .. 0 : k = 0
      OBVIOUS
  <2>3. SearchOf(f, name, 0)
    <3> HIDE DEF f
    <3> QED  BY <2>1, <2>2 DEF SearchOf
  <2> QED  BY <2>3, TableLength
<1>2. ASSUME NEW n \in 0 .. N - 1, n \in T  PROVE n + 1 \in T
  <2>1. PICK f : SearchOf(f, name, n)
      BY <1>2
  <2>2. n \in Nat /\ n + 1 \in 0 .. N /\ (n + 1) - 1 = n /\ n + 1 \in Nat
      BY TableLength
  <2> DEFINE g == [k \in 0 .. n + 1 |-> IF k = n + 1 THEN Row(name, f, n + 1) ELSE f[k]]
  <2>3. \A k \in 0 .. n : g[k] = f[k]
      BY <2>2
  <2>4. g[n + 1] = Row(name, f, n + 1) /\ g = [k \in 0 .. n + 1 |-> g[k]]
      BY <2>2
  <2> HIDE DEF g
  <2>5. ASSUME NEW k \in 0 .. n + 1  PROVE g[k] = Row(name, g, k)
    <3>1. k \in Nat /\ \A i \in 0 .. k - 1 : f[i] = g[i]
        BY <2>2, <2>3
    <3>2. Row(name, f, k) = Row(name, g, k)
        BY <3>1, RowSame
    <3>3. CASE k = n + 1
        BY <2>4, <3>2, <3>3
    <3>4. CASE k # n + 1
      <4>1. k \in 0 .. n
          BY <2>2, <3>4
      <4> QED  BY <2>1, <2>3, <3>2, <4>1 DEF SearchOf
    <3> QED  BY <3>3, <3>4
  <2>6. SearchOf(g, name, n + 1)
      BY <2>4, <2>5 DEF SearchOf
  <2> QED  BY <2>2, <2>6
<1>3. 0 .. N \subseteq T
  <2> HIDE DEF T
  <2> QED  BY <1>1, <1>2, Induction, TableLength
<1> QED  BY <1>3, TableLength

\* The recursive definition of lower_bound defines a function.
LEMMA SearchIs ==
    ASSUME NEW name
    PROVE  SearchOf(SearchFrom(name), name, N)
<1> DEFINE L(f) == [k \in 0 .. N |-> Row(name, f, k)]
           g == SearchFrom(name)
<1>1. PICK f : SearchOf(f, name, N)
    BY SearchExists
<1>2. f = L(f)
    BY <1>1 DEF SearchOf
<1>3. g = CHOOSE h : h = L(h)
    BY DEF SearchFrom, Row, N
<1>4. g = L(g)
  <2> HIDE DEF g, L
  <2> QED  BY <1>2, <1>3
<1>5. \A k \in 0 .. N : g[k] = Row(name, g, k)
  <2> HIDE DEF g
  <2> QED  BY <1>4
<1>6. g = [k \in 0 .. N |-> g[k]]
  <2> HIDE DEF g
  <2> QED  BY <1>4
<1> QED  BY <1>5, <1>6 DEF SearchOf

\* A turn of the loop leaves the place where it ends as it is.
LEMMA SearchTurn ==
    ASSUME NEW name, NEW len \in 0 .. N, NEW first \in 1 .. N + 1 - len
    PROVE  LET half == len \div 2
               mid  == first + half
           IN  SearchFrom(name)[len][first] =
                  IF len = 0 THEN first
                  ELSE IF NameRank[StaticTable[mid].name] < NameRank[name]
                       THEN SearchFrom(name)[len - half - 1][mid + 1]
                       ELSE SearchFrom(name)[half][first]
<1> DEFINE g == SearchFrom(name)
<1>1. g[len] = Row(name, g, len)
    BY SearchIs DEF SearchOf
<1> HIDE DEF g
<1>2. g[len][first] = Row(name, g, len)[first]
    BY <1>1
<1> QED  BY <1>2 DEF Row, g

-----------------------------------------------------------------------------
(* The loops of the searches.                                              *)

\* How many there are to search.
LEMMA SizeType == Size \in Nat /\ (task.find # "code" => Size = N)
<1>1. Len(huff_decode_table) \in Nat
  <2>1. DOMAIN huff_decode_table = 1 .. 256
      BY DEF huff_decode_table
  <2> QED  BY <2>1
<1> QED  BY <1>1, TableLength DEF Size, N

\* While lower_bound runs it will end where LowerBound says; while find_static()
\* walks, the entries passed have the name and another value.
SearchInv ==
    /\ SearchTypeOK
    /\ stage \in {"search", "walk", "done"}
    /\ stage = "walk" => task.find = "header" /\ count = 0
    /\ stage # "done" => result = 0
    /\ (task.find # "code" /\ stage = "search") =>
          SearchFrom(task.key.name)[count][start] = LowerBound(task.key.name)
    /\ stage = "walk" =>
          LET p == FindFirstStatic(task.key.name)
          IN  /\ p \in 1 .. start
              /\ \A r \in p .. start : StaticTable[r].name = task.key.name
              /\ \A r \in p .. start - 1 : StaticTable[r].value # task.key.value
    /\ LookupComputed

\* What is searched for is one of the three.
LEMMA TaskShape ==
    ASSUME task \in Tasks
    PROVE  task.find # "code" => task.find \in {"name", "header"} /\ task.key \in Entry
BY SearchAssumption DEF Tasks

\* A search starts with the whole range.
LEMMA SearchInvInit == SearchInit => SearchInv
<1> SUFFICES ASSUME SearchInit  PROVE SearchInv
    OBVIOUS
<1>1. task \in Tasks /\ start = 1 /\ count = Size /\ stage = "search" /\ result = 0
    BY DEF SearchInit
<1>2. SearchTypeOK
    BY <1>1, SizeType DEF SearchTypeOK
<1>3. task.find # "code" => SearchFrom(task.key.name)[count][start] = LowerBound(task.key.name)
    BY <1>1, SizeType, Zenon DEF LowerBound, N
<1> QED  BY <1>1, <1>2, <1>3 DEF SearchInv, LookupComputed

\* A turn of lower_bound() keeps the range in the table.
LEMMA NarrowStep == SearchInv /\ Narrow => SearchInv'
<1> SUFFICES ASSUME SearchInv, Narrow  PROVE SearchInv'
    OBVIOUS
<1> DEFINE half == count \div 2
           name == task.key.name
           S(a, b) == SearchFrom(name)[a][b]
<1>1. /\ stage = "search" /\ count > 0 /\ task \in Tasks /\ result = 0
      /\ start \in 1 .. Size + 1 /\ count \in 0 .. Size /\ start + count <= Size + 1
      /\ task.find # "code" => SearchFrom(task.key.name)[count][start] = LowerBound(task.key.name)
    BY DEF Narrow, SearchInv, SearchTypeOK
<1>2. /\ task' = task /\ stage' = stage /\ result' = result
      /\ IF Below(start + half)
         THEN start' = start + half + 1 /\ count' = count - half - 1
         ELSE start' = start /\ count' = half
    BY DEF Narrow
<1>3. Size \in Nat /\ Size' = Size /\ (task.find # "code" => Size = N)
    BY <1>2, SizeType DEF Size
<1>4. count \in Nat \ {0} /\ half \in 0 .. count - 1 /\ count - half - 1 \in 0 .. count - 1
    BY <1>1, <1>3, Halves
<1> HIDE DEF half
<1>5. start' \in 1 .. Size + 1 /\ count' \in 0 .. Size /\ start' + count' <= Size + 1
  <2>1. CASE Below(start + half)
      BY <1>1, <1>2, <1>3, <1>4, <2>1
  <2>2. CASE ~ Below(start + half)
      BY <1>1, <1>2, <1>3, <1>4, <2>2
  <2> QED  BY <2>1, <2>2
<1>6. SearchTypeOK'
  <2>1. start' \in 1 .. Size' + 1 /\ count' \in 0 .. Size' /\ start' + count' <= Size' + 1
      BY <1>3, <1>5
  <2>2. stage' # "walk" /\ result' \in 0 .. Size' + 1 /\ task' \in Tasks
      BY <1>1, <1>2, <1>3
  <2> QED  BY <2>1, <2>2 DEF SearchTypeOK
<1>7. ASSUME task.find # "code"  PROVE S(count', start') = S(count, start)
  <2>1. count \in 0 .. N /\ start \in 1 .. N + 1 - count
      BY <1>1, <1>3, <1>4, <1>7
  <2>2. S(count, start) =
          IF count = 0 THEN start
          ELSE IF NameRank[StaticTable[start + half].name] < NameRank[name]
               THEN S(count - half - 1, start + half + 1)
               ELSE S(half, start)
      BY <2>1, SearchTurn DEF half
  <2>3. Below(start + half) <=> NameRank[StaticTable[start + half].name] < NameRank[name]
      BY <1>7 DEF Below
  <2>4. CASE Below(start + half)
      BY <1>1, <1>2, <2>2, <2>3, <2>4
  <2>5. CASE ~ Below(start + half)
      BY <1>1, <1>2, <2>2, <2>3, <2>5
  <2> QED  BY <2>4, <2>5
<1>8. (task.find # "code") => SearchFrom(task.key.name)[count'][start'] = LowerBound(task.key.name)
    BY <1>1, <1>7
<1> QED  BY <1>1, <1>2, <1>6, <1>8 DEF SearchInv, LookupComputed

\* The end of the search for a code.
LEMMA CodeFoundStep == SearchInv /\ CodeFound => SearchInv'
<1> SUFFICES ASSUME SearchInv, CodeFound  PROVE SearchInv'
    OBVIOUS
<1>1. /\ task.find = "code" /\ stage' = "done" /\ task' = task /\ start' = start /\ count' = count
      /\ task \in Tasks /\ start \in 1 .. Size + 1 /\ count \in 0 .. Size /\ start + count <= Size + 1
    BY DEF CodeFound, SearchInv, SearchTypeOK
<1>2. result' \in {start - 1, start}
    BY DEF CodeFound
<1>3. Size \in Nat /\ Size' = Size
    BY <1>1, SizeType DEF Size
<1>4. SearchTypeOK'
    BY <1>1, <1>2, <1>3 DEF SearchTypeOK
<1> QED  BY <1>1, <1>4 DEF SearchInv, LookupComputed

\* The end of the search for a name.
LEMMA NameFoundStep == SearchInv /\ NameFound => SearchInv'
<1> SUFFICES ASSUME SearchInv, NameFound  PROVE SearchInv'
    OBVIOUS
<1> DEFINE name == task.key.name
<1>1. /\ stage = "search" /\ count = 0 /\ task.find # "code" /\ task \in Tasks /\ result = 0
      /\ start \in 1 .. Size + 1 /\ SearchFrom(name)[count][start] = LowerBound(name)
      /\ task' = task /\ start' = start /\ count' = count
    BY DEF NameFound, Found, SearchInv, SearchTypeOK
<1>2. Size = N /\ Size' = Size /\ N \in Nat /\ DOMAIN StaticTable = 1 .. N
  <2>1. Size = N /\ Size \in Nat
      BY <1>1, SizeType
  <2>2. Size' = Size
      BY <1>1 DEF Size
  <2> QED  BY <2>1, <2>2, TableLength DEF N
<1>3. LowerBound(name) = start
  <2>1. 0 \in 0 .. N /\ start \in 1 .. N + 1 - 0
      BY <1>1, <1>2
  <2>2. SearchFrom(name)[0][start] = start
      BY <2>1, SearchTurn
  <2> QED  BY <1>1, <2>2
<1>4. FindFirstStatic(name) = IF SameName(start) THEN start ELSE 0
  <2>1. SameName(start) <=> start \in DOMAIN StaticTable /\ StaticTable[start].name = name
      BY <1>1, <1>2 DEF SameName
  <2> QED  BY <1>3, <2>1 DEF FindFirstStatic
<1>5. SearchTypeOK'
  <2>1. IF SameName(start) /\ task.find = "header"
        THEN stage' = "walk" /\ result' = result
        ELSE stage' = "done" /\ result' = IF SameName(start) THEN start ELSE 0
      BY DEF NameFound
  <2>2. SameName(start) => start <= Size
      BY DEF SameName
  <2>3. count' \in 0 .. Size' /\ start' + count' <= Size' + 1 /\ start' \in 1 .. Size' + 1
      BY <1>1, <1>2
  <2>4. result' \in 0 .. Size + 1
      BY <1>1, <1>2, <2>1
  <2>5. stage' = "walk" => start' <= Size'
      BY <1>1, <1>2, <2>1, <2>2
  <2> QED  BY <1>1, <1>2, <2>3, <2>4, <2>5 DEF SearchTypeOK
<1>6. CASE SameName(start) /\ task.find = "header"
  <2>1. stage' = "walk" /\ result' = result
      BY <1>6 DEF NameFound
  <2>2. FindFirstStatic(name) = start /\ start \in 1 .. start /\ StaticTable[start].name = name
      BY <1>1, <1>4, <1>6 DEF SameName
  <2>3. start \in Nat /\ (\A r \in start .. start : r = start) /\ start .. start - 1 = {}
      BY <1>1, <1>2
  <2> QED  BY <1>1, <1>5, <1>6, <2>1, <2>2, <2>3 DEF SearchInv, LookupComputed
<1>7. CASE ~ (SameName(start) /\ task.find = "header")
  <2>1. stage' = "done" /\ result' = IF SameName(start) THEN start ELSE 0
      BY <1>7 DEF NameFound
  <2>2. task.find = "header" => FindStatic(task.key) = 0 /\ result' = 0
    <3> SUFFICES ASSUME task.find = "header"  PROVE FindStatic(task.key) = 0 /\ result' = 0
        OBVIOUS
    <3>1. FindFirstStatic(name) = 0 /\ result' = 0
        BY <1>4, <1>7, <2>1
    <3> QED  BY <3>1 DEF FindStatic
  <2>3. result' = FindFirstStatic(name)
      BY <1>4, <2>1
  <2>4. LookupComputed'
    <3>1. task.find = "name" \/ task.find = "header"
        BY <1>1, TaskShape
    <3> QED  BY <1>1, <2>2, <2>3, <3>1 DEF LookupComputed
  <2> QED  BY <1>1, <1>5, <2>1, <2>4 DEF SearchInv
<1> QED  BY <1>6, <1>7

\* A turn of the walk over the entries with the name.
LEMMA WalkStep == SearchInv /\ Walk => SearchInv'
<1> SUFFICES ASSUME SearchInv, Walk  PROVE SearchInv'
    OBVIOUS
<1> DEFINE e == task.key
           p == FindFirstStatic(e.name)
           hits == {q \in p .. N : /\ StaticTable[q].value = e.value
                                   /\ \A r \in p .. q : StaticTable[r].name = e.name}
<1>1. /\ stage = "walk" /\ task.find = "header" /\ task \in Tasks /\ result = 0
      /\ start \in 1 .. Size + 1 /\ start <= Size
      /\ count \in 0 .. Size /\ start + count <= Size + 1
      /\ p \in 1 .. start
      /\ \A r \in p .. start : StaticTable[r].name = e.name
      /\ \A r \in p .. start - 1 : StaticTable[r].value # e.value
      /\ task' = task /\ count' = count
    BY DEF Walk, SearchInv, SearchTypeOK
<1>2. Size = N /\ Size' = Size /\ N \in Nat
    BY <1>1, SizeType DEF Size
<1>3. start \in Nat /\ p \in Nat /\ p # 0 /\ start <= N
    BY <1>1, <1>2
<1>4. FindStatic(e) = IF hits = {} THEN 0 ELSE Min(hits)
    BY <1>3 DEF FindStatic, N
<1> HIDE DEF p
<1>5. CASE StaticTable[start].value = e.value
  <2>1. stage' = "done" /\ result' = start /\ start' = start
      BY <1>5 DEF Walk
  <2>2. start \in hits /\ hits \subseteq Nat
      BY <1>1, <1>2, <1>3, <1>5
  <2>3. \A q \in hits : ~ (q < start)
    <3> SUFFICES ASSUME NEW q \in hits, q < start  PROVE FALSE
        OBVIOUS
    <3>1. q \in p .. start - 1 /\ StaticTable[q].value = e.value
        BY <1>1, <1>2, <1>3
    <3> QED  BY <1>1, <3>1
  <2>4. Min(hits) = start
    <3> HIDE DEF hits
    <3>1. Min(hits) \in hits /\ Min(hits) <= start
        BY <2>2, LeastIs
    <3>2. ~ (Min(hits) < start) /\ Min(hits) \in Nat
        BY <2>2, <2>3, <3>1
    <3> QED  BY <1>3, <3>1, <3>2
  <2>5. FindStatic(e) = start
    <3> HIDE DEF hits
    <3> QED  BY <1>4, <2>2, <2>4
  <2>6. LookupComputed'
      BY <1>1, <2>1, <2>5 DEF LookupComputed
  <2>7. SearchTypeOK'
      BY <1>1, <1>2, <2>1 DEF SearchTypeOK
  <2> QED  BY <1>1, <2>1, <2>6, <2>7 DEF SearchInv
<1>6. CASE StaticTable[start].value # e.value
  <2>1. /\ start' = start + 1 /\ result' = result
        /\ stage' = IF SameName(start + 1) THEN "walk" ELSE "done"
      BY <1>6 DEF Walk
  <2>2. SameName(start + 1) <=> start + 1 <= N /\ StaticTable[start + 1].name = e.name
      BY <1>2 DEF SameName
  <2>3. \A r \in p .. start : StaticTable[r].value # e.value
    <3> SUFFICES ASSUME NEW r \in p .. start  PROVE StaticTable[r].value # e.value
        OBVIOUS
    <3>1. r = start \/ r \in p .. start - 1
        BY <1>3
    <3> QED  BY <1>1, <1>6, <3>1
  <2>4. SearchTypeOK'
    <3>1. count = 0
        BY <1>1 DEF SearchInv
    <3>2. start' \in 1 .. Size' + 1 /\ start' + count' <= Size' + 1 /\ count' \in 0 .. Size'
        BY <1>1, <1>2, <1>3, <2>1, <3>1
    <3>3. stage' = "walk" => start' <= Size'
        BY <1>2, <2>1, <2>2
    <3>4. result' \in 0 .. Size' + 1 /\ task' \in Tasks
        BY <1>1, <1>2, <2>1
    <3> QED  BY <3>2, <3>3, <3>4 DEF SearchTypeOK
  <2>5. count' = 0
      BY <1>1 DEF SearchInv
  <2>6. CASE SameName(start + 1)
    <3>1. stage' = "walk"
        BY <2>1, <2>6
    <3>2. p \in 1 .. start'
        BY <1>1, <1>3, <2>1
    <3>3. \A r \in p .. start' : StaticTable[r].name = e.name
      <4> SUFFICES ASSUME NEW r \in p .. start + 1  PROVE StaticTable[r].name = e.name
          BY <2>1
      <4>1. r = start + 1 \/ r \in p .. start
          BY <1>3
      <4> QED  BY <1>1, <2>2, <2>6, <4>1
    <3>4. \A r \in p .. start' - 1 : StaticTable[r].value # e.value
      <4>1. start' - 1 = start
          BY <1>3, <2>1
      <4> QED  BY <2>3, <4>1
    <3> QED  BY <1>1, <2>1, <2>4, <2>5, <3>1, <3>2, <3>3, <3>4 DEF SearchInv, LookupComputed, p
  <2>7. CASE ~ SameName(start + 1)
    <3>1. stage' = "done" /\ result' = 0
        BY <1>1, <2>1, <2>7
    <3>2. hits = {}
      <4> SUFFICES ASSUME NEW q \in hits  PROVE FALSE
          OBVIOUS
      <4>1. /\ q \in p .. N /\ StaticTable[q].value = e.value
            /\ \A r \in p .. q : StaticTable[r].name = e.name
          OBVIOUS
      <4>2. q \notin p .. start
          BY <2>3, <4>1
      <4>3. start + 1 \in p .. q /\ start + 1 <= N
          BY <1>1, <1>2, <1>3, <4>1, <4>2
      <4> QED  BY <2>2, <2>7, <4>1, <4>3
    <3>3. FindStatic(e) = 0
        BY <1>4, <3>2
    <3>4. LookupComputed'
        BY <1>1, <3>1, <3>3 DEF LookupComputed
    <3> QED  BY <1>1, <2>4, <3>1, <3>4 DEF SearchInv
  <2> QED  BY <2>6, <2>7
<1> QED  BY <1>5, <1>6

\* SearchInv is inductive.
LEMMA SearchInvStep == SearchInv /\ [SearchNext]_searchVars => SearchInv'
<1> SUFFICES ASSUME SearchInv, [SearchNext]_searchVars  PROVE SearchInv'
    OBVIOUS
<1>1. CASE Narrow
    BY <1>1, NarrowStep
<1>2. CASE CodeFound
    BY <1>2, CodeFoundStep
<1>3. CASE NameFound
    BY <1>3, NameFoundStep
<1>4. CASE Walk
    BY <1>4, WalkStep
<1>5. CASE SearchEnded \/ UNCHANGED searchVars
  <2>1. task' = task /\ start' = start /\ count' = count /\ stage' = stage /\ result' = result
      BY <1>5 DEF SearchEnded, searchVars
  <2> QED  BY <2>1 DEF SearchInv, SearchTypeOK, LookupComputed, Size
<1> QED  BY <1>1, <1>2, <1>3, <1>4, <1>5 DEF SearchNext

\* The inductive invariant of the searches.
THEOREM SearchInvariant == SearchSpec => []SearchInv
<1> QED  BY SearchInvInit, SearchInvStep, PTL DEF SearchSpec

\* No search compares an entry outside its table on the way.
THEOREM SearchTypeCorrect == SearchSpec => []SearchTypeOK
<1>1. SearchInv => SearchTypeOK
    BY DEF SearchInv
<1> QED  BY <1>1, SearchInvariant, PTL

\* find_first_static() and find_static() answer what HpackTable says that they
\* do, sorted or not.
THEOREM LookupsComputed == SearchSpec => []LookupComputed
<1>1. SearchInv => LookupComputed
    BY DEF SearchInv
<1> QED  BY <1>1, SearchInvariant, PTL

-----------------------------------------------------------------------------
(* The scan of the lines.                                                  *)

Clean == Char \ {NUL, NL}

\* A header as the scan makes it.
Header ==
    {h \in [name : Seq(Clean) \ {<< >>}, value : Seq(Char)] :
        /\ \A j \in 2 .. Len(h.name) : h.name[j] # COLON
        /\ CString(h.value) \in Seq(Clean)
        /\ CString(h.value) # << >> => CString(h.value)[1] # SPACE}

\* The length of the text up to its first NUL.
TextEnd == Len(CString(text))

\* h is what is on a line.
IsOn(h, line) ==
    \E n \in 0 .. Len(text) :
       h.name \o << COLON >> \o [j \in 1 .. n |-> SPACE] \o CString(h.value) = line

\* Where the scan is: at the start of a line, or at the end.
Placed ==
    \/ pos = Len(text) + 1
    \/ pos \in 1 .. TextEnd + 1 /\ (pos = 1 \/ text[pos - 1] = NL)

\* The lines behind pos are those of the headers.
Numbered ==
    /\ \A k \in DOMAIN headers : \E i \in LineStarts :
          LineNumber(i) = k /\ IsOn(headers[k], LineAt(i))
    /\ Len(headers) = Cardinality({i \in LineStarts : i < pos})
    /\ phase # "scan" => TextEnd < pos

\* What was printed is read again: the headers so far, and the rest of them.
ReadAgain ==
    round = 2 =>
        /\ \E more \in Seq(Header) :
              /\ text = Printed(headers) \o Printed(more)
              /\ phase = "scan" => pos = Len(Printed(headers)) + 1
              /\ phase # "scan" => more = << >>
        /\ died => phase = "deflate"

LinesInv ==
    /\ program \in {"hpack", "ng_hpack"} /\ text \in Seq(Char)
    /\ phase \in {"scan", "deflate", "print"} /\ round \in {1, 2} /\ died \in BOOLEAN
    /\ headers \in Seq(Header)
    /\ Placed
    /\ Numbered
    /\ (died /\ phase = "scan") => At(pos) # NUL /\ ~ WellFormed
    /\ died => phase # "print"
    /\ ReadAgain

-----------------------------------------------------------------------------
(* Characters and the searches for them.                                   *)

\* The characters that mean something differ from each other.
LEMMA CharFacts ==
    /\ NUL \in Char /\ NL \in Char /\ COLON \in Char /\ SPACE \in Char
    /\ NUL # NL /\ NUL # COLON /\ NUL # SPACE /\ NL # COLON /\ NL # SPACE /\ COLON # SPACE
    /\ COLON \in Clean /\ SPACE \in Clean /\ Clean \subseteq Char
    /\ NUL \notin Clean /\ NL \notin Clean
BY DEF Char, Clean, NUL, NL, COLON, SPACE

\* An element that is below all others is the minimum.
LEMMA LeastOf ==
    ASSUME NEW T, T \subseteq Nat, NEW m \in T, \A y \in T : m <= y
    PROVE  Min(T) = m
<1>1. Min(T) \in T /\ Min(T) <= m /\ m <= Min(T)
    BY LeastIs
<1>2. Min(T) \in Nat /\ m \in Nat
    BY <1>1
<1> HIDE DEF Min
<1> QED  BY <1>1, <1>2

\* What strchr finds.
LEMMA StrChrIs ==
    ASSUME text \in Seq(Char), NEW from \in Nat \ {0}, NEW c \in Char,
           StrChr(from, c) # 0
    PROVE  LET f == StrChr(from, c)
           IN  /\ f \in from .. Len(text) /\ text[f] = c
               /\ \A j \in from .. f : text[j] # NUL
               /\ \A j \in from .. f - 1 : text[j] # c
<1> DEFINE found == {i \in from .. Len(text) : text[i] = c /\ \A j \in from .. i : text[j] # NUL}
           f == Min(found)
<1>1. found # {} /\ StrChr(from, c) = f
    BY DEF StrChr
<1>2. found \subseteq Nat
    OBVIOUS
<1>3. f \in found /\ \A y \in found : f <= y
  <2> HIDE DEF found
  <2> QED  BY <1>1, <1>2, LeastIs
<1> HIDE DEF f
<1>4. f \in from .. Len(text) /\ text[f] = c /\ \A j \in from .. f : text[j] # NUL
    BY <1>3
<1>5. ASSUME NEW j \in from .. f - 1, text[j] = c  PROVE FALSE
  <2>1. j \in found
      BY <1>4, <1>5
  <2> HIDE DEF found
  <2> QED  BY <1>3, <1>4, <1>5, <2>1
<1> QED  BY <1>1, <1>4, <1>5

\* What stands before the first NUL is found, there or earlier.
LEMMA StrChrNone ==
    ASSUME text \in Seq(Char), NEW from \in Nat \ {0}, NEW c \in Char,
           NEW i \in from .. Len(text), text[i] = c,
           \A j \in from .. i : text[j] # NUL
    PROVE  StrChr(from, c) # 0 /\ StrChr(from, c) <= i
<1> DEFINE found == {k \in from .. Len(text) : text[k] = c /\ \A j \in from .. k : text[j] # NUL}
<1>1. i \in found /\ found \subseteq Nat \ {0}
    OBVIOUS
<1>2. StrChr(from, c) = Min(found)
    BY <1>1 DEF StrChr
<1> HIDE DEF found
<1>3. Min(found) \in found /\ Min(found) <= i
    BY <1>1, LeastIs
<1> QED  BY <1>1, <1>2, <1>3

\* c stands at i for the first time, and no NUL before it.
FirstAt(from, c, i) ==
    /\ i \in from .. Len(text) /\ text[i] = c
    /\ \A j \in from .. i : text[j] # NUL
    /\ \A j \in from .. i - 1 : text[j] # c

\* The first of them is what strchr finds.
LEMMA StrChrAt ==
    ASSUME text \in Seq(Char), NEW from \in Nat \ {0}, NEW c \in Char, NEW i, FirstAt(from, c, i)
    PROVE  StrChr(from, c) = i
<1>0. /\ i \in from .. Len(text) /\ text[i] = c
      /\ \A j \in from .. i : text[j] # NUL
      /\ \A j \in from .. i - 1 : text[j] # c
    BY DEF FirstAt
<1> DEFINE f == StrChr(from, c)
<1>1. f # 0 /\ f <= i
    BY <1>0, StrChrNone
<1>2. f \in from .. Len(text) /\ text[f] = c
    BY <1>1, StrChrIs
<1> HIDE DEF f
<1>3. ~ (f < i)
    BY <1>0, <1>2
<1>4. f = i
    BY <1>0, <1>1, <1>2, <1>3
<1> QED  BY <1>4 DEF f

-----------------------------------------------------------------------------
(* C strings.                                                              *)

\* A string ends before its first NUL.
LEMMA CStringIs ==
    ASSUME NEW s \in Seq(Char)
    PROVE  LET n == Len(CString(s))
           IN  /\ n \in 0 .. Len(s) /\ CString(s) = SubSeq(s, 1, n)
               /\ CString(s) \in Seq(Char)
               /\ \A j \in 1 .. n : CString(s)[j] = s[j] /\ s[j] # NUL
               /\ n < Len(s) => s[n + 1] = NUL
<1> DEFINE T == {i \in DOMAIN s : s[i] = NUL} \cup {Len(s) + 1}
           m == Min(T)
<1>1. T \subseteq Nat /\ T # {} /\ Len(s) \in Nat
    OBVIOUS
<1>2. m \in T /\ \A y \in T : m <= y
  <2> HIDE DEF T
  <2> QED  BY <1>1, LeastIs
<1>3. CString(s) = SubSeq(s, 1, m - 1)
    BY DEF CString
<1> HIDE DEF m
<1>4. m \in 1 .. Len(s) + 1 /\ (m <= Len(s) => s[m] = NUL)
    BY <1>1, <1>2
<1>5. ASSUME NEW j \in 1 .. m - 1  PROVE s[j] # NUL
    BY <1>2, <1>4
<1>6. m - 1 \in 0 .. Len(s) /\ (m - 1) + 1 = m
    BY <1>1, <1>4
<1>7. /\ SubSeq(s, 1, m - 1) \in Seq(Char) /\ Len(SubSeq(s, 1, m - 1)) = m - 1
      /\ \A j \in 1 .. m - 1 : SubSeq(s, 1, m - 1)[j] = s[j]
    BY <1>6, BeginningIs
<1> HIDE DEF T
<1> QED  BY <1>1, <1>3, <1>4, <1>5, <1>6, <1>7

\* A string with its first NUL behind n characters has a C string of n.
LEMMA CStringOf ==
    ASSUME NEW s \in Seq(Char), NEW n \in 0 .. Len(s),
           \A j \in 1 .. n : s[j] # NUL,
           n < Len(s) => s[n + 1] = NUL
    PROVE  CString(s) = SubSeq(s, 1, n) /\ Len(CString(s)) = n
<1> DEFINE m == Len(CString(s))
<1>1. /\ m \in 0 .. Len(s) /\ CString(s) = SubSeq(s, 1, m)
      /\ \A j \in 1 .. m : s[j] # NUL
      /\ m < Len(s) => s[m + 1] = NUL
    BY CStringIs
<1> HIDE DEF m
<1>2. Len(s) \in Nat
    OBVIOUS
<1>3. ~ (m < n)
  <2>1. m < n => m + 1 \in 1 .. n /\ m < Len(s)
      BY <1>1, <1>2
  <2> QED  BY <1>1, <2>1
<1>4. ~ (n < m)
  <2>1. n < m => n + 1 \in 1 .. m /\ n < Len(s)
      BY <1>1, <1>2
  <2> QED  BY <1>1, <2>1
<1>5. m = n
    BY <1>1, <1>2, <1>3, <1>4
<1> QED  BY <1>1, <1>5 DEF m

\* A string of characters that are not NUL is its own C string.
LEMMA CStringOfClean ==
    ASSUME NEW s \in Seq(Clean)
    PROVE  s \in Seq(Char) /\ CString(s) = s /\ \A j \in 1 .. Len(s) : s[j] \in Clean
<1>1. s \in Seq(Char) /\ \A j \in 1 .. Len(s) : s[j] \in Clean
    BY CharFacts
<1>2. CString(s) = SubSeq(s, 1, Len(s))
  <2>1. Len(s) \in 0 .. Len(s) /\ ~ (Len(s) < Len(s))
      BY <1>1
  <2>2. \A j \in 1 .. Len(s) : s[j] # NUL
      BY <1>1, CharFacts
  <2> QED  BY <1>1, <2>1, <2>2, CStringOf
<1>3. SubSeq(s, 1, Len(s)) = s
    BY <1>1
<1> QED  BY <1>1, <1>2, <1>3

\* strdup keeps a C string.
LEMMA CopiedIs ==
    ASSUME NEW s \in Seq(Char), NEW junk \in Char
    PROVE  /\ Copied(s, junk) \in Seq(Char)
           /\ CString(Copied(s, junk)) = CString(s)
<1> DEFINE n == Len(CString(s))
           c == Copied(s, junk)
<1>1. /\ n \in 0 .. Len(s) /\ CString(s) = SubSeq(s, 1, n)
      /\ \A j \in 1 .. n : s[j] # NUL
      /\ n < Len(s) => s[n + 1] = NUL
    BY CStringIs
<1>2. Len(s) \in Nat /\ \A i \in 1 .. Len(s) : s[i] \in Char
    OBVIOUS
<1>3. c = [i \in 1 .. Len(s) |-> IF i <= n + 1 THEN s[i] ELSE junk]
    BY DEF Copied
<1> HIDE DEF c, n
<1>4. c \in Seq(Char) /\ Len(c) = Len(s) /\ \A i \in 1 .. Len(s) : i <= n + 1 => c[i] = s[i]
    BY <1>2, <1>3
<1>5. /\ n \in 0 .. Len(c) /\ \A j \in 1 .. n : c[j] # NUL
      /\ n < Len(c) => c[n + 1] = NUL
    BY <1>1, <1>2, <1>4
<1>6. CString(c) = SubSeq(c, 1, n)
    BY <1>4, <1>5, CStringOf
<1>7. SubSeq(c, 1, n) = SubSeq(s, 1, n)
  <2>1. /\ SubSeq(c, 1, n) \in Seq(Char) /\ Len(SubSeq(c, 1, n)) = n
        /\ \A k \in 1 .. n : SubSeq(c, 1, n)[k] = c[k]
      BY <1>4, <1>5, BeginningIs
  <2>2. /\ SubSeq(s, 1, n) \in Seq(Char) /\ Len(SubSeq(s, 1, n)) = n
        /\ \A k \in 1 .. n : SubSeq(s, 1, n)[k] = s[k]
      BY <1>1, BeginningIs
  <2>3. \A k \in 1 .. n : c[k] = s[k]
      BY <1>1, <1>2, <1>4
  <2> QED  BY <1>1, <2>1, <2>2, <2>3, SeqEqual
<1> QED  BY <1>1, <1>4, <1>6, <1>7 DEF c

\* Without a NUL, a string is copied as it is.
LEMMA CopiedClean ==
    ASSUME NEW s \in Seq(Clean), NEW junk
    PROVE  Copied(s, junk) = s
<1>1. CString(s) = s
    BY CStringOfClean
<1>2. Len(s) \in Nat /\ DOMAIN s = 1 .. Len(s) /\ s = [i \in 1 .. Len(s) |-> s[i]]
    OBVIOUS
<1>3. Copied(s, junk) = [i \in 1 .. Len(s) |-> IF i <= Len(s) + 1 THEN s[i] ELSE junk]
    BY <1>1, <1>2 DEF Copied
<1>4. \A i \in 1 .. Len(s) : i <= Len(s) + 1
    BY <1>2
<1> QED  BY <1>2, <1>3, <1>4

-----------------------------------------------------------------------------
(* One line.                                                               *)

\* Where the line that starts at pos ends.
LineLimit == IF End # 0 THEN End ELSE TextEnd + 1

\* Where the text ends as a C string.
LEMMA TextEndIs ==
    ASSUME text \in Seq(Char)
    PROVE  /\ Len(text) \in Nat /\ TextEnd \in 0 .. Len(text)
           /\ \A j \in 1 .. TextEnd : text[j] # NUL
           /\ At(TextEnd + 1) = NUL
           /\ DOMAIN CString(text) = 1 .. TextEnd
<1>1. /\ TextEnd \in 0 .. Len(text) /\ CString(text) \in Seq(Char)
      /\ \A j \in 1 .. TextEnd : text[j] # NUL
      /\ TextEnd < Len(text) => text[TextEnd + 1] = NUL
    BY CStringIs DEF TextEnd
<1>2. DOMAIN CString(text) = 1 .. TextEnd
    BY <1>1 DEF TextEnd
<1>3. Len(text) \in Nat /\ DOMAIN text = 1 .. Len(text)
    OBVIOUS
<1> QED  BY <1>1, <1>2, <1>3 DEF At

\* What is on the line that is scanned: no NUL and no newline.
LEMMA LineIs ==
    ASSUME text \in Seq(Char), Placed, At(pos) # NUL
    PROVE  /\ pos \in 1 .. TextEnd /\ pos \in LineStarts
           /\ LineLimit \in pos .. TextEnd + 1
           /\ \A j \in pos .. LineLimit - 1 : text[j] \in Clean
           /\ LineAt(pos) = SubSeq(text, pos, LineLimit - 1)
           /\ End # 0 => End <= TextEnd /\ text[End] = NL
<1> DEFINE e == TextEnd
           l == LineLimit
<1>1. /\ Len(text) \in Nat /\ e \in 0 .. Len(text) /\ \A j \in 1 .. e : text[j] # NUL
      /\ At(e + 1) = NUL /\ DOMAIN CString(text) = 1 .. e
      /\ \A j \in 1 .. Len(text) : text[j] \in Char
    BY TextEndIs
<1>2. pos \in 1 .. e
  <2>1. DOMAIN text = 1 .. Len(text)
      OBVIOUS
  <2>2. ~ (Len(text) + 1 \in 1 .. Len(text))
      BY <1>1
  <2>3. pos # Len(text) + 1
      BY <2>1, <2>2 DEF At
  <2> QED  BY <1>1, <2>3 DEF Placed
<1>3. pos \in LineStarts
  <2>1. pos # Len(text) + 1
      BY <1>1, <1>2
  <2>2. pos = 1 \/ text[pos - 1] = NL
      BY <2>1 DEF Placed
  <2> QED  BY <1>1, <1>2, <2>2 DEF LineStarts
<1> HIDE DEF e
<1>4. ASSUME End # 0
      PROVE  /\ End \in pos .. e /\ text[End] = NL
             /\ \A j \in pos .. End - 1 : text[j] # NL
  <2>1. /\ End \in pos .. Len(text) /\ text[End] = NL
        /\ \A j \in pos .. End : text[j] # NUL
        /\ \A j \in pos .. End - 1 : text[j] # NL
    <3>1. pos \in Nat \ {0}
        BY <1>1, <1>2
    <3> QED  BY <1>4, <3>1, CharFacts, StrChrIs DEF End
  <2>2. ~ (e < End)
    <3>1. ASSUME e < End  PROVE FALSE
      <4>1. e + 1 \in pos .. End /\ e + 1 \in DOMAIN text
          BY <1>1, <1>2, <2>1, <3>1
      <4> QED  BY <1>1, <2>1, <4>1 DEF At
    <3> QED  BY <3>1
  <2> QED  BY <1>1, <1>2, <2>1, <2>2
<1>5. ASSUME End = 0, NEW j \in pos .. e  PROVE text[j] # NL
  <2>1. ASSUME text[j] = NL  PROVE FALSE
    <3>1. pos \in Nat \ {0} /\ j \in pos .. Len(text) /\ \A k \in pos .. j : text[k] # NUL
        BY <1>1, <1>2
    <3>2. StrChr(pos, NL) # 0
        BY <2>1, <3>1, CharFacts, StrChrNone
    <3> QED  BY <1>5, <3>2 DEF End
  <2> QED  BY <2>1
<1>6. /\ l \in pos .. e + 1
      /\ \A j \in pos .. l - 1 : text[j] # NL
      /\ l # e + 1 => text[l] = NL
    BY <1>1, <1>2, <1>4, <1>5 DEF LineLimit, e
<1> HIDE DEF l
<1>7. \A j \in pos .. l - 1 : text[j] \in Clean
  <2>1. \A j \in pos .. l - 1 : j \in 1 .. e /\ j \in 1 .. Len(text)
      BY <1>1, <1>2, <1>6
  <2> QED  BY <1>1, <1>6, <2>1 DEF Clean
<1>8. LineAt(pos) = SubSeq(text, pos, l - 1)
  <2> DEFINE T == {j \in pos .. e : text[j] = NL} \cup {e + 1}
  <2>1. T \subseteq Nat /\ l \in T /\ \A y \in T : l <= y
      BY <1>1, <1>2, <1>6
  <2>2. LineAt(pos) = SubSeq(text, pos, Min(T) - 1)
      BY DEF LineAt, e, TextEnd
  <2> HIDE DEF T
  <2>3. Min(T) = l
      BY <2>1, LeastOf
  <2> QED  BY <2>2, <2>3
<1> QED  BY <1>1, <1>2, <1>3, <1>4, <1>6, <1>7, <1>8 DEF e, l

\* The value starts behind the ':' and the spaces after it.
LEMMA ValueStartIs ==
    ASSUME text \in Seq(Char), NameEnd \in 1 .. TextEnd
    PROVE  /\ ValueStart \in NameEnd + 1 .. TextEnd + 1
           /\ At(ValueStart) # SPACE
           /\ \A j \in NameEnd + 1 .. ValueStart - 1 : text[j] = SPACE
           /\ \A j \in NameEnd + 1 .. Len(text) + 1 : At(j) # SPACE => ValueStart <= j
<1> DEFINE T == {i \in NameEnd + 1 .. Len(text) + 1 : At(i) # SPACE}
           v == Min(T)
           n == NameEnd
<1>1. /\ Len(text) \in Nat /\ TextEnd \in 0 .. Len(text) /\ At(TextEnd + 1) = NUL
    BY TextEndIs
<1>2. n \in Nat /\ TextEnd + 1 \in n + 1 .. Len(text) + 1
    BY <1>1
<1>3. TextEnd + 1 \in T /\ T \subseteq Nat
    BY <1>1, <1>2, CharFacts
<1>4. ValueStart = v
    BY DEF ValueStart
<1>5. v \in T /\ \A y \in T : v <= y
  <2> HIDE DEF T
  <2>1. T # {}
      BY <1>3
  <2> QED  BY <1>3, <2>1, LeastIs
<1> HIDE DEF v, n
<1>6. v \in n + 1 .. TextEnd + 1 /\ At(v) # SPACE
  <2>1. v <= TextEnd + 1 /\ v \in Nat
      BY <1>3, <1>5
  <2>2. v \in n + 1 .. Len(text) + 1 /\ At(v) # SPACE
      BY <1>5 DEF n
  <2> QED  BY <1>1, <1>2, <2>1, <2>2
<1>7. ASSUME NEW j \in n + 1 .. v - 1  PROVE text[j] = SPACE
  <2>1. j \in n + 1 .. Len(text) + 1 /\ j < v /\ j \in 1 .. Len(text)
      BY <1>1, <1>2, <1>6
  <2>2. ~ (v <= j)
      BY <1>1, <1>2, <1>6, <2>1
  <2>3. At(j) = SPACE
      BY <1>5, <2>1, <2>2 DEF n
  <2>4. j \in DOMAIN text
      BY <2>1
  <2> QED  BY <2>3, <2>4 DEF At
<1>8. ASSUME NEW j \in n + 1 .. Len(text) + 1, At(j) # SPACE  PROVE v <= j
  <2>1. j \in T
      BY <1>8 DEF n
  <2> QED  BY <1>5, <2>1
<1> QED  BY <1>4, <1>6, <1>7, <1>8 DEF n

\* The ':' that ends a name, if there is one, stands before the first NUL.
LEMMA NameEndIs ==
    ASSUME text \in Seq(Char), pos \in 1 .. TextEnd, NameEnd # 0
    PROVE  /\ NameEnd \in pos + 1 .. TextEnd /\ text[NameEnd] = COLON
           /\ \A j \in pos + 1 .. NameEnd - 1 : text[j] # COLON
<1> DEFINE n == NameEnd
           e == TextEnd
<1>1. /\ Len(text) \in Nat /\ e \in 0 .. Len(text) /\ At(e + 1) = NUL
    BY TextEndIs
<1>2. /\ n \in pos + 1 .. Len(text) /\ text[n] = COLON
      /\ \A j \in pos + 1 .. n : text[j] # NUL
      /\ \A j \in (pos + 1) .. n - 1 : text[j] # COLON
  <2>1. pos + 1 \in Nat \ {0}
      BY <1>1
  <2> QED  BY <2>1, CharFacts, StrChrIs DEF NameEnd
<1> HIDE DEF n
<1>3. pos \in 1 .. e
    OBVIOUS
<1> HIDE DEF e
<1>4. ~ (e < n)
  <2>1. ASSUME e < n  PROVE FALSE
    <3>1. e + 1 \in pos + 1 .. n /\ e + 1 \in 1 .. Len(text)
        BY <1>1, <1>2, <1>3, <2>1
    <3>2. e + 1 \in DOMAIN text
        BY <3>1
    <3> QED  BY <1>1, <1>2, <3>1, <3>2 DEF At
  <2> QED  BY <2>1
<1>5. n \in pos + 1 .. e
    BY <1>1, <1>2, <1>3, <1>4
<1> QED  BY <1>2, <1>5 DEF n, e

\* The name and the value on the line at pos.
LineName == SubSeq(text, pos, NameEnd - 1)
LineValue == SubSeq(text, ValueStart, ValueEnd - 1)

\* Where the parts of a well-formed line are.
LEMMA PartsAre ==
    ASSUME text \in Seq(Char), Placed, At(pos) # NUL, WellFormed
    PROVE  /\ NameEnd \in pos + 1 .. LineLimit - 1 /\ text[NameEnd] = COLON
           /\ \A j \in pos + 1 .. NameEnd - 1 : text[j] # COLON
           /\ ValueStart \in NameEnd + 1 .. LineLimit
           /\ \A j \in NameEnd + 1 .. ValueStart - 1 : text[j] = SPACE
           /\ At(ValueStart) # SPACE
           /\ ValueEnd \in LineLimit .. Len(text) + 1
           /\ LineLimit < ValueEnd => text[LineLimit] = NUL
<1>1. /\ Len(text) \in Nat /\ TextEnd \in 0 .. Len(text) /\ At(TextEnd + 1) = NUL
    BY TextEndIs
<1>2. /\ pos \in 1 .. TextEnd /\ LineLimit \in pos .. TextEnd + 1
      /\ End # 0 => End <= TextEnd
    BY LineIs
<1>3. NameEnd # 0 /\ ValueStart <= ValueEnd
    BY DEF WellFormed
<1>4. /\ NameEnd \in pos + 1 .. TextEnd /\ text[NameEnd] = COLON
      /\ \A j \in pos + 1 .. NameEnd - 1 : text[j] # COLON
    BY <1>2, <1>3, NameEndIs
<1>5. /\ ValueStart \in NameEnd + 1 .. TextEnd + 1 /\ At(ValueStart) # SPACE
      /\ \A j \in NameEnd + 1 .. ValueStart - 1 : text[j] = SPACE
  <2>1. NameEnd \in 1 .. TextEnd
      BY <1>1, <1>2, <1>4
  <2> QED  BY <2>1, ValueStartIs
<1>6. /\ End # 0 => ValueEnd = End /\ LineLimit = End
      /\ End = 0 => ValueEnd = Len(text) + 1 /\ LineLimit = TextEnd + 1
    BY DEF ValueEnd, LineLimit
<1>7. /\ ValueEnd \in LineLimit .. Len(text) + 1
      /\ ValueStart <= LineLimit
      /\ LineLimit < ValueEnd => LineLimit = TextEnd + 1 /\ LineLimit \in 1 .. Len(text)
  <2>1. CASE End # 0
      BY <1>1, <1>2, <1>3, <1>6, <2>1
  <2>2. CASE End = 0
      BY <1>1, <1>2, <1>5, <1>6, <2>2
  <2> QED  BY <2>1, <2>2
<1>8. LineLimit < ValueEnd => text[LineLimit] = NUL
  <2>1. DOMAIN text = 1 .. Len(text)
      OBVIOUS
  <2> QED  BY <1>1, <1>7, <2>1 DEF At
<1>9. ValueStart \in NameEnd + 1 .. LineLimit /\ NameEnd \in pos + 1 .. LineLimit - 1
    BY <1>1, <1>2, <1>4, <1>5, <1>7
<1> QED  BY <1>4, <1>5, <1>7, <1>8, <1>9

\* The name: from the start of the line to the ':'.
LEMMA NameIs ==
    ASSUME text \in Seq(Char), Placed, At(pos) # NUL, WellFormed
    PROVE  /\ LineName \in Seq(Clean) \ {<< >>} /\ Len(LineName) = NameEnd - pos
           /\ \A k \in 1 .. NameEnd - pos : LineName[k] = text[(pos - 1) + k]
           /\ \A k \in 2 .. Len(LineName) : LineName[k] # COLON
<1> DEFINE m == pos - 1
           n == NameEnd - 1
           s == SubSeq(text, m + 1, n)
<1>1. /\ Len(text) \in Nat /\ TextEnd \in 0 .. Len(text)
      /\ pos \in 1 .. TextEnd /\ LineLimit \in pos .. TextEnd + 1
      /\ \A j \in pos .. LineLimit - 1 : text[j] \in Clean
    BY TextEndIs, LineIs
<1>2. /\ NameEnd \in pos + 1 .. LineLimit - 1
      /\ \A j \in pos + 1 .. NameEnd - 1 : text[j] # COLON
    BY PartsAre
<1>3. m \in Nat /\ n \in m .. Len(text) /\ m + 1 = pos /\ n - m = NameEnd - pos /\ n - m >= 1
    BY <1>1, <1>2
<1> HIDE DEF m, n
<1>4. /\ s \in Seq(Char) /\ Len(s) = n - m
      /\ \A k \in 1 .. n - m : s[k] = text[m + k]
    BY <1>3, SliceIs
<1>5. LineName = s
    BY <1>3 DEF LineName, n
<1> HIDE DEF s
<1>6. \A k \in 1 .. Len(s) : s[k] \in Clean
  <2>1. \A k \in 1 .. n - m : m + k \in pos .. LineLimit - 1
      BY <1>1, <1>2, <1>3 DEF m, n
  <2> QED  BY <1>1, <1>4, <2>1
<1>7. s \in Seq(Clean)
    BY <1>4, <1>6, SeqOver
<1>8. s # << >>
    BY <1>3, <1>4, EmptySeq
<1>9. \A k \in 2 .. Len(s) : s[k] # COLON
  <2>1. \A k \in 2 .. n - m : k \in 1 .. n - m /\ m + k \in pos + 1 .. NameEnd - 1
      BY <1>1, <1>2, <1>3 DEF m, n
  <2> QED  BY <1>2, <1>4, <2>1
<1>10. \A k \in 1 .. NameEnd - pos : s[k] = text[(pos - 1) + k]
    BY <1>3, <1>4 DEF m
<1> QED  BY <1>3, <1>4, <1>5, <1>7, <1>8, <1>9, <1>10

\* As a C string, the value ends with the line.
LEMMA ValueIs ==
    ASSUME text \in Seq(Char), Placed, At(pos) # NUL, WellFormed
    PROVE  LET c == CString(LineValue)
           IN  /\ LineValue \in Seq(Char)
               /\ c \in Seq(Clean) /\ Len(c) = LineLimit - ValueStart
               /\ \A k \in 1 .. LineLimit - ValueStart : c[k] = text[(ValueStart - 1) + k]
               /\ c # << >> => c[1] # SPACE
<1> DEFINE m == ValueStart - 1
           n == ValueEnd - 1
           s == SubSeq(text, m + 1, n)
           d == LineLimit - ValueStart
           c == CString(s)
<1>1. /\ Len(text) \in Nat /\ TextEnd \in 0 .. Len(text)
      /\ pos \in 1 .. TextEnd /\ LineLimit \in pos .. TextEnd + 1
      /\ \A j \in pos .. LineLimit - 1 : text[j] \in Clean
    BY TextEndIs, LineIs
<1>2. /\ NameEnd \in pos + 1 .. LineLimit - 1
      /\ ValueStart \in NameEnd + 1 .. LineLimit
      /\ At(ValueStart) # SPACE
      /\ ValueEnd \in LineLimit .. Len(text) + 1
      /\ LineLimit < ValueEnd => text[LineLimit] = NUL
    BY PartsAre
<1>3. /\ m \in Nat /\ n \in m .. Len(text) /\ m + 1 = ValueStart
      /\ d \in 0 .. n - m
      /\ \A k \in 1 .. d : m + k \in pos .. LineLimit - 1
      /\ d < n - m => m + (d + 1) = LineLimit /\ LineLimit < ValueEnd
    BY <1>1, <1>2
<1>4. LineValue = s
    BY <1>3 DEF LineValue, n
<1> HIDE DEF m, n
<1>5. /\ s \in Seq(Char) /\ Len(s) = n - m
      /\ \A k \in 1 .. n - m : s[k] = text[m + k]
    BY <1>3, SliceIs
<1> HIDE DEF s, d
<1>6. d \in 0 .. Len(s) /\ \A k \in 1 .. d : s[k] \in Clean
  <2>1. d \in 0 .. Len(s) /\ \A k \in 1 .. d : k \in 1 .. n - m
      BY <1>3, <1>5
  <2>2. ASSUME NEW k \in 1 .. d  PROVE s[k] \in Clean
      BY <1>1, <1>3, <1>5, <2>1
  <2> QED  BY <2>1, <2>2
<1>7. d < Len(s) => s[d + 1] = NUL
  <2>1. d < n - m => d + 1 \in 1 .. n - m
      BY <1>3
  <2> QED  BY <1>2, <1>3, <1>5, <2>1
<1>8. c = SubSeq(s, 1, d) /\ Len(c) = d
    BY <1>5, <1>6, <1>7, CharFacts, CStringOf
<1>9. c \in Seq(Char) /\ \A k \in 1 .. d : c[k] = s[k]
    BY <1>5, <1>6, <1>8, BeginningIs
<1> HIDE DEF c
<1>10. c \in Seq(Clean)
    BY <1>6, <1>8, <1>9, SeqOver
<1>11. \A k \in 1 .. d : c[k] = text[m + k]
  <2>1. \A k \in 1 .. d : k \in 1 .. n - m
      BY <1>3
  <2>2. SUFFICES ASSUME NEW k \in 1 .. d  PROVE c[k] = text[m + k]
      OBVIOUS
  <2>3. s[k] = text[m + k]
      BY <1>5, <2>1
  <2>4. c[k] = s[k]
      BY <1>9
  <2> QED  BY <2>3, <2>4
<1>12. ASSUME c # << >>  PROVE c[1] # SPACE
  <2>1. d # 0
      BY <1>8, <1>9, <1>12, EmptySeq
  <2>2. 1 \in 1 .. d /\ m + 1 = ValueStart /\ ValueStart \in DOMAIN text
    <3>1. DOMAIN text = 1 .. Len(text)
        OBVIOUS
    <3> QED  BY <1>1, <1>2, <1>3, <2>1, <3>1 DEF d
  <2>3. c[1] = text[ValueStart]
      BY <1>11, <2>2
  <2> QED  BY <1>2, <2>2, <2>3 DEF At
<1> QED  BY <1>4, <1>5, <1>8, <1>10, <1>11, <1>12 DEF c, d, m


\* A name, the ':', spaces, and a value.
LEMMA LineParts ==
    ASSUME NEW S, NEW a \in Seq(S), NEW o \in S, NEW b \in Seq(S), NEW c \in Seq(S),
           NEW t, t = a \o << o >> \o b \o c
    PROVE  /\ t \in Seq(S) /\ Len(t) = Len(a) + 1 + Len(b) + Len(c)
           /\ \A k \in 1 .. Len(a) : t[k] = a[k]
           /\ t[Len(a) + 1] = o
           /\ \A k \in 1 .. Len(b) : t[Len(a) + 1 + k] = b[k]
           /\ \A k \in 1 .. Len(c) : t[Len(a) + 1 + Len(b) + k] = c[k]
<1> DEFINE p == a \o << o >>
           q == p \o b
<1>0. t = q \o c
    OBVIOUS
<1>1. Len(a) \in Nat /\ Len(b) \in Nat /\ Len(c) \in Nat
    OBVIOUS
<1>2. /\ p \in Seq(S) /\ Len(p) = Len(a) + 1
      /\ \A k \in 1 .. Len(a) : p[k] = a[k]
      /\ p[Len(a) + 1] = o
    OBVIOUS
<1> HIDE DEF p
<1>3. /\ q \in Seq(S) /\ Len(q) = Len(p) + Len(b)
      /\ \A k \in 1 .. Len(p) : q[k] = p[k]
      /\ \A k \in 1 .. Len(b) : q[Len(p) + k] = b[k]
  <2>1. p \in Seq(S) /\ b \in Seq(S)
      BY <1>2
  <2> QED  BY <2>1, BothParts
<1> HIDE DEF q
<1>4. /\ t \in Seq(S) /\ Len(t) = Len(q) + Len(c)
      /\ \A k \in 1 .. Len(q) : t[k] = q[k]
      /\ \A k \in 1 .. Len(c) : t[Len(q) + k] = c[k]
  <2>1. q \in Seq(S) /\ c \in Seq(S)
      BY <1>3
  <2>2. /\ q \o c \in Seq(S) /\ Len(q \o c) = Len(q) + Len(c)
        /\ \A k \in 1 .. Len(q) : (q \o c)[k] = q[k]
        /\ \A k \in 1 .. Len(c) : (q \o c)[Len(q) + k] = c[k]
      BY <2>1, BothParts
  <2> DEFINE u == q \o c
  <2>3. t = u
      BY <1>0
  <2> HIDE DEF u
  <2> QED  BY <2>2, <2>3, Zenon DEF u
<1>5. Len(p) = Len(a) + 1 /\ Len(q) = Len(a) + 1 + Len(b)
    BY <1>2, <1>3
<1>6. \A k \in 1 .. Len(a) : t[k] = a[k]
  <2>1. \A k \in 1 .. Len(a) : k \in 1 .. Len(p) /\ k \in 1 .. Len(q)
      BY <1>1, <1>5
  <2> QED  BY <1>2, <1>3, <1>4, <2>1
<1>7. t[Len(a) + 1] = o
  <2>1. Len(a) + 1 \in 1 .. Len(p) /\ Len(a) + 1 \in 1 .. Len(q)
      BY <1>1, <1>5
  <2> QED  BY <1>2, <1>3, <1>4, <2>1
<1>8. \A k \in 1 .. Len(b) : t[Len(a) + 1 + k] = b[k]
  <2>1. \A k \in 1 .. Len(b) : Len(p) + k \in 1 .. Len(q)
      BY <1>1, <1>5
  <2> QED  BY <1>3, <1>4, <1>5, <2>1
<1>9. \A k \in 1 .. Len(c) : t[Len(a) + 1 + Len(b) + k] = c[k]
    BY <1>4, <1>5
<1> QED  BY <1>4, <1>5, <1>6, <1>7, <1>8, <1>9 DEF q, p

\* What the scan makes of a well-formed line is a header, and is on the line.
LEMMA HeaderIs ==
    ASSUME text \in Seq(Char), Placed, At(pos) # NUL, WellFormed
    PROVE  LET h == [name |-> LineName, value |-> LineValue]
           IN  h \in Header /\ IsOn(h, LineAt(pos))
<1> DEFINE h == [name |-> LineName, value |-> LineValue]
           c == CString(LineValue)
<1>1. /\ LineName \in Seq(Clean) \ {<< >>} /\ Len(LineName) = NameEnd - pos
      /\ \A k \in 1 .. NameEnd - pos : LineName[k] = text[(pos - 1) + k]
      /\ \A k \in 2 .. Len(LineName) : LineName[k] # COLON
    BY NameIs
<1>2. /\ LineValue \in Seq(Char)
      /\ c \in Seq(Clean) /\ Len(c) = LineLimit - ValueStart
      /\ \A k \in 1 .. LineLimit - ValueStart : c[k] = text[(ValueStart - 1) + k]
      /\ c # << >> => c[1] # SPACE
    BY ValueIs
<1>3. h \in Header
    BY <1>1, <1>2 DEF Header
<1>4. /\ Len(text) \in Nat /\ TextEnd \in 0 .. Len(text)
      /\ pos \in 1 .. TextEnd /\ LineLimit \in pos .. TextEnd + 1
      /\ LineAt(pos) = SubSeq(text, pos, LineLimit - 1)
    BY TextEndIs, LineIs
<1>5. /\ NameEnd \in pos + 1 .. LineLimit - 1 /\ text[NameEnd] = COLON
      /\ ValueStart \in NameEnd + 1 .. LineLimit
      /\ \A j \in NameEnd + 1 .. ValueStart - 1 : text[j] = SPACE
    BY PartsAre
<1> DEFINE a == LineName
           n == (ValueStart - NameEnd) - 1
           b == [j \in 1 .. n |-> SPACE]
           t == a \o << COLON >> \o b \o c
           m == pos - 1
           l == SubSeq(text, m + 1, LineLimit - 1)
<1>6. n \in 0 .. Len(text)
    BY <1>4, <1>5
<1>7. /\ m \in Nat /\ LineLimit - 1 \in m .. Len(text) /\ m + 1 = pos
      /\ (LineLimit - 1) - m = LineLimit - pos
    BY <1>4, <1>5
<1>8. l \in Seq(Char) /\ Len(l) = LineLimit - pos /\ \A k \in 1 .. LineLimit - pos : l[k] = text[m + k]
  <2> HIDE DEF m
  <2>1. /\ l \in Seq(Char) /\ Len(l) = (LineLimit - 1) - m
        /\ \A k \in 1 .. (LineLimit - 1) - m : l[k] = text[m + k]
      BY <1>7, SliceIs
  <2> QED  BY <1>7, <2>1
<1>9. LineAt(pos) = l
    BY <1>4, <1>7
<1>10. a \in Seq(Char) /\ b \in Seq(Char) /\ Len(b) = n /\ c \in Seq(Char)
  <2>1. a \in Seq(Char) /\ c \in Seq(Char)
      BY <1>1, <1>2, CStringOfClean
  <2>2. n \in Nat /\ SPACE \in Char
      BY <1>6, CharFacts
  <2> HIDE DEF n
  <2>3. b \in Seq(Char) /\ Len(b) = n
      BY <2>2
  <2> QED  BY <2>1, <2>3
<1> DEFINE x == Len(a)
           z == Len(c)
<1>11. /\ x \in Nat /\ n \in Nat /\ z \in Nat /\ x = NameEnd - pos /\ z = LineLimit - ValueStart
       /\ x + 1 + n + z = LineLimit - pos
       /\ m + x + 1 = NameEnd /\ m + x + 1 + n = ValueStart - 1
    BY <1>1, <1>2, <1>4, <1>5
<1> HIDE DEF a, b, c, m, n, l, x, z
<1>12. /\ t \in Seq(Char) /\ Len(t) = x + 1 + n + z
       /\ \A k \in 1 .. x : t[k] = a[k]
       /\ t[x + 1] = COLON
       /\ \A k \in 1 .. n : t[x + 1 + k] = b[k]
       /\ \A k \in 1 .. z : t[x + 1 + n + k] = c[k]
  <2>1. /\ t \in Seq(Char) /\ Len(t) = Len(a) + 1 + Len(b) + Len(c)
        /\ \A k \in 1 .. Len(a) : t[k] = a[k]
        /\ t[Len(a) + 1] = COLON
        /\ \A k \in 1 .. Len(b) : t[Len(a) + 1 + k] = b[k]
        /\ \A k \in 1 .. Len(c) : t[Len(a) + 1 + Len(b) + k] = c[k]
    <3>1. a \in Seq(Char) /\ b \in Seq(Char) /\ c \in Seq(Char) /\ COLON \in Char
        BY <1>10, CharFacts
    <3>2. t = a \o << COLON >> \o b \o c
        BY DEF t
    <3> HIDE DEF t
    <3> QED  BY <3>1, <3>2, LineParts
  <2>2. Len(a) = x /\ Len(b) = n /\ Len(c) = z
      BY <1>10 DEF x, z
  <2> QED  BY <2>1, <2>2
<1> HIDE DEF t
<1>13. ASSUME NEW k \in 1 .. Len(t)  PROVE t[k] = l[k]
  <2>1. k \in 1 .. LineLimit - pos /\ l[k] = text[m + k]
      BY <1>8, <1>11, <1>12
  <2>2. CASE k <= x
    <3>1. k \in 1 .. x /\ k \in 1 .. NameEnd - pos
        BY <1>11, <1>12, <2>2
    <3> QED  BY <1>1, <1>12, <2>1, <3>1 DEF a, m
  <2>3. CASE k = x + 1
    <3>1. m + k = NameEnd
        BY <1>7, <1>11, <2>3
    <3> QED  BY <1>5, <1>12, <2>1, <2>3, <3>1
  <2>4. CASE k > x + 1 /\ k <= x + 1 + n
    <3>1. k - (x + 1) \in 1 .. n /\ x + 1 + (k - (x + 1)) = k
        BY <1>11, <1>12, <2>4
    <3>2. m + k \in NameEnd + 1 .. ValueStart - 1
        BY <1>5, <1>4, <1>7, <1>11, <2>4
    <3>3. b[k - (x + 1)] = SPACE
        BY <3>1 DEF b
    <3> QED  BY <1>5, <1>12, <2>1, <3>1, <3>2, <3>3
  <2>5. CASE k > x + 1 + n
    <3> DEFINE q == k - (x + 1 + n)
    <3>1. q \in 1 .. z /\ x + 1 + n + q = k
      <4>1. k \in Nat /\ k <= x + 1 + n + z /\ x \in Nat /\ n \in Nat /\ z \in Nat
          BY <1>11, <1>12
      <4> QED  BY <2>5, <4>1
    <3>2. m + k = (ValueStart - 1) + q /\ q \in 1 .. LineLimit - ValueStart
      <4>1. m \in Nat /\ x \in Nat /\ n \in Nat /\ q \in Nat /\ m + x + 1 + n = ValueStart - 1
          BY <1>7, <1>11, <3>1
      <4> HIDE DEF q
      <4>2. m + (x + 1 + n + q) = (ValueStart - 1) + q
          BY <4>1
      <4> QED  BY <1>11, <3>1, <4>2
    <3> HIDE DEF q
    <3>3. t[x + 1 + n + q] = c[q]
        BY <1>12, <3>1
    <3>4. c[q] = text[(ValueStart - 1) + q]
        BY <1>2, <3>2 DEF c
    <3> QED  BY <2>1, <3>1, <3>2, <3>3, <3>4
  <2> QED  BY <1>11, <1>12, <2>2, <2>3, <2>4, <2>5
<1>14. t = l
    BY <1>8, <1>11, <1>12, <1>13, SeqEqual
<1>15. IsOn(h, LineAt(pos))
  <2>1. h.name = a /\ CString(h.value) = c
      BY DEF a, c
  <2>2. h.name \o << COLON >> \o [j \in 1 .. n |-> SPACE] \o CString(h.value) = LineAt(pos)
      BY <1>9, <1>14, <2>1 DEF t, b
  <2> HIDE DEF h
  <2> QED  BY <1>6, <2>2 DEF IsOn
<1> QED  BY <1>3, <1>15

\* A line that is not well-formed has no ':' after its first character.
LEMMA BadLineIs ==
    ASSUME text \in Seq(Char), Placed, At(pos) # NUL, ~ WellFormed
    PROVE  COLON \notin Range(SubSeq(LineAt(pos), 2, Len(LineAt(pos))))
<1> DEFINE line == LineAt(pos)
           more == SubSeq(line, 1 + 1, Len(line))
           m == pos - 1
           n == LineLimit - 1
<1>1. /\ Len(text) \in Nat /\ TextEnd \in 0 .. Len(text) /\ At(TextEnd + 1) = NUL
      /\ \A j \in 1 .. TextEnd : text[j] # NUL
    BY TextEndIs
<1>2. /\ pos \in 1 .. TextEnd /\ LineLimit \in pos .. TextEnd + 1
      /\ line = SubSeq(text, pos, LineLimit - 1)
      /\ End # 0 => text[End] = NL
    BY LineIs
<1>3. m \in Nat /\ n \in m .. Len(text) /\ m + 1 = pos /\ m + 1 \in Nat
    BY <1>1, <1>2
<1> HIDE DEF line
<1>4. /\ line \in Seq(Char) /\ Len(line) = n - m
      /\ \A k \in 1 .. n - m : line[k] = text[m + k]
  <2> HIDE DEF m
  <2> QED  BY <1>2, <1>3, SliceIs
<1>5. /\ more \in Seq(Char) /\ Len(more) = IF 1 <= Len(line) THEN Len(line) - 1 ELSE 0
      /\ \A k \in 1 .. Len(more) : more[k] = line[1 + k]
  <2>1. line \in Seq(Char) /\ 1 \in Nat
      BY <1>4
  <2> QED  BY <2>1, EndIs
<1> HIDE DEF more
<1>6. ASSUME NEW k \in 1 .. Len(more), more[k] = COLON  PROVE FALSE
  <2> DEFINE i == pos + k
  <2>1. /\ 1 + k \in 1 .. n - m /\ m + (1 + k) = i
        /\ i \in pos + 1 .. n /\ i \in pos + 1 .. Len(text) /\ n < LineLimit /\ n <= TextEnd
      BY <1>1, <1>2, <1>3, <1>4, <1>5
  <2>2. text[i] = COLON
    <3>1. more[k] = line[1 + k] /\ line[1 + k] = text[m + (1 + k)]
        BY <1>4, <1>5, <2>1
    <3> QED  BY <1>6, <2>1, <3>1
  <2> HIDE DEF i
  <2>3. NameEnd # 0 /\ NameEnd <= i
    <3>1. pos + 1 \in Nat \ {0} /\ \A j \in pos + 1 .. i : text[j] # NUL
        BY <1>1, <1>2, <2>1
    <3> QED  BY <2>1, <2>2, <3>1, CharFacts, StrChrNone DEF NameEnd
  <2>4. NameEnd \in pos + 1 .. TextEnd
      BY <1>2, <2>3, NameEndIs
  <2>5. ValueStart <= LineLimit
    <3>1. NameEnd \in 1 .. TextEnd
        BY <1>1, <1>2, <2>4
    <3>2. LineLimit \in NameEnd + 1 .. Len(text) + 1
        BY <1>1, <1>2, <2>1, <2>3, <2>4
    <3>3. At(LineLimit) # SPACE
      <4>1. CASE End # 0
        <5>1. text[LineLimit] = NL
            BY <1>2, <4>1 DEF LineLimit
        <5> QED  BY <5>1, CharFacts DEF At
      <4>2. CASE End = 0
          BY <1>1, <4>2, CharFacts DEF LineLimit
      <4> QED  BY <4>1, <4>2
    <3> QED  BY <3>1, <3>2, <3>3, ValueStartIs
  <2>6. ValueStart <= ValueEnd
    <3>1. ValueStart \in NameEnd + 1 .. TextEnd + 1
      <4>1. NameEnd \in 1 .. TextEnd
          BY <1>1, <1>2, <2>4
      <4> QED  BY <4>1, ValueStartIs
    <3>2. CASE End # 0
        BY <2>5, <3>2 DEF LineLimit, ValueEnd
    <3>3. CASE End = 0
      <4>1. ValueEnd = Len(text) + 1
          BY <3>3 DEF ValueEnd
      <4> QED  BY <1>1, <2>4, <3>1, <4>1
    <3> QED  BY <3>2, <3>3
  <2> QED  BY <2>3, <2>6 DEF WellFormed
<1>7. DOMAIN more = 1 .. Len(more)
    BY <1>5
<1>8. COLON \notin Range(more)
    BY <1>6, <1>7 DEF Range
<1> QED  BY <1>8 DEF more, line

-----------------------------------------------------------------------------
(* The lines in order.                                                     *)

\* The next line, or the end.
LEMMA NextPosIs ==
    ASSUME text \in Seq(Char), Placed, At(pos) # NUL
    PROVE  /\ \/ NextPos = Len(text) + 1
              \/ NextPos \in 1 .. TextEnd + 1 /\ (NextPos = 1 \/ text[NextPos - 1] = NL)
           /\ {i \in LineStarts : i < NextPos} = {i \in LineStarts : i < pos} \cup {pos}
           /\ {i \in LineStarts : i <= pos} = {i \in LineStarts : i < pos} \cup {pos}
<1>1. /\ Len(text) \in Nat /\ TextEnd \in 0 .. Len(text) /\ DOMAIN CString(text) = 1 .. TextEnd
    BY TextEndIs
<1>2. /\ pos \in 1 .. TextEnd /\ pos \in LineStarts /\ LineLimit \in pos .. TextEnd + 1
      /\ \A j \in pos .. LineLimit - 1 : text[j] \in Clean
      /\ End # 0 => End <= TextEnd /\ text[End] = NL
    BY LineIs
<1>3. /\ End # 0 => NextPos = End + 1 /\ LineLimit = End
      /\ End = 0 => NextPos = Len(text) + 1 /\ LineLimit = TextEnd + 1
    BY DEF NextPos, LineLimit
<1>4. \/ NextPos = Len(text) + 1
      \/ NextPos \in 1 .. TextEnd + 1 /\ (NextPos = 1 \/ text[NextPos - 1] = NL)
  <2>1. ASSUME End # 0
        PROVE  NextPos \in 1 .. TextEnd + 1 /\ text[NextPos - 1] = NL
    <3>1. NextPos = End + 1 /\ End \in pos .. TextEnd /\ text[End] = NL
        BY <1>1, <1>2, <1>3, <2>1
    <3>2. NextPos \in 1 .. TextEnd + 1 /\ NextPos - 1 = End
        BY <1>1, <1>2, <3>1
    <3> QED  BY <3>1, <3>2
  <2> QED  BY <1>3, <2>1
<1>5. pos < NextPos
    BY <1>1, <1>2, <1>3
<1>6. ASSUME NEW i \in LineStarts, i < NextPos, i # pos  PROVE i < pos
  <2>1. i \in 1 .. TextEnd /\ (i = 1 \/ text[i - 1] = NL)
      BY <1>1 DEF LineStarts
  <2>2. ASSUME pos < i  PROVE FALSE
    <3>1. i <= LineLimit
        BY <1>1, <1>2, <1>3, <1>6, <2>1
    <3>2. i - 1 \in pos .. LineLimit - 1 /\ i # 1
        BY <1>1, <1>2, <2>1, <2>2, <3>1
    <3> QED  BY <1>2, <2>1, <3>2, CharFacts
  <2> QED  BY <1>1, <1>2, <1>6, <2>1, <2>2
<1>7. \A i \in LineStarts : i \in Int
    BY <1>1 DEF LineStarts
<1>8. {i \in LineStarts : i < NextPos} = {i \in LineStarts : i < pos} \cup {pos}
  <2>1. NextPos \in Int /\ pos \in Int
      BY <1>1, <1>2, <1>3
  <2>2. \A i \in LineStarts : i < pos => i < NextPos
      BY <1>5, <1>7, <2>1
  <2> QED  BY <1>2, <1>5, <1>6, <2>2
<1>9. {i \in LineStarts : i <= pos} = {i \in LineStarts : i < pos} \cup {pos}
  <2>1. pos \in Int
      BY <1>1, <1>2
  <2>2. \A i \in LineStarts : i <= pos <=> (i < pos \/ i = pos)
      BY <1>7, <2>1
  <2> QED  BY <1>2, <2>2
<1> QED  BY <1>4, <1>8, <1>9

\* One line more is behind the scan.
LEMMA LineCounted ==
    ASSUME text \in Seq(Char), Placed, At(pos) # NUL
    PROVE  LET c == Cardinality({i \in LineStarts : i < pos})
           IN  /\ c \in Nat /\ LineNumber(pos) = c + 1
               /\ Cardinality({i \in LineStarts : i < NextPos}) = c + 1
<1> DEFINE B == {i \in LineStarts : i < pos}
<1>1. /\ TextEnd \in Nat /\ DOMAIN CString(text) = 1 .. TextEnd /\ pos \in Int
    BY TextEndIs, LineIs
<1>2. IsFiniteSet(B)
  <2>1. IsFiniteSet(1 .. TextEnd)
      BY <1>1, FS_Interval
  <2>2. B \subseteq 1 .. TextEnd
      BY <1>1 DEF LineStarts
  <2> QED  BY <2>1, <2>2, FS_Subset
<1>3. pos \notin B
    BY <1>1
<1>4. Cardinality(B) \in Nat /\ Cardinality(B \cup {pos}) = Cardinality(B) + 1
  <2> HIDE DEF B
  <2> QED  BY <1>2, <1>3, FS_AddElement, FS_CardinalityType
<1> QED  BY <1>4, NextPosIs DEF LineNumber

-----------------------------------------------------------------------------
(* What hunpack prints.                                                    *)

\* What a header is made of.
LEMMA HeaderFacts ==
    ASSUME NEW h \in Header
    PROVE  /\ h.name \in Seq(Clean) /\ h.name # << >> /\ h.value \in Seq(Char)
           /\ \A j \in 2 .. Len(h.name) : h.name[j] # COLON
           /\ CString(h.value) \in Seq(Clean)
           /\ CString(h.value) # << >> => CString(h.value)[1] # SPACE
           /\ h.name \in Seq(Char) /\ CString(h.name) = h.name
           /\ \A j \in 1 .. Len(h.name) : h.name[j] \in Clean
           /\ CString(h.value) \in Seq(Char) /\ CString(CString(h.value)) = CString(h.value)
           /\ \A j \in 1 .. Len(CString(h.value)) : CString(h.value)[j] \in Clean
<1>1. /\ h.name \in Seq(Clean) /\ h.name # << >> /\ h.value \in Seq(Char)
      /\ \A j \in 2 .. Len(h.name) : h.name[j] # COLON
      /\ CString(h.value) \in Seq(Clean)
      /\ CString(h.value) # << >> => CString(h.value)[1] # SPACE
    BY DEF Header
<1>2. /\ h.name \in Seq(Char) /\ CString(h.name) = h.name
      /\ \A j \in 1 .. Len(h.name) : h.name[j] \in Clean
    BY <1>1, CStringOfClean
<1>3. /\ CString(h.value) \in Seq(Char) /\ CString(CString(h.value)) = CString(h.value)
      /\ \A j \in 1 .. Len(CString(h.value)) : CString(h.value)[j] \in Clean
    BY <1>1, CStringOfClean
<1> QED  BY <1>1, <1>2, <1>3

\* The parts of a printed line.
LEMMA PrintedLineIs ==
    ASSUME NEW h \in Header
    PROVE  LET a == h.name
               c == CString(h.value)
               t == Line(h)
           IN  /\ t \in Seq(Char) /\ Len(t) = Len(a) + Len(c) + 3
               /\ \A k \in 1 .. Len(a) : t[k] = a[k]
               /\ t[Len(a) + 1] = COLON /\ t[Len(a) + 2] = SPACE
               /\ \A k \in 1 .. Len(c) : t[Len(a) + 2 + k] = c[k]
               /\ t[Len(a) + Len(c) + 3] = NL
<1> DEFINE a == h.name
           c == CString(h.value)
           b == << COLON, SPACE >>
           p == a \o b
           q == p \o c
           t == q \o << NL >>
<1>1. a \in Seq(Char) /\ c \in Seq(Char) /\ CString(h.name) = a
    BY HeaderFacts
<1>2. b \in Seq(Char) /\ Len(b) = 2 /\ b[1] = COLON /\ b[2] = SPACE /\ << NL >> \in Seq(Char)
    BY CharFacts
<1>3. Line(h) = t
    BY <1>1 DEF Line
<1> HIDE DEF a, b, c
<1>4. Len(a) \in Nat /\ Len(c) \in Nat
    BY <1>1
<1>5. /\ p \in Seq(Char) /\ Len(p) = Len(a) + Len(b)
      /\ \A k \in 1 .. Len(a) : p[k] = a[k]
      /\ \A k \in 1 .. Len(b) : p[Len(a) + k] = b[k]
  <2>1. a \in Seq(Char) /\ b \in Seq(Char)
      BY <1>1, <1>2
  <2> QED  BY <2>1, BothParts
<1> HIDE DEF p
<1>6. /\ q \in Seq(Char) /\ Len(q) = Len(p) + Len(c)
      /\ \A k \in 1 .. Len(p) : q[k] = p[k]
      /\ \A k \in 1 .. Len(c) : q[Len(p) + k] = c[k]
  <2>1. p \in Seq(Char) /\ c \in Seq(Char)
      BY <1>1, <1>5
  <2> QED  BY <2>1, BothParts
<1> HIDE DEF q
<1>7. /\ t \in Seq(Char) /\ Len(t) = Len(q) + 1
      /\ \A k \in 1 .. Len(q) : t[k] = q[k]
      /\ t[Len(q) + 1] = NL
  <2>1. q \in Seq(Char) /\ NL \in Char
      BY <1>6, CharFacts
  <2> QED  BY <2>1
<1> HIDE DEF t
<1>8. /\ Len(p) = Len(a) + 2 /\ Len(q) = Len(a) + 2 + Len(c) /\ Len(q) + 1 = Len(a) + Len(c) + 3
      /\ p[Len(a) + 1] = COLON /\ p[Len(a) + 2] = SPACE
  <2>1. 1 \in 1 .. Len(b) /\ 2 \in 1 .. Len(b)
      BY <1>2
  <2>2. p[Len(a) + 1] = COLON /\ p[Len(a) + 2] = SPACE
      BY <1>2, <1>5, <2>1
  <2> QED  BY <1>2, <1>4, <1>5, <1>6, <2>2
<1>9. \A k \in 1 .. Len(p) : t[k] = p[k]
  <2>1. \A k \in 1 .. Len(p) : k \in 1 .. Len(q)
      BY <1>4, <1>8
  <2> QED  BY <1>6, <1>7, <2>1
<1>10. \A k \in 1 .. Len(a) : t[k] = a[k]
  <2>1. \A k \in 1 .. Len(a) : k \in 1 .. Len(p)
      BY <1>4, <1>8
  <2> QED  BY <1>5, <1>9, <2>1
<1>11. t[Len(a) + 1] = COLON /\ t[Len(a) + 2] = SPACE
  <2>1. Len(a) + 1 \in 1 .. Len(p) /\ Len(a) + 2 \in 1 .. Len(p)
      BY <1>4, <1>8
  <2> QED  BY <1>8, <1>9, <2>1
<1>12. ASSUME NEW k \in 1 .. Len(c)  PROVE t[Len(a) + 2 + k] = c[k]
  <2>1. Len(p) + k \in 1 .. Len(q)
      BY <1>4, <1>8
  <2>2. t[Len(p) + k] = q[Len(p) + k] /\ q[Len(p) + k] = c[k]
      BY <1>6, <1>7, <2>1
  <2> QED  BY <1>8, <2>2
<1> QED  BY <1>3, <1>7, <1>8, <1>10, <1>11, <1>12 DEF a, c

\* The lines of printed headers are one behind the other.
LEMMA PrintedType ==
    ASSUME NEW hs \in Seq(Header)
    PROVE  /\ [i \in DOMAIN hs |-> Line(hs[i])] \in Seq(Seq(Char))
           /\ Printed(hs) \in Seq(Char)
           /\ hs = << >> => Printed(hs) = << >>
<1> DEFINE ls == [i \in DOMAIN hs |-> Line(hs[i])]
<1>1. ls \in Seq(Seq(Char))
  <2>1. \A i \in 1 .. Len(hs) : Line(hs[i]) \in Seq(Char)
    <3>1. \A i \in 1 .. Len(hs) : hs[i] \in Header
        OBVIOUS
    <3> QED  BY <3>1, PrintedLineIs
  <2>2. DOMAIN hs = 1 .. Len(hs) /\ Len(hs) \in Nat
      OBVIOUS
  <2>3. ls = [i \in 1 .. Len(hs) |-> Line(hs[i])]
      BY <2>2
  <2> QED  BY <2>1, <2>2, <2>3, IsASeq
<1>2. hs = << >> => ls = << >>
  <2>1. hs = << >> => Len(ls) = 0
      OBVIOUS
  <2> HIDE DEF ls
  <2> QED  BY <1>1, <2>1, EmptySeq
<1> HIDE DEF ls
<1>3. FlattenSeq(ls) \in Seq(Char) /\ (ls = << >> => FlattenSeq(ls) = << >>)
    BY <1>1, FlattenType
<1> QED  BY <1>1, <1>2, <1>3 DEF ls, Printed

\* A header more is a line more.
LEMMA PrintedAppend ==
    ASSUME NEW hs \in Seq(Header), NEW h \in Header
    PROVE  Printed(Append(hs, h)) = Printed(hs) \o Line(h)
<1> DEFINE gs == Append(hs, h)
           ls == [i \in DOMAIN hs |-> Line(hs[i])]
           ms == [i \in DOMAIN gs |-> Line(gs[i])]
<1>1. ls \in Seq(Seq(Char)) /\ Line(h) \in Seq(Char)
    BY PrintedType, PrintedLineIs
<1>2. ms = Append(ls, Line(h))
  <2>1. /\ Len(hs) \in Nat /\ DOMAIN hs = 1 .. Len(hs) /\ DOMAIN gs = 1 .. Len(hs) + 1
        /\ gs[Len(hs) + 1] = h /\ \A i \in 1 .. Len(hs) : gs[i] = hs[i]
      OBVIOUS
  <2> HIDE DEF gs
  <2>2. /\ gs \in Seq(Header)
        /\ ms \in Seq(Seq(Char)) /\ Len(ms) = Len(hs) + 1 /\ ms[Len(hs) + 1] = Line(h)
        /\ \A i \in 1 .. Len(hs) : ms[i] = ls[i]
    <3>1. gs \in Seq(Header)
        BY DEF gs
    <3>2. ms \in Seq(Seq(Char))
        BY <3>1, PrintedType
    <3>3. Len(hs) + 1 \in 1 .. Len(hs) + 1 /\ \A i \in 1 .. Len(hs) : i \in 1 .. Len(hs) + 1
        BY <2>1
    <3> QED  BY <2>1, <3>1, <3>2, <3>3
  <2>3. Len(ls) = Len(hs)
      BY <2>1
  <2> HIDE DEF ls, ms
  <2> DEFINE u == Append(ls, Line(h))
  <2>4. u \in Seq(Seq(Char)) /\ Len(u) = Len(ls) + 1 /\ u[Len(ls) + 1] = Line(h)
      BY <1>1, AppendProperties
  <2>5. \A i \in 1 .. Len(ls) : u[i] = ls[i]
      BY <1>1, AppendProperties
  <2> HIDE DEF u
  <2>6. Len(ms) = Len(u)
      BY <2>2, <2>3, <2>4
  <2>7. ASSUME NEW i \in 1 .. Len(ms)  PROVE ms[i] = u[i]
    <3>1. i = Len(hs) + 1 \/ i \in 1 .. Len(hs)
        BY <2>1, <2>2
    <3> QED  BY <2>2, <2>3, <2>4, <2>5, <3>1
  <2>8. ms = u
    <3>1. ms \in Seq(Seq(Char)) /\ u \in Seq(Seq(Char))
        BY <2>2, <2>4
    <3> QED  BY <2>6, <2>7, <3>1, SeqEqual
  <2> QED  BY <2>8 DEF u
<1> HIDE DEF ls, gs, ms
<1>3. FlattenSeq(ms) = FlattenSeq(ls) \o Line(h)
    BY <1>1, <1>2, FlattenLast
<1> QED  BY <1>3 DEF Printed, ls, ms, gs

\* The first line is that of the first header.
LEMMA PrintedFirst ==
    ASSUME NEW hs \in Seq(Header), hs # << >>
    PROVE  /\ hs[1] \in Header /\ Tail(hs) \in Seq(Header)
           /\ Printed(hs) = Line(hs[1]) \o Printed(Tail(hs))
<1> DEFINE gs == Tail(hs)
           ls == [i \in DOMAIN hs |-> Line(hs[i])]
           ms == [i \in DOMAIN gs |-> Line(gs[i])]
           l == Line(hs[1])
<1>1. /\ Len(hs) \in Nat /\ Len(hs) >= 1 /\ hs[1] \in Header
      /\ gs \in Seq(Header) /\ Len(gs) = Len(hs) - 1
      /\ \A k \in 1 .. Len(hs) - 1 : gs[k] = hs[k + 1]
  <2>1. Len(hs) \in Nat /\ Len(hs) >= 1
      BY EmptySeq
  <2> QED  BY <2>1, HeadTailProperties
<1> HIDE DEF gs
<1>2. ls \in Seq(Seq(Char)) /\ ms \in Seq(Seq(Char)) /\ l \in Seq(Char)
    BY <1>1, PrintedType, PrintedLineIs
<1>3. ls = << l >> \o ms
  <2>1. /\ Len(ls) = Len(hs) /\ Len(ms) = Len(hs) - 1
        /\ \A k \in 1 .. Len(hs) : ls[k] = Line(hs[k])
        /\ \A k \in 1 .. Len(hs) - 1 : ms[k] = Line(gs[k])
      BY <1>1
  <2>2. ls[1] = l /\ \A k \in 1 .. Len(hs) - 1 : ls[k + 1] = ms[k]
    <3>1. 1 \in 1 .. Len(hs) /\ \A k \in 1 .. Len(hs) - 1 : k + 1 \in 1 .. Len(hs)
        BY <1>1
    <3> HIDE DEF ls, ms
    <3> QED  BY <1>1, <2>1, <3>1
  <2> HIDE DEF ls, ms, l
  <2> DEFINE u == << l >> \o ms
  <2>3. u \in Seq(Seq(Char)) /\ Len(u) = 1 + Len(ms) /\ u[1] = l /\ \A k \in 1 .. Len(ms) : u[k + 1] = ms[k]
      BY <1>2
  <2> HIDE DEF u
  <2>4. Len(u) = Len(ls)
      BY <1>1, <2>1, <2>3
  <2>5. ASSUME NEW k \in 1 .. Len(u)  PROVE u[k] = ls[k]
    <3>1. k = 1 \/ (k - 1 \in 1 .. Len(hs) - 1 /\ (k - 1) + 1 = k)
        BY <1>1, <2>1, <2>4
    <3> QED  BY <2>1, <2>2, <2>3, <3>1
  <2>6. u = ls
    <3>1. u \in Seq(Seq(Char)) /\ ls \in Seq(Seq(Char))
        BY <1>2, <2>3
    <3> QED  BY <2>4, <2>5, <3>1, SeqEqual
  <2> QED  BY <2>6 DEF u
<1> HIDE DEF ls, ms
<1>4. FlattenSeq(ls) = l \o FlattenSeq(ms)
  <2> HIDE DEF l
  <2> QED  BY <1>2, <1>3, FlattenFirst
<1> QED  BY <1>1, <1>4 DEF Printed, ls, ms, gs

\* Headers with the same C strings are printed alike.
LEMMA PrintedAlike ==
    ASSUME NEW hs \in Seq(Header), NEW gs \in Seq(Header), Len(hs) = Len(gs),
           \A k \in 1 .. Len(hs) :
              CString(hs[k].name) = CString(gs[k].name) /\ CString(hs[k].value) = CString(gs[k].value)
    PROVE  Printed(hs) = Printed(gs)
<1>1. DOMAIN hs = 1 .. Len(hs) /\ DOMAIN gs = 1 .. Len(hs)
    OBVIOUS
<1>2. \A k \in 1 .. Len(hs) : Line(hs[k]) = Line(gs[k])
    BY DEF Line
<1>3. [i \in DOMAIN hs |-> Line(hs[i])] = [i \in DOMAIN gs |-> Line(gs[i])]
    BY <1>1, <1>2, Zenon
<1> QED  BY <1>3 DEF Printed

\* A printed line is scanned as the header it was printed from.
LEMMA PrintedIsRead ==
    ASSUME text \in Seq(Char), NEW A \in Seq(Char), NEW h \in Header, NEW R \in Seq(Char),
           text = A \o (Line(h) \o R), pos = Len(A) + 1
    PROVE  /\ At(pos) # NUL /\ WellFormed
           /\ LineName = h.name /\ LineValue = CString(h.value)
           /\ NextPos = pos + Len(Line(h))
<1> DEFINE a == h.name
           c == CString(h.value)
           t == Line(h)
           P == Len(A)
           x == Len(a)
           z == Len(c)
<1>1. /\ t \in Seq(Char) /\ Len(t) = x + z + 3
      /\ \A k \in 1 .. x : t[k] = a[k]
      /\ t[x + 1] = COLON /\ t[x + 2] = SPACE
      /\ \A k \in 1 .. z : t[x + 2 + k] = c[k]
      /\ t[x + z + 3] = NL
    BY PrintedLineIs
<1>2. /\ a \in Seq(Clean) /\ a # << >> /\ c \in Seq(Clean)
      /\ \A j \in 2 .. x : a[j] # COLON
      /\ c # << >> => c[1] # SPACE
      /\ a \in Seq(Char) /\ c \in Seq(Char)
      /\ \A j \in 1 .. x : a[j] \in Clean
      /\ \A j \in 1 .. z : c[j] \in Clean
    BY HeaderFacts
<1>3. x \in Nat /\ x >= 1 /\ z \in Nat /\ P \in Nat
    BY <1>2, EmptySeq
<1> HIDE DEF a, c, t
<1>4. /\ Len(text) >= P + (x + z + 3) /\ Len(text) \in Nat /\ DOMAIN text = 1 .. Len(text)
      /\ \A k \in 1 .. x + z + 3 : text[P + k] = t[k]
  <2> DEFINE tr == t \o R
  <2>1. /\ tr \in Seq(Char) /\ Len(tr) = Len(t) + Len(R)
        /\ \A k \in 1 .. Len(t) : tr[k] = t[k]
    <3>1. t \in Seq(Char) /\ R \in Seq(Char)
        BY <1>1
    <3> QED  BY <3>1, BothParts
  <2>2. text = A \o tr
      BY DEF t
  <2> HIDE DEF tr
  <2>3. /\ Len(text) = Len(A) + Len(tr)
        /\ \A k \in 1 .. Len(tr) : text[Len(A) + k] = tr[k]
    <3>1. A \in Seq(Char) /\ tr \in Seq(Char)
        BY <2>1
    <3> QED  BY <2>2, <3>1, BothParts
  <2>4. Len(R) \in Nat /\ Len(t) = x + z + 3 /\ Len(tr) = x + z + 3 + Len(R)
      BY <1>1, <2>1
  <2>5. \A k \in 1 .. x + z + 3 : k \in 1 .. Len(tr) /\ k \in 1 .. Len(t)
      BY <1>3, <2>4
  <2>6. \A k \in 1 .. x + z + 3 : text[P + k] = t[k]
      BY <2>1, <2>3, <2>5
  <2> QED  BY <1>3, <2>3, <2>4, <2>6
<1> HIDE DEF x, z, P
<1>5. pos = P + 1 /\ pos \in Nat \ {0}
    BY <1>3 DEF P
<1>6. ASSUME NEW k \in 1 .. x + z + 2  PROVE text[P + k] \in Clean
  <2>1. k \in 1 .. x + z + 3
      BY <1>3
  <2>2. k \in 1 .. x \/ k = x + 1 \/ k = x + 2 \/ (k - (x + 2) \in 1 .. z /\ x + 2 + (k - (x + 2)) = k)
      BY <1>3
  <2>3. CASE k \in 1 .. x
    <3>1. a[k] \in Clean /\ t[k] = a[k]
        BY <1>1, <1>2, <2>3, ElementOfSeq DEF x
    <3> QED  BY <1>4, <2>1, <3>1
  <2>4. CASE k = x + 1 \/ k = x + 2
      BY <1>1, <1>4, <2>1, <2>4, CharFacts
  <2>5. CASE k - (x + 2) \in 1 .. z /\ x + 2 + (k - (x + 2)) = k
    <3>1. c[k - (x + 2)] \in Clean /\ t[x + 2 + (k - (x + 2))] = c[k - (x + 2)]
        BY <1>1, <1>2, <2>5, ElementOfSeq, Zenon DEF z
    <3> QED  BY <1>4, <2>1, <2>5, <3>1
  <2> QED  BY <2>2, <2>3, <2>4, <2>5
<1>7. text[P + (x + 1)] = COLON /\ text[P + (x + 2)] = SPACE /\ text[P + (x + z + 3)] = NL
  <2>1. x + 1 \in 1 .. x + z + 3 /\ x + 2 \in 1 .. x + z + 3 /\ x + z + 3 \in 1 .. x + z + 3
      BY <1>3
  <2> QED  BY <1>1, <1>4, <2>1
<1>8. End = P + (x + z + 3)
  <2> DEFINE i == P + (x + z + 3)
  <2>1. i \in pos .. Len(text)
      BY <1>3, <1>4, <1>5
  <2>2. ASSUME NEW j \in pos .. i - 1  PROVE text[j] \in Clean
    <3>1. j - P \in 1 .. x + z + 2 /\ P + (j - P) = j
        BY <1>3, <1>5
    <3> QED  BY <1>6, <3>1
  <2>3. \A j \in pos .. i - 1 : text[j] # NL /\ text[j] # NUL
      BY <2>2, CharFacts
  <2>4. \A j \in pos .. i : text[j] # NUL
    <3>1. \A j \in pos .. i : j = i \/ j \in pos .. i - 1
        BY <1>3, <1>5
    <3> QED  BY <1>7, <2>3, <3>1, CharFacts
  <2>5. text[i] = NL
      BY <1>7
  <2> HIDE DEF i
  <2>6. StrChr(pos, NL) = i
    <3>1. pos \in Nat \ {0} /\ NL \in Char /\ \A j \in pos .. i - 1 : text[j] # NL
        BY <1>5, <2>3, CharFacts
    <3>2. FirstAt(pos, NL, i)
        BY <2>1, <2>4, <2>5, <3>1 DEF FirstAt
    <3> QED  BY <3>1, <3>2, StrChrAt
  <2> QED  BY <2>6 DEF End, i
<1>9. NameEnd = P + (x + 1)
  <2> DEFINE i == P + (x + 1)
             f == pos + 1
  <2>1. i \in f .. Len(text) /\ f \in Nat \ {0}
      BY <1>3, <1>4, <1>5
  <2>2. ASSUME NEW j \in f .. i - 1  PROVE text[j] # COLON /\ text[j] # NUL
    <3>1. j - P \in 2 .. x /\ P + (j - P) = j /\ j - P \in 1 .. x + z + 2 /\ j - P \in 1 .. x
          /\ j - P \in 1 .. x + z + 3
        BY <1>3, <1>5
    <3>2. text[j] = a[j - P] /\ text[j] \in Clean
        BY <1>1, <1>4, <1>6, <3>1
    <3> QED  BY <1>2, <3>1, <3>2, CharFacts
  <2>3. text[i] = COLON
      BY <1>7
  <2>4. \A j \in f .. i : text[j] # NUL
    <3>1. \A j \in f .. i : j = i \/ j \in f .. i - 1
        BY <1>3, <1>5
    <3> QED  BY <2>2, <2>3, <3>1, CharFacts
  <2> HIDE DEF i, f
  <2>5. StrChr(f, COLON) = i
    <3>1. COLON \in Char /\ \A j \in f .. i - 1 : text[j] # COLON
        BY <2>2, CharFacts
    <3>2. FirstAt(f, COLON, i)
        BY <2>1, <2>3, <2>4, <3>1 DEF FirstAt
    <3> QED  BY <2>1, <3>1, <3>2, StrChrAt
  <2> QED  BY <2>5 DEF NameEnd, i, f
<1>10. ValueStart = P + (x + 3)
  <2> DEFINE T == {i \in NameEnd + 1 .. Len(text) + 1 : At(i) # SPACE}
             v == P + (x + 3)
  <2>1. v \in NameEnd + 1 .. Len(text) /\ v \in DOMAIN text /\ x + 3 \in 1 .. x + z + 3
    <3>1. DOMAIN text = 1 .. Len(text) /\ Len(text) \in Nat /\ Len(text) >= P + (x + z + 3)
        BY <1>4
    <3>2. /\ NameEnd + 1 = P + (x + 2) /\ x + 3 \in 1 .. x + z + 3
          /\ v \in P + (x + 2) .. Len(text) /\ v \in 1 .. Len(text)
        BY <1>3, <1>9, <3>1
    <3> QED  BY <3>1, <3>2
  <2>2. text[v] # SPACE
    <3>1. CASE z = 0
      <4>1. x + z + 3 = x + 3
          BY <1>3, <3>1
      <4> QED  BY <1>7, <4>1, CharFacts
    <3>2. CASE z # 0
      <4>1. 1 \in 1 .. z /\ c # << >>
          BY <1>2, <1>3, <3>2, EmptySeq DEF z
      <4>2. t[x + 2 + 1] = c[1] /\ c[1] # SPACE
          BY <1>1, <1>2, <4>1
      <4>3. x + 2 + 1 = x + 3
          BY <1>3
      <4>4. text[P + (x + 3)] = t[x + 3]
          BY <1>4, <2>1
      <4> QED  BY <4>2, <4>3, <4>4
    <3> QED  BY <3>1, <3>2
  <2>3. ASSUME NEW y \in T  PROVE v <= y
    <3>1. NameEnd + 1 = P + (x + 2) /\ NameEnd + 1 \in DOMAIN text
      <4>1. DOMAIN text = 1 .. Len(text) /\ Len(text) \in Nat /\ Len(text) >= P + (x + z + 3)
          BY <1>4
      <4>2. NameEnd + 1 = P + (x + 2) /\ P + (x + 2) \in 1 .. Len(text)
          BY <1>3, <1>9, <4>1
      <4> QED  BY <4>1, <4>2
    <3>2. At(NameEnd + 1) = SPACE
        BY <1>7, <3>1 DEF At
    <3>3. y \in NameEnd + 1 .. Len(text) + 1 /\ y # NameEnd + 1
        BY <3>2
    <3>4. y > NameEnd + 1 /\ y \in Int
        BY <1>3, <1>4, <3>1, <3>3
    <3> QED  BY <1>3, <3>1, <3>4
  <2>4. T \subseteq Nat
      BY <1>3, <1>9
  <2>5. v \in T
    <3>1. At(v) = text[v]
        BY <2>1 DEF At
    <3>2. v \in NameEnd + 1 .. Len(text) + 1
        BY <1>3, <1>4, <1>9, <2>1
    <3> HIDE DEF v
    <3> QED  BY <2>2, <3>1, <3>2
  <2> HIDE DEF T, v
  <2>6. Min(T) = v
      BY <2>3, <2>4, <2>5, LeastOf
  <2> QED  BY <2>6 DEF ValueStart, T, v
<1>11. ValueEnd = P + (x + z + 3) /\ NextPos = P + (x + z + 3) + 1
    BY <1>3, <1>8 DEF ValueEnd, NextPos
<1>12. At(pos) # NUL
  <2>1. pos \in DOMAIN text /\ 1 \in 1 .. x + z + 2
      BY <1>3, <1>4, <1>5
  <2> QED  BY <1>5, <1>6, <2>1, CharFacts DEF At
<1>13. WellFormed
    BY <1>3, <1>9, <1>10, <1>11 DEF WellFormed
<1>14. LineName = a
  <2> DEFINE n == P + x
             s == SubSeq(text, P + 1, n)
  <2>1. P \in Nat /\ n \in P .. Len(text) /\ n - P = x /\ n = NameEnd - 1
      BY <1>3, <1>4, <1>9
  <2>2. LineName = s
      BY <1>5, <2>1 DEF LineName
  <2> HIDE DEF n
  <2>3. s \in Seq(Char) /\ Len(s) = x /\ \A k \in 1 .. x : s[k] = text[P + k]
    <3>1. s \in Seq(Char) /\ Len(s) = n - P /\ \A k \in 1 .. n - P : s[k] = text[P + k]
        BY <2>1, SliceIs, ZenonT(60)
    <3> QED  BY <2>1, <3>1
  <2> HIDE DEF s
  <2>4. ASSUME NEW k \in 1 .. Len(s)  PROVE s[k] = a[k]
    <3>1. k \in 1 .. x /\ k \in 1 .. x + z + 3
        BY <1>3, <2>3
    <3> QED  BY <1>1, <1>4, <2>3, <3>1
  <2>5. Len(s) = Len(a) /\ a \in Seq(Char) /\ s \in Seq(Char)
      BY <1>2, <2>3 DEF x
  <2>6. s = a
      BY <2>4, <2>5, SeqEqual
  <2> QED  BY <2>2, <2>6
<1>15. LineValue = c
  <2> DEFINE m == P + (x + 2)
             n == P + (x + z + 2)
             s == SubSeq(text, m + 1, n)
  <2>1. m \in Nat /\ n \in m .. Len(text) /\ n - m = z /\ n = ValueEnd - 1 /\ m + 1 = ValueStart
      BY <1>3, <1>4, <1>10, <1>11
  <2>2. LineValue = s
      BY <2>1 DEF LineValue
  <2> HIDE DEF n, m
  <2>3. s \in Seq(Char) /\ Len(s) = z /\ \A k \in 1 .. z : s[k] = text[m + k]
    <3>1. s \in Seq(Char) /\ Len(s) = n - m /\ \A k \in 1 .. n - m : s[k] = text[m + k]
        BY <2>1, SliceIs, ZenonT(60)
    <3> QED  BY <2>1, <3>1
  <2> HIDE DEF s
  <2>4. ASSUME NEW k \in 1 .. Len(s)  PROVE s[k] = c[k]
    <3>1. k \in 1 .. z /\ x + 2 + k \in 1 .. x + z + 3 /\ m + k = P + (x + 2 + k)
        BY <1>3, <2>3 DEF m
    <3>2. text[P + (x + 2 + k)] = t[x + 2 + k] /\ t[x + 2 + k] = c[k]
        BY <1>1, <1>4, <3>1
    <3> QED  BY <2>3, <3>1, <3>2
  <2>5. Len(s) = Len(c) /\ c \in Seq(Char) /\ s \in Seq(Char)
      BY <1>2, <2>3 DEF z
  <2>6. s = c
      BY <2>4, <2>5, SeqEqual
  <2> QED  BY <2>2, <2>6
<1>16. NextPos = pos + Len(t)
  <2>1. Len(t) = x + z + 3
      BY <1>1
  <2>2. P + (x + z + 3) + 1 = (P + 1) + (x + z + 3)
      BY <1>3
  <2> QED  BY <1>5, <1>11, <2>1, <2>2
<1> QED  BY <1>12, <1>13, <1>14, <1>15, <1>16 DEF a, c, t

-----------------------------------------------------------------------------
(* The programs that scan and print.                                       *)

\* The scan starts at the first line.
LEMMA LinesInvInit == LinesInit => LinesInv
<1> SUFFICES ASSUME LinesInit  PROVE LinesInv
    OBVIOUS
<1>1. /\ program \in {"hpack", "ng_hpack"}
      /\ pos = 1 /\ headers = << >> /\ phase = "scan" /\ died = FALSE /\ round = 1
    BY DEF LinesInit
<1>2. text \in Seq(Char)
  <2>1. PICK n \in 0 .. MaxLength : text \in [1 .. n -> Char]
      BY DEF LinesInit
  <2>2. n \in Nat
      BY LinesAssumption
  <2> QED  BY <2>1, <2>2
<1>3. headers \in Seq(Header)
    BY <1>1
<1>4. TextEnd \in Nat /\ DOMAIN CString(text) = 1 .. TextEnd
    BY <1>2, TextEndIs
<1>5. Placed
    BY <1>1, <1>4 DEF Placed
<1>6. Numbered
  <2>1. {i \in LineStarts : i < pos} = {}
      BY <1>1, <1>4 DEF LineStarts
  <2>2. Cardinality({i \in LineStarts : i < pos}) = 0
      BY <2>1, FS_EmptySet
  <2>3. Len(headers) = 0 /\ DOMAIN headers = {}
      BY <1>1
  <2> QED  BY <1>1, <2>2, <2>3 DEF Numbered
<1>7. ReadAgain
  <2>1. round # 2
      BY <1>1
  <2> QED  BY <2>1, Zenon DEF ReadAgain
<1>8. ~ died /\ died \in BOOLEAN /\ phase \in {"scan", "deflate", "print"} /\ round \in {1, 2}
    BY <1>1
<1> QED  BY <1>1, <1>2, <1>3, <1>5, <1>6, <1>7, <1>8, Zenon DEF LinesInv

\* The lines are those of the text.
LEMMA SameText ==
    ASSUME text' = text
    PROVE  /\ TextEnd' = TextEnd /\ LineStarts' = LineStarts
           /\ \A i : LineNumber(i)' = LineNumber(i) /\ LineAt(i)' = LineAt(i)
           /\ \A h, l : IsOn(h, l) => IsOn(h, l)'
<1>1. TextEnd' = TextEnd /\ LineStarts' = LineStarts
    BY DEF TextEnd, LineStarts
<1>2. ASSUME NEW i  PROVE LineNumber(i)' = LineNumber(i) /\ LineAt(i)' = LineAt(i)
    BY <1>1 DEF LineNumber, LineAt
<1>3. ASSUME NEW h, NEW l, IsOn(h, l)  PROVE IsOn(h, l)'
    BY <1>3 DEF IsOn
<1> QED  BY <1>1, <1>2, <1>3

\* While printed text is scanned, the next of the headers is at pos.
LEMMA NextPrinted ==
    ASSUME LinesInv, phase = "scan", round = 2, At(pos) # NUL
    PROVE  /\ WellFormed
           /\ \E h \in Header, r \in Seq(Header) :
                 /\ LineName = h.name /\ LineValue = CString(h.value)
                 /\ NextPos = pos + Len(Line(h))
                 /\ text = Printed(headers) \o (Line(h) \o Printed(r))
                 /\ pos = Len(Printed(headers)) + 1
<1>1. text \in Seq(Char) /\ headers \in Seq(Header)
    BY DEF LinesInv
<1>2. PICK more \in Seq(Header) : /\ text = Printed(headers) \o Printed(more)
                                  /\ pos = Len(Printed(headers)) + 1
    BY DEF LinesInv, ReadAgain
<1>3. Printed(headers) \in Seq(Char) /\ Printed(more) \in Seq(Char)
    BY <1>1, PrintedType
<1>4. more # << >>
  <2>1. ASSUME more = << >>  PROVE FALSE
    <3>1. Printed(more) = << >>
        BY <2>1, PrintedType
    <3>2. text = Printed(headers)
        BY <1>2, <1>3, <3>1, ConcatEmptySeq
    <3>3. Len(text) \in Nat /\ DOMAIN text = 1 .. Len(text) /\ pos = Len(text) + 1
        BY <1>1, <1>2, <3>2
    <3>4. pos \notin DOMAIN text
        BY <3>3
    <3> QED  BY <3>4 DEF At
  <2> QED  BY <2>1
<1> DEFINE h == more[1]
           r == Tail(more)
<1>5. h \in Header /\ r \in Seq(Header) /\ Printed(more) = Line(h) \o Printed(r)
    BY <1>4, PrintedFirst
<1>6. Printed(r) \in Seq(Char)
    BY <1>5, PrintedType
<1> HIDE DEF h, r
<1>7. text = Printed(headers) \o (Line(h) \o Printed(r))
    BY <1>2, <1>5
<1>8. /\ WellFormed
      /\ LineName = h.name /\ LineValue = CString(h.value)
      /\ NextPos = pos + Len(Line(h))
    BY <1>1, <1>2, <1>3, <1>5, <1>6, <1>7, PrintedIsRead
<1> QED  BY <1>2, <1>5, <1>7, <1>8

\* Three texts, one behind the other.
LEMMA ConcatChars ==
    \A x \in Seq(Char), y \in Seq(Char), z \in Seq(Char) : (x \o y) \o z = x \o (y \o z)
<1> SUFFICES ASSUME NEW x \in Seq(Char), NEW y \in Seq(Char), NEW z \in Seq(Char)
             PROVE  (x \o y) \o z = x \o (y \o z)
    OBVIOUS
<1> QED  BY ConcatAssociative

\* A header more is printed with its line behind the others.
LEMMA ReadsOn ==
    ASSUME LinesInv, phase = "scan", round = 2, At(pos) # NUL, WellFormed
    PROVE  LET hs == Append(headers, [name |-> LineName, value |-> LineValue])
           IN  \E more \in Seq(Header) :
                  /\ text = Printed(hs) \o Printed(more)
                  /\ NextPos = Len(Printed(hs)) + 1
<1> DEFINE g == [name |-> LineName, value |-> LineValue]
           hs == Append(headers, g)
           A == Printed(headers)
<1>1. text \in Seq(Char) /\ headers \in Seq(Header) /\ Placed
    BY DEF LinesInv
<1>2. g \in Header
    BY <1>1, HeaderIs
<1>3. PICK h \in Header, r \in Seq(Header) :
         /\ LineName = h.name /\ LineValue = CString(h.value)
         /\ NextPos = pos + Len(Line(h))
         /\ text = A \o (Line(h) \o Printed(r))
         /\ pos = Len(A) + 1
    BY NextPrinted
<1>4. Line(g) = Line(h)
  <2>1. g.name = h.name /\ g.value = CString(h.value) /\ CString(CString(h.value)) = CString(h.value)
      BY <1>3, HeaderFacts
  <2> HIDE DEF g
  <2> QED  BY <2>1 DEF Line
<1> HIDE DEF g
<1>5. Printed(hs) = A \o Line(h)
    BY <1>1, <1>2, <1>4, PrintedAppend
<1>6. A \in Seq(Char) /\ Line(h) \in Seq(Char) /\ Printed(r) \in Seq(Char)
    BY <1>1, PrintedType, PrintedLineIs
<1> HIDE DEF hs, A
<1>7. text = Printed(hs) \o Printed(r)
  <2> DEFINE b == Line(h)
             p == Printed(r)
  <2>1. b \in Seq(Char) /\ p \in Seq(Char)
      BY <1>6
  <2>2. text = A \o (b \o p) /\ Printed(hs) = A \o b
      BY <1>3, <1>5
  <2> HIDE DEF b, p
  <2>3. (A \o b) \o p = A \o (b \o p)
      BY <1>6, <2>1, ConcatChars, ZenonT(60)
  <2>4. text = Printed(hs) \o p
      BY <2>2, <2>3
  <2> QED  BY <2>4 DEF p
<1>8. NextPos = Len(Printed(hs)) + 1
  <2>1. Len(A \o Line(h)) = Len(A) + Len(Line(h)) /\ Len(A) \in Nat /\ Len(Line(h)) \in Nat
      BY <1>6
  <2>2. (Len(A) + 1) + Len(Line(h)) = (Len(A) + Len(Line(h))) + 1
      BY <2>1
  <2> QED  BY <1>3, <1>5, <2>1, <2>2
<1> QED  BY <1>7, <1>8 DEF hs, g

\* A turn of the scan.
LEMMA ScanLineStep ==
    ASSUME LinesInv, ScanLine
    PROVE  LinesInv'
<1> DEFINE h == [name |-> LineName, value |-> LineValue]
<1>1. /\ phase = "scan" /\ ~ died /\ At(pos) # NUL /\ WellFormed
      /\ headers' = Append(headers, h) /\ pos' = NextPos
      /\ program' = program /\ text' = text /\ phase' = phase /\ died' = died /\ round' = round
    BY DEF ScanLine, Scanning, LineName, LineValue
<1>2. /\ program \in {"hpack", "ng_hpack"} /\ text \in Seq(Char)
      /\ phase \in {"scan", "deflate", "print"} /\ round \in {1, 2} /\ died \in BOOLEAN
      /\ headers \in Seq(Header) /\ Placed /\ Numbered
    BY DEF LinesInv
<1>3. h \in Header /\ IsOn(h, LineAt(pos))
    BY <1>1, <1>2, HeaderIs
<1>4. /\ TextEnd' = TextEnd /\ LineStarts' = LineStarts
      /\ \A i : LineNumber(i)' = LineNumber(i) /\ LineAt(i)' = LineAt(i)
      /\ \A g, l : IsOn(g, l) => IsOn(g, l)'
    BY <1>1, SameText
<1>5. /\ \/ NextPos = Len(text) + 1
         \/ NextPos \in 1 .. TextEnd + 1 /\ (NextPos = 1 \/ text[NextPos - 1] = NL)
      /\ pos \in LineStarts
    BY <1>1, <1>2, NextPosIs, LineIs
<1> HIDE DEF h
<1>6. headers' \in Seq(Header)
    BY <1>1, <1>2, <1>3
<1>7. Placed'
    BY <1>1, <1>4, <1>5 DEF Placed
<1>8. Numbered'
  <2> DEFINE c == Cardinality({i \in LineStarts : i < pos})
  <2>1. /\ c \in Nat /\ LineNumber(pos) = c + 1
        /\ Cardinality({i \in LineStarts : i < NextPos}) = c + 1
      BY <1>1, <1>2, LineCounted
  <2>2. Len(headers) = c
      BY <1>2 DEF Numbered
  <2>3. /\ DOMAIN headers = 1 .. c /\ DOMAIN headers' = 1 .. c + 1
        /\ headers'[c + 1] = h /\ \A k \in 1 .. c : headers'[k] = headers[k]
        /\ Len(headers') = c + 1
    <3> HIDE DEF c
    <3>1. Append(headers, h) \in Seq(Header)
        BY <1>2, <1>3
    <3> QED  BY <1>1, <1>2, <1>3, <2>1, <2>2, <3>1, AppendProperties
  <2>4. Cardinality({i \in LineStarts : i < pos})' = c + 1
      BY <1>1, <1>4, <2>1
  <2> HIDE DEF c
  <2>5. ASSUME NEW k \in DOMAIN headers'
        PROVE  \E i \in LineStarts' : (LineNumber(i) = k /\ IsOn(headers[k], LineAt(i)))'
    <3>1. CASE k = c + 1
        BY <1>3, <1>4, <1>5, <2>1, <2>3, <3>1
    <3>2. CASE k \in 1 .. c
      <4>1. PICK i \in LineStarts : LineNumber(i) = k /\ IsOn(headers[k], LineAt(i))
          BY <1>2, <2>3, <3>2 DEF Numbered
      <4>2. headers'[k] = headers[k]
          BY <2>3, <3>2
      <4> QED  BY <1>4, <4>1, <4>2
    <3> QED  BY <2>1, <2>3, <3>1, <3>2
  <2> QED  BY <1>1, <2>3, <2>4, <2>5 DEF Numbered
<1>9. ReadAgain'
  <2>1. ASSUME round = 2
        PROVE  \E more \in Seq(Header) : text = Printed(headers') \o Printed(more)
                                         /\ NextPos = Len(Printed(headers')) + 1
      BY <1>1, <2>1, ReadsOn DEF h
  <2> QED  BY <1>1, <2>1 DEF ReadAgain
<1> QED  BY <1>1, <1>2, <1>6, <1>7, <1>8, <1>9 DEF LinesInv

\* A step that leaves the text, the headers and the place of the scan.
LEMMA ScanStays ==
    ASSUME LinesInv, text' = text, headers' = headers, pos' = pos,
           phase' # "scan" => TextEnd < pos
    PROVE  /\ text' \in Seq(Char) /\ headers' \in Seq(Header) /\ Placed' /\ Numbered'
           /\ (At(pos) # NUL /\ ~ WellFormed) => (At(pos) # NUL /\ ~ WellFormed)'
<1>1. /\ TextEnd' = TextEnd /\ LineStarts' = LineStarts
      /\ \A i : LineNumber(i)' = LineNumber(i) /\ LineAt(i)' = LineAt(i)
      /\ \A g, l : IsOn(g, l) => IsOn(g, l)'
    BY SameText
<1>2. text \in Seq(Char) /\ headers \in Seq(Header) /\ Placed /\ Numbered
    BY DEF LinesInv
<1>3. Placed'
    BY <1>1, <1>2 DEF Placed
<1>4. Numbered'
    BY <1>1, <1>2 DEF Numbered
<1>5. At(pos)' = At(pos) /\ WellFormed' = WellFormed
  <2>1. At(pos)' = At(pos)
      BY DEF At
  <2>2. End' = End /\ NameEnd' = NameEnd
      BY DEF End, NameEnd, StrChr
  <2>3. ValueStart' = ValueStart
      BY <2>2 DEF ValueStart, At
  <2>4. ValueEnd' = ValueEnd
      BY <2>2 DEF ValueEnd
  <2>5. WellFormed' = WellFormed
      BY <2>2, <2>3, <2>4, Zenon DEF WellFormed
  <2> QED  BY <2>1, <2>5
<1> QED  BY <1>2, <1>3, <1>4, <1>5

\* The scan dies: not in printed text.
LEMMA ScanDiesStep ==
    ASSUME LinesInv, ScanDies
    PROVE  LinesInv'
<1>1. /\ phase = "scan" /\ ~ died /\ At(pos) # NUL /\ ~ WellFormed /\ died' = TRUE
      /\ program' = program /\ text' = text /\ phase' = phase /\ pos' = pos
      /\ headers' = headers /\ round' = round
    BY DEF ScanDies, Scanning
<1>2. round # 2
    BY <1>1, NextPrinted
<1>3. /\ text' \in Seq(Char) /\ headers' \in Seq(Header) /\ Placed' /\ Numbered'
      /\ (At(pos) # NUL /\ ~ WellFormed)'
    BY <1>1, ScanStays
<1>4. ReadAgain'
    BY <1>1, <1>2 DEF ReadAgain
<1> QED  BY <1>1, <1>3, <1>4 DEF LinesInv

\* The scan ends behind the last line.
LEMMA ScanEndsStep ==
    ASSUME LinesInv, ScanEnds
    PROVE  LinesInv'
<1>1. /\ phase = "scan" /\ ~ died /\ At(pos) = NUL /\ phase' \in {"print", "deflate"}
      /\ program' = program /\ text' = text /\ pos' = pos /\ headers' = headers
      /\ died' = died /\ round' = round
    BY DEF ScanEnds
<1>2. /\ Len(text) \in Nat /\ TextEnd \in 0 .. Len(text)
      /\ \A j \in 1 .. TextEnd : text[j] # NUL /\ j \in DOMAIN text
  <2>1. text \in Seq(Char)
      BY DEF LinesInv
  <2>2. /\ Len(text) \in Nat /\ TextEnd \in 0 .. Len(text)
        /\ \A j \in 1 .. TextEnd : text[j] # NUL
      BY <2>1, TextEndIs
  <2> QED  BY <2>1, <2>2
<1>3. TextEnd < pos
  <2>1. pos \notin 1 .. TextEnd
      BY <1>1, <1>2 DEF At
  <2>2. pos = Len(text) + 1 \/ pos \in 1 .. TextEnd + 1
      BY DEF LinesInv, Placed
  <2> QED  BY <1>2, <2>1, <2>2
<1>4. text' \in Seq(Char) /\ headers' \in Seq(Header) /\ Placed' /\ Numbered'
    BY <1>1, <1>3, ScanStays
<1>5. ReadAgain'
  <2>1. ASSUME round = 2  PROVE text = Printed(headers) \o Printed(<< >>)
    <3>1. PICK more \in Seq(Header) : /\ text = Printed(headers) \o Printed(more)
                                      /\ pos = Len(Printed(headers)) + 1
        BY <1>1, <2>1 DEF LinesInv, ReadAgain
    <3>2. ASSUME more # << >>  PROVE FALSE
      <4>1. /\ more[1] \in Header /\ Tail(more) \in Seq(Header)
            /\ Printed(more) = Line(more[1]) \o Printed(Tail(more))
          BY <3>2, PrintedFirst
      <4>2. headers \in Seq(Header) /\ text \in Seq(Char)
          BY DEF LinesInv
      <4>3. Printed(headers) \in Seq(Char) /\ Printed(Tail(more)) \in Seq(Char)
          BY <4>1, <4>2, PrintedType
      <4>4. text = Printed(headers) \o (Line(more[1]) \o Printed(Tail(more)))
          BY <3>1, <4>1
      <4>5. At(pos) # NUL
          BY <3>1, <4>1, <4>2, <4>3, <4>4, PrintedIsRead
      <4> QED  BY <1>1, <4>5
    <3> QED  BY <3>1, <3>2
  <2>2. << >> \in Seq(Header)
      OBVIOUS
  <2> QED  BY <1>1, <2>1, <2>2 DEF ReadAgain
<1> QED  BY <1>1, <1>4, <1>5 DEF LinesInv

\* ng_hpack's copies.
LEMMA DeflateStep ==
    ASSUME LinesInv, Deflate
    PROVE  LinesInv'
<1>1. PICK junk \in Char :
         headers' = [i \in DOMAIN headers |-> [name  |-> Copied(headers[i].name, junk),
                                              value |-> Copied(headers[i].value, junk)]]
    BY DEF Deflate
<1>2. /\ phase = "deflate" /\ ~ died /\ phase' = "print"
      /\ program' = program /\ text' = text /\ pos' = pos /\ died' = died /\ round' = round
    BY DEF Deflate
<1>3. /\ program \in {"hpack", "ng_hpack"} /\ text \in Seq(Char) /\ round \in {1, 2} /\ died \in BOOLEAN
      /\ headers \in Seq(Header) /\ Placed /\ Numbered
    BY DEF LinesInv
<1>4. ASSUME NEW k \in 1 .. Len(headers)
      PROVE  LET g == [name  |-> Copied(headers[k].name, junk), value |-> Copied(headers[k].value, junk)]
             IN  g \in Header /\ g.name = headers[k].name /\ CString(g.value) = CString(headers[k].value)
  <2> DEFINE h == headers[k]
             g == [name |-> Copied(h.name, junk), value |-> Copied(h.value, junk)]
  <2>1. h \in Header
      BY <1>3
  <2> HIDE DEF h
  <2>2. /\ h.name \in Seq(Clean) /\ h.name # << >> /\ h.value \in Seq(Char)
        /\ \A j \in 2 .. Len(h.name) : h.name[j] # COLON
        /\ CString(h.value) \in Seq(Clean)
        /\ CString(h.value) # << >> => CString(h.value)[1] # SPACE
      BY <2>1, HeaderFacts
  <2>3. Copied(h.name, junk) = h.name
      BY <2>2, CopiedClean
  <2>4. Copied(h.value, junk) \in Seq(Char) /\ CString(Copied(h.value, junk)) = CString(h.value)
      BY <2>2, CopiedIs
  <2>5. g \in Header
      BY <2>2, <2>3, <2>4 DEF Header
  <2> QED  BY <2>3, <2>4, <2>5 DEF h
<1>5. /\ headers' \in Seq(Header) /\ Len(headers') = Len(headers)
      /\ DOMAIN headers' = DOMAIN headers /\ DOMAIN headers = 1 .. Len(headers)
      /\ \A k \in 1 .. Len(headers) :
            headers'[k].name = headers[k].name /\ CString(headers'[k].value) = CString(headers[k].value)
  <2>1. DOMAIN headers = 1 .. Len(headers) /\ Len(headers) \in Nat
      BY <1>3
  <2> DEFINE G(k) == [name |-> Copied(headers[k].name, junk), value |-> Copied(headers[k].value, junk)]
  <2>2. headers' = [k \in 1 .. Len(headers) |-> G(k)]
      BY <1>1, <2>1
  <2>3. \A k \in 1 .. Len(headers) :
           G(k) \in Header /\ G(k).name = headers[k].name /\ CString(G(k).value) = CString(headers[k].value)
      BY <1>4
  <2> HIDE DEF G
  <2>4. headers' \in Seq(Header)
      BY <2>1, <2>2, <2>3, IsASeq
  <2> QED  BY <2>1, <2>2, <2>3, <2>4
<1>6. /\ TextEnd' = TextEnd /\ LineStarts' = LineStarts
      /\ \A i : LineNumber(i)' = LineNumber(i) /\ LineAt(i)' = LineAt(i)
      /\ \A g, l : IsOn(g, l) => IsOn(g, l)'
    BY <1>2, SameText
<1>7. Placed'
    BY <1>2, <1>3, <1>6 DEF Placed
<1>8. Numbered'
  <2>1. ASSUME NEW k \in DOMAIN headers'
        PROVE  \E i \in LineStarts' : (LineNumber(i) = k /\ IsOn(headers[k], LineAt(i)))'
    <3>1. PICK i \in LineStarts : LineNumber(i) = k /\ IsOn(headers[k], LineAt(i))
        BY <1>3, <1>5 DEF Numbered
    <3>2. IsOn(headers'[k], LineAt(i))
        BY <1>5, <3>1 DEF IsOn
    <3> QED  BY <1>6, <3>1, <3>2
  <2>2. Len(headers) = Cardinality({i \in LineStarts : i < pos}) /\ TextEnd < pos
      BY <1>2, <1>3 DEF Numbered
  <2> QED  BY <1>2, <1>5, <1>6, <2>1, <2>2 DEF Numbered
<1>9. ReadAgain'
  <2>1. Printed(headers') = Printed(headers)
    <3>1. \A k \in 1 .. Len(headers) :
             CString(headers'[k].name) = CString(headers[k].name)
             /\ CString(headers'[k].value) = CString(headers[k].value)
        BY <1>5
    <3> QED  BY <1>3, <1>5, <3>1, PrintedAlike
  <2>2. ASSUME round = 2
        PROVE  \E more \in Seq(Header) : text = Printed(headers) \o Printed(more) /\ more = << >>
      BY <1>2, <2>2 DEF LinesInv, ReadAgain
  <2> QED  BY <1>2, <2>1, <2>2 DEF ReadAgain
<1> QED  BY <1>2, <1>3, <1>5, <1>7, <1>8, <1>9 DEF LinesInv

\* ng_hpack dies in its copies.
LEMMA DeflateDiesStep ==
    ASSUME LinesInv, DeflateDies
    PROVE  LinesInv'
<1>1. /\ phase = "deflate" /\ died' = TRUE
      /\ program' = program /\ text' = text /\ phase' = phase /\ pos' = pos
      /\ headers' = headers /\ round' = round
    BY DEF DeflateDies
<1>2. TextEnd < pos
    BY <1>1 DEF LinesInv, Numbered
<1>3. text' \in Seq(Char) /\ headers' \in Seq(Header) /\ Placed' /\ Numbered'
    BY <1>1, <1>2, ScanStays
<1>4. ReadAgain'
    BY <1>1 DEF LinesInv, ReadAgain
<1> QED  BY <1>1, <1>3, <1>4 DEF LinesInv

\* hunpack prints, and the text is what it printed.
LEMMA HunpackPrintsStep ==
    ASSUME LinesInv, HunpackPrints
    PROVE  LinesInv'
<1>1. /\ phase = "print" /\ text' = Printed(headers)
      /\ pos' = 1 /\ headers' = << >> /\ phase' = "scan" /\ round' = 2
      /\ program' = program /\ died' = died
    BY DEF HunpackPrints
<1>2. program \in {"hpack", "ng_hpack"} /\ headers \in Seq(Header) /\ died = FALSE
    BY <1>1 DEF LinesInv
<1>3. text' \in Seq(Char)
    BY <1>1, <1>2, PrintedType
<1>4. TextEnd' \in Nat /\ DOMAIN CString(text') = 1 .. TextEnd'
  <2>1. Len(CString(text')) \in 0 .. Len(text') /\ CString(text') \in Seq(Char)
      BY <1>3, CStringIs
  <2> QED  BY <2>1 DEF TextEnd
<1>5. Placed'
  <2>1. \A n \in Nat : 1 \in 1 .. n + 1
      OBVIOUS
  <2>2. pos' \in 1 .. TextEnd' + 1 /\ pos' = 1
      BY <1>1, <1>4, <2>1, Zenon
  <2> QED  BY <2>2, Zenon DEF Placed
<1>6. Numbered'
  <2>1. {i \in LineStarts : i < pos}' = {}
      BY <1>1, <1>4 DEF LineStarts
  <2>2. Cardinality({i \in LineStarts : i < pos})' = 0
      BY <2>1, FS_EmptySet
  <2>3. Len(headers') = 0 /\ DOMAIN headers' = {}
      BY <1>1
  <2> QED  BY <1>1, <2>2, <2>3 DEF Numbered
<1>7. ReadAgain'
  <2>1. Printed(headers') = << >> /\ << >> \in Seq(Header)
    <3>1. << >> \in Seq(Header)
        OBVIOUS
    <3> QED  BY <1>1, <3>1, PrintedType
  <2>2. text' = Printed(headers') \o Printed(headers)
      BY <1>1, <1>3, <2>1, ConcatEmptySeq
  <2>3. pos' = Len(Printed(headers')) + 1
      BY <1>1, <2>1
  <2> QED  BY <1>1, <1>2, <2>2, <2>3 DEF ReadAgain
<1>8. headers' \in Seq(Header)
    BY <1>1
<1> QED  BY <1>1, <1>2, <1>3, <1>5, <1>6, <1>7, <1>8 DEF LinesInv

\* LinesInv is inductive.
LEMMA LinesInvStep == LinesInv /\ [LinesNext]_linesVars => LinesInv'
<1> SUFFICES ASSUME LinesInv, [LinesNext]_linesVars  PROVE LinesInv'
    OBVIOUS
<1>1. CASE ScanLine
    BY <1>1, ScanLineStep
<1>2. CASE ScanDies
    BY <1>2, ScanDiesStep
<1>3. CASE ScanEnds
    BY <1>3, ScanEndsStep
<1>4. CASE Deflate
    BY <1>4, DeflateStep
<1>5. CASE DeflateDies
    BY <1>5, DeflateDiesStep
<1>6. CASE HunpackPrints
    BY <1>6, HunpackPrintsStep
<1>7. CASE UNCHANGED linesVars
  <2>1. /\ program' = program /\ text' = text /\ pos' = pos /\ headers' = headers
        /\ phase' = phase /\ died' = died /\ round' = round
      BY <1>7 DEF linesVars
  <2>2. phase' # "scan" => TextEnd < pos
      BY <2>1 DEF LinesInv, Numbered
  <2>3. /\ text' \in Seq(Char) /\ headers' \in Seq(Header) /\ Placed' /\ Numbered'
        /\ (At(pos) # NUL /\ ~ WellFormed) => (At(pos) # NUL /\ ~ WellFormed)'
      BY <2>1, <2>2, ScanStays
  <2>4. ReadAgain'
      BY <2>1 DEF LinesInv, ReadAgain
  <2> QED  BY <2>1, <2>3, <2>4 DEF LinesInv
<1> QED  BY <1>1, <1>2, <1>3, <1>4, <1>5, <1>6, <1>7 DEF LinesNext, LinesStep, LinesEnded

\* The invariant of the scan, of ng_hpack's copies and of the printed text that
\* is scanned again (hpack.cc:96-112, ng_hpack.cc:19-55, hunpack.cc:10-18).
THEOREM LinesInvariant == LinesSpec => []LinesInv
<1>1. LinesInit => LinesInv
    BY LinesInvInit
<1>2. LinesInv /\ [LinesNext]_linesVars => LinesInv'
    BY LinesInvStep
<1> QED  BY <1>1, <1>2, PTL DEF LinesSpec

\* LinesInv gives the types.
LEMMA LinesTyped == LinesInv => LinesTypeOK
<1> SUFFICES ASSUME LinesInv  PROVE LinesTypeOK
    OBVIOUS
<1>1. /\ text \in Seq(Char) /\ headers \in Seq(Header)
      /\ phase \in {"scan", "deflate", "print"} /\ round \in {1, 2} /\ died \in BOOLEAN
    BY DEF LinesInv
<1>2. pos \in 1 .. Len(text) + 1
  <2>1. Len(text) \in Nat /\ TextEnd \in 0 .. Len(text)
      BY <1>1, TextEndIs
  <2> QED  BY <2>1 DEF LinesInv, Placed
<1>3. ASSUME NEW i \in DOMAIN headers
      PROVE  /\ headers[i].name \in Seq(Char \ {NUL, NL}) \ {<< >>}
             /\ COLON \notin Range(Tail(headers[i].name))
             /\ headers[i].value \in Seq(Char)
  <2> DEFINE a == headers[i].name
  <2>1. headers[i] \in Header
      BY <1>1
  <2>2. /\ a \in Seq(Clean) /\ a # << >> /\ headers[i].value \in Seq(Char)
        /\ \A j \in 2 .. Len(a) : a[j] # COLON
      BY <2>1, HeaderFacts
  <2> HIDE DEF a
  <2>3. /\ Len(a) \in Nat /\ Len(a) >= 1
        /\ Tail(a) \in Seq(Clean) /\ Len(Tail(a)) = Len(a) - 1
        /\ \A k \in 1 .. Len(a) - 1 : Tail(a)[k] = a[k + 1]
    <3>1. Len(a) \in Nat /\ Len(a) >= 1
        BY <2>2, EmptySeq
    <3> QED  BY <2>2, <3>1, HeadTailProperties
  <2>4. \A k \in DOMAIN Tail(a) : Tail(a)[k] # COLON
    <3>1. \A k \in DOMAIN Tail(a) : k \in 1 .. Len(a) - 1 /\ k + 1 \in 2 .. Len(a)
        BY <2>3
    <3> QED  BY <2>2, <2>3, <3>1
  <2>5. COLON \notin Range(Tail(a))
      BY <2>4 DEF Range
  <2> QED  BY <2>2, <2>5 DEF Clean, a
<1> QED  BY <1>1, <1>2, <1>3 DEF LinesTypeOK

\* Types: the scan stays in the text, and a header has a name, without a ':'
\* after its first character, a newline or a NUL (hpack.cc:98-112).
THEOREM LinesTypeCorrect == LinesSpec => []LinesTypeOK
BY LinesInvariant, LinesTyped, PTL

\* LinesInv says what the headers are.
LEMMA HeadersFromLines == LinesInv => HeadersAreLines
<1> SUFFICES ASSUME LinesInv  PROVE HeadersAreLines
    OBVIOUS
<1>1. text \in Seq(Char) /\ Numbered
    BY DEF LinesInv
<1>2. phase # "scan" => {i \in LineStarts : i < pos} = LineStarts
  <2>1. Len(text) \in Nat /\ TextEnd \in 0 .. Len(text) /\ DOMAIN CString(text) = 1 .. TextEnd
      BY <1>1, TextEndIs
  <2>2. pos \in Int
      BY <2>1 DEF LinesInv, Placed
  <2>3. ASSUME TextEnd < pos, NEW i \in LineStarts  PROVE i < pos
      BY <2>1, <2>2, <2>3 DEF LineStarts
  <2> QED  BY <1>1, <2>3 DEF Numbered
<1>3. phase # "scan" => Len(headers) = Cardinality(LineStarts)
    BY <1>1, <1>2 DEF Numbered
<1>4. ASSUME NEW k \in DOMAIN headers
      PROVE  \E i \in LineStarts :
                /\ LineNumber(i) = k
                /\ \E n \in 0 .. Len(text) :
                      headers[k].name \o << COLON >> \o [j \in 1 .. n |-> SPACE]
                          \o CString(headers[k].value) = LineAt(i)
    BY <1>1 DEF Numbered, IsOn
<1> QED  BY <1>3, <1>4, Zenon DEF HeadersAreLines

\* The headers are the lines of the text, in order and none left out, whatever
\* characters stand where (hpack.cc:98-108, ng_hpack.cc:19-36).
THEOREM LinesBecomeHeaders == LinesSpec => []HeadersAreLines
BY LinesInvariant, HeadersFromLines, PTL

\* LinesInv says where the scan dies.
LEMMA DeathsExplained == LinesInv => DiesOnBadLine
<1> SUFFICES ASSUME LinesInv, died, phase = "scan"
             PROVE  COLON \notin Range(SubSeq(LineAt(pos), 2, Len(LineAt(pos))))
    BY DEF DiesOnBadLine
<1>1. text \in Seq(Char) /\ Placed /\ At(pos) # NUL /\ ~ WellFormed
    BY DEF LinesInv
<1> QED  BY <1>1, BadLineIs

\* The scan dies at no line that has a ':' after its first character, whatever
\* else is on it (hpack.cc:103, 107, 108).
THEOREM OnlyBadLinesKill == LinesSpec => []DiesOnBadLine
BY LinesInvariant, DeathsExplained, PTL

\* LinesInv says what is printed again.
LEMMA PrintsTheSame == LinesInv => PrintedIsFixed
<1> SUFFICES ASSUME LinesInv, round = 2
             PROVE  /\ IsPrefix(Printed(headers), text)
                    /\ phase # "scan" => Printed(headers) = text
                    /\ died => phase = "deflate"
    BY DEF PrintedIsFixed
<1> DEFINE A == Printed(headers)
<1>1. headers \in Seq(Header)
    BY DEF LinesInv
<1>2. PICK more \in Seq(Header) : text = A \o Printed(more) /\ (phase # "scan" => more = << >>)
    BY DEF LinesInv, ReadAgain
<1>3. A \in Seq(Char) /\ Printed(more) \in Seq(Char) /\ (more = << >> => Printed(more) = << >>)
    BY <1>1, PrintedType
<1> HIDE DEF A
<1>4. IsPrefix(A, text)
  <2>1. /\ text \in Seq(Char) /\ Len(text) = Len(A) + Len(Printed(more))
        /\ \A k \in 1 .. Len(A) : text[k] = A[k]
    <3>1. A \in Seq(Char) /\ Printed(more) \in Seq(Char)
        BY <1>3
    <3> QED  BY <1>2, <3>1, BothParts
  <2>2. Len(A) \in Nat /\ Len(Printed(more)) \in Nat /\ Len(A) \in 0 .. Len(A) /\ Len(A) \in 0 .. Len(text)
      BY <1>3, <2>1
  <2> DEFINE u == SubSeq(A, 1, Len(A))
             v == SubSeq(text, 1, Len(A))
  <2>3. u \in Seq(Char) /\ Len(u) = Len(A) /\ \A k \in 1 .. Len(A) : u[k] = A[k]
      BY <1>3, <2>2, BeginningIs
  <2>4. v \in Seq(Char) /\ Len(v) = Len(A) /\ \A k \in 1 .. Len(A) : v[k] = text[k]
      BY <2>1, <2>2, BeginningIs
  <2> HIDE DEF u, v
  <2>5. u = v
      BY <2>1, <2>3, <2>4, SeqEqual
  <2>6. Len(A) <= Len(text)
      BY <2>1, <2>2
  <2> QED  BY <2>5, <2>6 DEF IsPrefix, u, v
<1>5. phase # "scan" => A = text
    BY <1>2, <1>3, ConcatEmptySeq
<1>6. died => phase = "deflate"
    BY DEF LinesInv, ReadAgain
<1> QED  BY <1>4, <1>5, <1>6 DEF A

\* What hunpack prints is scanned without failure and printed as it was: one
\* round makes a text that the programs keep (hunpack.cc:10-18, hpack.cc:96-112,
\* run_tests.py:100).
THEOREM PrintedTextIsFixed == LinesSpec => []PrintedIsFixed
BY LinesInvariant, PrintsTheSame, PTL

=============================================================================
