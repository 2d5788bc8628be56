--------------------------- MODULE WireSession_proofs ---------------------------
(***************************************************************************)
(* Theorems about a session down to the octets.  A turn of the decoder on  *)
(* the octets of an instruction does what the instruction says and leaves  *)
(* what follows (Wire_proofs); so WireSession implements Session, and what *)
(* is proved of instructions in Session_proofs holds of octets.  Where the *)
(* input is cut short, the instruction that is cut is the only one that    *)
(* can go wrong.                                                           *)
(***************************************************************************)
EXTENDS WireSession, Wire_proofs

-----------------------------------------------------------------------------
(* What is left of what is written.                                        *)

\* What is left after k instructions is the next one and what is left after it.
LEMMA LeftStep ==
    ASSUME pieces \in Seq(Seq(Octet)), NEW k \in 0 .. Len(pieces) - 1
    PROVE  /\ pieces[k + 1] \in Seq(Octet)
           /\ FlattenSeq(LeftFrom(k + 1)) \in Seq(Octet)
           /\ FlattenSeq(LeftFrom(k)) = pieces[k + 1] \o FlattenSeq(LeftFrom(k + 1))
<1> DEFINE n == Len(pieces)
<1>1. n \in Nat /\ k + 1 \in 1 .. n /\ n \in k + 1 .. n /\ k + 1 + 1 = (k + 1) + 1
    OBVIOUS
<1>2. pieces[k + 1] \in Seq(Octet)
    BY <1>1
<1>3. LeftFrom(k + 1) \in Seq(Seq(Octet))
    BY <1>1 DEF LeftFrom
<1>4. LeftFrom(k) = << pieces[k + 1] >> \o LeftFrom(k + 1)
    BY <1>1, SubSeqRecursiveFirst DEF LeftFrom
<1> QED  BY <1>2, <1>3, <1>4, FlattenFirst, FlattenType

\* At first everything is left, and in the end nothing is.
LEMMA LeftEnds ==
    ASSUME pieces \in Seq(Seq(Octet))
    PROVE  /\ FlattenSeq(LeftFrom(0)) = FlattenSeq(pieces)
           /\ FlattenSeq(LeftFrom(Len(pieces))) = << >>
           /\ FlattenSeq(pieces) \in Seq(Octet)
<1>1. LeftFrom(0) = pieces
  <2>1. 0 + 1 = 1
      OBVIOUS
  <2> QED  BY <2>1, SubSeqFull DEF LeftFrom
<1>2. LeftFrom(Len(pieces)) = << >>
    BY SubSeqEmpty, LenProperties DEF LeftFrom
<1>3. << >> \in Seq(Seq(Octet))
    OBVIOUS
<1> QED  BY <1>1, <1>2, <1>3, FlattenType

\* No instruction takes no octets, so what is left tells how many are done.
LEMMA LeftShrinks ==
    ASSUME pieces \in Seq(Seq(Octet)), \A k \in 1 .. Len(pieces) : pieces[k] # << >>,
           NEW i \in 0 .. Len(pieces), NEW j \in 0 .. Len(pieces), i < j
    PROVE  FlattenSeq(LeftFrom(i)) # FlattenSeq(LeftFrom(j))
<1> DEFINE F(k) == FlattenSeq(LeftFrom(k))
           d == j - i - 1
           T == {k \in 0 .. d : /\ F(i + 1 + k) \in Seq(Octet)
                                /\ Len(F(i)) > Len(F(i + 1 + k))}
<1>1. Len(pieces) \in Nat /\ d \in Nat
    OBVIOUS
<1>2. ASSUME NEW k \in 0 .. Len(pieces) - 1
      PROVE  F(k) \in Seq(Octet) /\ F(k + 1) \in Seq(Octet) /\ Len(F(k)) > Len(F(k + 1))
  <2> DEFINE p == pieces[k + 1]
             a == FlattenSeq(LeftFrom(k))
             b == FlattenSeq(LeftFrom(k + 1))
  <2>1. p \in Seq(Octet) /\ b \in Seq(Octet) /\ a = p \o b
      BY LeftStep
  <2>2. p # << >>
    <3>1. k + 1 \in 1 .. Len(pieces)
        BY <1>1
    <3> QED  BY <3>1
  <2>3. F(k) = a /\ F(k + 1) = b
      OBVIOUS
  <2> HIDE DEF F, a, b, p
  <2>4. Len(p) \in Nat \ {0}
      BY <2>1, <2>2, EmptySeq
  <2>5. Len(b) \in Nat /\ Len(a) = Len(p) + Len(b) /\ a \in Seq(Octet)
      BY <2>1
  <2>6. Len(a) > Len(b)
      BY <2>4, <2>5
  <2> QED  BY <2>1, <2>3, <2>5, <2>6
<1> HIDE DEF F
<1>3. 0 \in T
  <2>1. i \in 0 .. Len(pieces) - 1 /\ i + 1 + 0 = i + 1
      BY <1>1
  <2> QED  BY <1>1, <1>2, <2>1
<1>4. ASSUME NEW k \in 0 .. d - 1, k \in T  PROVE k + 1 \in T
  <2> DEFINE m == i + 1 + k
  <2>1. m \in 0 .. Len(pieces) - 1 /\ i + 1 + (k + 1) = m + 1 /\ k + 1 \in 0 .. d
        /\ i \in 0 .. Len(pieces) - 1
      BY <1>1
  <2>2. F(m) \in Seq(Octet) /\ F(m + 1) \in Seq(Octet) /\ Len(F(m)) > Len(F(m + 1))
      BY <1>2, <2>1
  <2>3. Len(F(i)) > Len(F(m)) /\ F(i) \in Seq(Octet)
      BY <1>2, <1>4, <2>1
  <2> HIDE DEF m
  <2>4. Len(F(i)) > Len(F(m + 1))
    <3>1. Len(F(i)) \in Nat /\ Len(F(m)) \in Nat /\ Len(F(m + 1)) \in Nat
        BY <2>2, <2>3
    <3> QED  BY <2>2, <2>3, <3>1
  <2> QED  BY <2>1, <2>2, <2>4
<1>5. 0 .. d \subseteq T
  <2> HIDE DEF T, d
  <2> QED  BY <1>1, <1>3, <1>4, Induction
<1>6. i + 1 + d = j /\ d \in 0 .. d
    BY <1>1
<1>7. Len(F(i)) > Len(F(j)) /\ F(j) \in Seq(Octet)
  <2>1. d \in T
      BY <1>5, <1>6
  <2> HIDE DEF d
  <2> QED  BY <1>6, <2>1
<1>8. F(i) # F(j)
  <2>1. Len(F(j)) \in Nat
      BY <1>7
  <2> QED  BY <1>7, <2>1
<1> QED  BY <1>8 DEF F

-----------------------------------------------------------------------------
(* What the encoder has written.                                           *)

\* The encoder keeps its table within its limit; what it writes fits the
\* integers of the wire, and its octets are an instruction each.
WrittenInv ==
    /\ sent \in Seq(Header)
    /\ out \in Seq(Instruction)
    /\ hist \in Seq([table : Seq(Entry), count : Nat])
    /\ stdTable \in Seq(Entry)
    /\ stdMax \in 0 .. SizeLimit
    /\ Bytes(stdTable) <= stdMax
    /\ Len(pieces) = Len(out)
    /\ \A k \in 1 .. Len(out) : Wireable(out[k]) /\ Spelled(out[k], pieces[k])

-----------------------------------------------------------------------------
(* Where the decoder stands.                                               *)

\* The octets that are left after k instructions.
LeftOctets(k) == FlattenSeq(LeftFrom(k))

\* WireTypeOK, but for what is known of the texts.
WireTypes ==
    /\ pieces \in Seq(Seq(Octet)) /\ Len(pieces) = Len(out)
    /\ buffer \in Seq(Octet)
    /\ decTable \in Table
    /\ maxDynamicSize \in UInt
    /\ decoded \in Seq(Entry)
    /\ aborted \in BOOLEAN /\ fed \in BOOLEAN /\ cut \in BOOLEAN

\* In front of instruction k + 1, with m of the octets that are left.
Stands(k, m) ==
    /\ k \in 0 .. Len(out)
    /\ m \in 0 .. Len(LeftOctets(k))
    /\ buffer = SubSeq(LeftOctets(k), 1, m)

\* All of the octets are there unless the input was cut, and then an assertion
\* fails only at a string that decode_huffman may not understand.
ReadInv ==
    /\ fed => \E k, m : /\ Stands(k, m)
                        /\ ~ cut => /\ m = Len(LeftOctets(k))
                                    /\ aborted => k < Len(out) /\ OverrunIn(k + 1)
    /\ ~ fed => /\ ~ cut /\ ~ aborted
                /\ buffer = << >> /\ decTable = EmptyTable
                /\ maxDynamicSize = SizeLimit /\ decoded = << >>

\* The invariant of the octets.
StepInv == WireTypes /\ WrittenInv /\ ReadInv

\* Octets are left as long as instructions are, and they are octets.
LEMMA LeftType ==
    ASSUME StepInv
    PROVE  /\ \A k \in 0 .. Len(out) : LeftOctets(k) \in Seq(Octet)
           /\ LeftOctets(0) = FlattenSeq(pieces) /\ LeftOctets(Len(out)) = << >>
           /\ \A k \in 0 .. Len(out) - 1 :
                 /\ pieces[k + 1] \in Seq(Octet)
                 /\ LeftOctets(k) = pieces[k + 1] \o LeftOctets(k + 1)
<1>1. pieces \in Seq(Seq(Octet)) /\ Len(pieces) = Len(out) /\ Len(out) \in Nat
    BY DEF StepInv, WireTypes, WrittenInv
<1>2. /\ LeftOctets(0) = FlattenSeq(pieces) /\ LeftOctets(Len(out)) = << >>
      /\ LeftOctets(Len(out)) \in Seq(Octet)
    BY <1>1, LeftEnds DEF LeftOctets
<1>3. ASSUME NEW k \in 0 .. Len(out) - 1
      PROVE  /\ LeftOctets(k) \in Seq(Octet)
             /\ pieces[k + 1] \in Seq(Octet)
             /\ LeftOctets(k) = pieces[k + 1] \o LeftOctets(k + 1)
  <2>1. /\ pieces[k + 1] \in Seq(Octet)
        /\ LeftOctets(k + 1) \in Seq(Octet)
        /\ LeftOctets(k) = pieces[k + 1] \o LeftOctets(k + 1)
      BY <1>1, LeftStep DEF LeftOctets
  <2> QED  BY <2>1
<1>4. ASSUME NEW k \in 0 .. Len(out)  PROVE LeftOctets(k) \in Seq(Octet)
  <2>1. k = Len(out) \/ k \in 0 .. Len(out) - 1
      BY <1>1
  <2> QED  BY <1>2, <1>3, <2>1
<1> QED  BY <1>2, <1>3, <1>4

\* A turn with all the octets of the next instruction carries it out and
\* stands in front of the one after it, or does not understand a string of it.
\* With only some, it spoils it.
LEMMA TurnStands ==
    ASSUME StepInv, Turn, NEW k, NEW m, Stands(k, m)
    PROVE  /\ k \in 0 .. Len(out) - 1
           /\ Wireable(out[k + 1])
           /\ \/ /\ m - Len(pieces[k + 1]) \in 0 .. Len(LeftOctets(k + 1))
                 /\ m = Len(LeftOctets(k))
                       => m - Len(pieces[k + 1]) = Len(LeftOctets(k + 1))
                 /\ CarriesOut(out[k + 1])
                 /\ buffer' = SubSeq(LeftOctets(k + 1), 1, m - Len(pieces[k + 1]))
                 /\ aborted' = aborted
              \/ OverrunIn(k + 1) /\ aborted' = TRUE /\ UNCHANGED unpackVars
              \/ /\ m # Len(LeftOctets(k))
                 /\ Spoils(out[k + 1])
<1>1. buffer # << >>
    BY DEF Turn, TurnIndexed, TurnResize, TurnNamed, TurnLiteral, TurnAborts, Running
<1>2. k \in 0 .. Len(out) /\ m \in 0 .. Len(LeftOctets(k)) /\ buffer = SubSeq(LeftOctets(k), 1, m)
    BY DEF Stands
<1>3. Len(out) \in Nat /\ decTable \in Table
    BY DEF StepInv, WireTypes, WrittenInv
<1>4. k # Len(out) /\ m # 0
  <2>1. LeftOctets(Len(out)) = << >>
      BY LeftType
  <2>2. SubSeq(LeftOctets(k), 1, 0) = << >>
      BY SubSeqEmpty
  <2>3. m # 0
      BY <1>1, <1>2, <2>2
  <2>4. Len(<< >>) = 0
      OBVIOUS
  <2> QED  BY <1>2, <2>1, <2>3, <2>4
<1>5. k \in 0 .. Len(out) - 1 /\ k + 1 \in 1 .. Len(out) /\ k + 1 \in 0 .. Len(out)
    BY <1>2, <1>3, <1>4
<1> DEFINE instr == out[k + 1]
           piece == pieces[k + 1]
           rest == LeftOctets(k + 1)
<1>6. Wireable(instr) /\ Spelled(instr, piece)
    BY <1>5 DEF StepInv, WrittenInv
<1>7. piece \in Seq(Octet) /\ rest \in Seq(Octet) /\ LeftOctets(k) = piece \o rest
    BY <1>5, LeftType
<1>8. /\ Len(piece) \in Nat /\ Len(rest) \in Nat /\ m \in Nat
      /\ Len(LeftOctets(k)) = Len(piece) + Len(rest)
      /\ m \in 0 .. Len(piece) + Len(rest)
      /\ buffer = SubSeq(piece \o rest, 1, m)
  <2> HIDE DEF piece, rest
  <2> QED  BY <1>2, <1>7
<1>9. \/ /\ m - Len(piece) \in 0 .. Len(rest)
         /\ CarriesOut(instr)
         /\ buffer' = SubSeq(rest, 1, m - Len(piece))
         /\ aborted' = aborted
      \/ OverrunIn(k + 1) /\ aborted' = TRUE /\ UNCHANGED unpackVars
      \/ m < Len(piece) /\ Spoils(instr)
  <2>1. PICK s \in Spelling : piece = InstructionOctets(instr, s)
      BY <1>6 DEF Spelled
  <2>2. Overran(instr, s) => OverrunIn(k + 1) /\ aborted' = TRUE /\ UNCHANGED unpackVars
      BY <2>1 DEF Overran, OverrunIn
  <2> HIDE DEF instr, piece, rest
  <2> QED  BY <1>6, <1>7, <1>8, <2>1, <2>2, TurnOnBeginning
<1> HIDE DEF instr, piece, rest
<1>10. /\ m = Len(LeftOctets(k)) => m - Len(piece) = Len(rest)
       /\ m < Len(piece) => m # Len(LeftOctets(k))
    BY <1>8
<1> QED  BY <1>5, <1>6, <1>9, <1>10 DEF instr, piece, rest

-----------------------------------------------------------------------------
(* The invariant of the octets.                                            *)

\* Nothing is written and nothing is read.
LEMMA StepInvInit == WireSessionInit => StepInv
<1> SUFFICES ASSUME WireSessionInit  PROVE StepInv
    OBVIOUS
<1>1. /\ sent = << >> /\ out = << >> /\ stdTable = << >> /\ stdMax = SizeLimit
      /\ buffer = << >> /\ decTable = EmptyTable /\ maxDynamicSize = SizeLimit
      /\ decoded = << >> /\ pieces = << >> /\ hist = << Moment(<< >>, << >>) >>
    BY DEF WireSessionInit, StdInit, WireInit, UnpackInit
<1>2. aborted = FALSE /\ fed = FALSE /\ cut = FALSE
    BY Zenon DEF WireSessionInit, WireInit
<1>3. SizeLimit \in Nat /\ SizeLimit \in 0 .. UIntRange - 1 /\ UInt = 0 .. UIntRange - 1
    BY HeaderAssumption, TableAssumption, WireAssumption DEF UInt
<1>4. EmptyTable \in Table
    BY DEF EmptyTable, Table
<1>5. << Moment(<< >>, << >>) >> \in Seq([table : Seq(Entry), count : Nat])
  <2>1. Moment(<< >>, << >>) \in [table : Seq(Entry), count : Nat]
      BY DEF Moment
  <2> QED  BY <2>1
<1>6. Bytes(<< >>) = 0
  <2>1. << >> \in Seq(Entry) /\ Len(<< >>) = 0
      OBVIOUS
  <2> QED  BY <2>1, LedgerType DEF Bytes
<1>7. WireTypes
  <2>1. aborted \in BOOLEAN /\ fed \in BOOLEAN /\ cut \in BOOLEAN
      BY <1>2, Zenon
  <2>2. /\ pieces \in Seq(Seq(Octet)) /\ Len(pieces) = Len(out) /\ buffer \in Seq(Octet)
        /\ decoded \in Seq(Entry)
      BY <1>1
  <2> QED  BY <1>1, <1>3, <1>4, <2>1, <2>2 DEF WireTypes
<1>8. WrittenInv
    BY <1>1, <1>3, <1>5, <1>6 DEF WrittenInv
<1>9. ReadInv
    BY <1>1, <1>2 DEF ReadInv
<1> QED  BY <1>7, <1>8, <1>9 DEF StepInv

\* The encoder adds an instruction and its octets.
LEMMA StepInvWrites ==
    ASSUME StepInv, EncoderWrites
    PROVE  StepInv'
<1>1. PICK instr : Wrote(instr)
    BY IndexAssumption, EncoderWrote DEF StepInv, WrittenInv, EncoderWrites
<1>2. /\ sent \in Seq(Header) /\ out \in Seq(Instruction)
      /\ pieces \in Seq(Seq(Octet)) /\ Len(pieces) = Len(out)
      /\ hist \in Seq([table : Seq(Entry), count : Nat])
    BY DEF StepInv, WireTypes, WrittenInv
<1>3. Wireable(instr) /\ instr \in Instruction /\ out' = Append(out, instr)
    BY <1>1 DEF Wrote, Wireable
<1>4. Last(out') = instr
    BY <1>2, <1>3 DEF Last
<1>5. PICK s \in Spelling : pieces' = Append(pieces, InstructionOctets(instr, s))
    BY <1>4, WaysAssumption DEF EncoderWrites
<1> DEFINE piece == InstructionOctets(instr, s)
           n == Len(out)
<1>6. piece \in Seq(Octet) /\ Spelled(instr, piece)
  <2>1. piece = IntOctets(FormOf(instr, s.unpushed), ValueOf(instr)) \o StringsOf(instr, s)
        /\ IntOctets(FormOf(instr, s.unpushed), ValueOf(instr)) \in Seq(Octet)
        /\ StringsOf(instr, s) \in Seq(Octet)
      BY <1>3, PieceIs
  <2>2. \A x, y \in Seq(Octet) : x \o y \in Seq(Octet)
      OBVIOUS
  <2>3. piece \in Seq(Octet)
      BY <2>1, <2>2
  <2> QED  BY <2>3 DEF Spelled
<1> HIDE DEF piece
<1>7. /\ n \in Nat /\ Len(out') = n + 1 /\ out' \in Seq(Instruction)
      /\ out'[n + 1] = instr /\ \A k \in 1 .. n : out'[k] = out[k]
      /\ pieces' \in Seq(Seq(Octet)) /\ Len(pieces') = n + 1
      /\ pieces'[n + 1] = piece /\ \A k \in 1 .. n : pieces'[k] = pieces[k]
  <2>1. n \in Nat /\ Len(out') = n + 1 /\ out' \in Seq(Instruction)
        /\ out'[n + 1] = instr /\ \A k \in 1 .. n : out'[k] = out[k]
      BY <1>2, <1>3
  <2>2. pieces' = Append(pieces, piece)
      BY <1>5 DEF piece
  <2>3. /\ pieces' \in Seq(Seq(Octet)) /\ Len(pieces') = Len(pieces) + 1
        /\ pieces'[Len(pieces) + 1] = piece
        /\ \A k \in 1 .. Len(pieces) : pieces'[k] = pieces[k]
      BY <1>2, <1>6, <2>2
  <2> QED  BY <1>2, <2>1, <2>3
<1>8. hist' \in Seq([table : Seq(Entry), count : Nat])
  <2>1. hist' = Append(hist, Moment(stdTable', sent'))
      BY DEF EncoderWrites
  <2>2. Moment(stdTable', sent') \in [table : Seq(Entry), count : Nat]
      BY <1>1 DEF Wrote, Moment
  <2> QED  BY <1>2, <2>1, <2>2
<1>9. /\ UNCHANGED << buffer, decTable, maxDynamicSize, decoded, aborted, fed, cut >>
      /\ ~ fed
    BY DEF EncoderWrites, wireVars, unpackVars
<1>10. ASSUME NEW k \in 1 .. Len(out')  PROVE Wireable(out'[k]) /\ Spelled(out'[k], pieces'[k])
  <2>1. CASE k = n + 1
      BY <1>3, <1>6, <1>7, <2>1
  <2>2. CASE k # n + 1
    <3>1. k \in 1 .. n
        BY <1>7, <2>2
    <3> QED  BY <1>7, <3>1 DEF StepInv, WrittenInv
  <2> QED  BY <2>1, <2>2
<1>11. WireTypes'
    BY <1>7, <1>9 DEF StepInv, WireTypes
<1>12. WrittenInv'
    BY <1>1, <1>7, <1>8, <1>10 DEF WrittenInv, Wrote, Wireable, Spelled
<1>13. ReadInv'
    BY <1>9 DEF StepInv, ReadInv
<1> QED  BY <1>11, <1>12, <1>13 DEF StepInv

\* hunpack is given all the octets, or the beginning of them.
LEMMA ReadStands ==
    ASSUME StepInv, ReadFully
    PROVE  \E m : Stands(0, m)' /\ (~ cut' => m = Len(LeftOctets(0)'))
                  /\ buffer' \in Seq(Octet) /\ cut' \in BOOLEAN
<1> DEFINE all == FlattenSeq(pieces)
<1>1. ~ fed /\ UNCHANGED << out, pieces >>
    BY DEF ReadFully, stdVars
<1>2. PICK m \in 0 .. Len(all) : buffer' = buffer \o SubSeq(all, 1, m) /\ cut' = (m < Len(all))
    BY DEF ReadFully, Feed
<1>3. buffer = << >> /\ 0 \in 0 .. Len(out)
    BY <1>1 DEF StepInv, ReadInv, WrittenInv
<1>4. all \in Seq(Octet) /\ LeftOctets(0) = all
    BY <1>3, LeftType
<1> HIDE DEF all
<1>5. buffer' = SubSeq(all, 1, m) /\ buffer' \in Seq(Octet)
  <2>1. SubSeq(all, 1, m) \in Seq(Octet)
      BY <1>4
  <2> QED  BY <1>2, <1>3, <2>1, ConcatEmptySeq
<1>6. cut' \in BOOLEAN /\ (~ cut' => m = Len(all))
  <2>1. ~ (m < Len(all)) => m = Len(all)
      BY <1>4
  <2>2. (m < Len(all)) \in BOOLEAN
      BY <1>4
  <2> QED  BY <1>2, <2>1, <2>2, Zenon
<1>7. LeftOctets(0)' = LeftOctets(0)
    BY <1>1 DEF LeftOctets, LeftFrom
<1>8. Stands(0, m)'
    BY <1>1, <1>2, <1>3, <1>4, <1>5, <1>7 DEF Stands
<1> QED  BY <1>4, <1>5, <1>6, <1>7, <1>8

\* Reading keeps the invariant.
LEMMA StepInvReads ==
    ASSUME StepInv, ReadFully
    PROVE  StepInv'
<1>1. /\ ~ fed /\ fed' = TRUE
      /\ UNCHANGED << sent, out, stdTable, stdMax, pieces, hist, aborted,
                      decTable, maxDynamicSize, decoded >>
    BY DEF ReadFully, stdVars, Feed
<1>2. PICK m : /\ Stands(0, m)' /\ (~ cut' => m = Len(LeftOctets(0)'))
               /\ buffer' \in Seq(Octet) /\ cut' \in BOOLEAN
    BY ReadStands
<1>3. WireTypes'
    BY <1>1, <1>2 DEF StepInv, WireTypes
<1>4. WrittenInv'
    BY <1>1 DEF StepInv, WrittenInv, Wireable, Spelled
<1>5. ReadInv'
  <2>1. ~ aborted
      BY <1>1 DEF StepInv, ReadInv
  <2> QED  BY <1>1, <1>2, <2>1 DEF ReadInv
<1> QED  BY <1>3, <1>4, <1>5 DEF StepInv

\* A turn takes the decoder to the next instruction, or to the end of an input
\* that was cut.
LEMMA StepInvTurns ==
    ASSUME StepInv, DecoderTurn
    PROVE  StepInv'
<1>1. /\ Turn
      /\ UNCHANGED << sent, out, stdTable, stdMax, pieces, fed, cut, hist >>
    BY DEF DecoderTurn, stdVars
<1>2. fed
  <2>1. buffer # << >>
      BY <1>1 DEF Turn, TurnIndexed, TurnResize, TurnNamed, TurnLiteral, TurnAborts, Running
  <2> QED  BY <2>1 DEF StepInv, ReadInv
<1>3. PICK k, m : Stands(k, m) /\ (~ cut => m = Len(LeftOctets(k)))
    BY <1>2 DEF StepInv, ReadInv
<1>4. /\ buffer \in Seq(Octet) /\ Len(out) \in Nat /\ ~ aborted
      /\ aborted \in BOOLEAN
  <2>1. ~ aborted
      BY <1>1 DEF Turn, TurnIndexed, TurnResize, TurnNamed, TurnLiteral, TurnAborts, Running
  <2>2. buffer \in Seq(Octet) /\ Len(out) \in Nat
      BY DEF StepInv, WireTypes, WrittenInv
  <2>3. aborted \in BOOLEAN
      BY DEF StepInv, WireTypes
  <2> QED  BY <2>1, <2>2, <2>3
<1>5. \A j : LeftOctets(j)' = LeftOctets(j)
    BY <1>1 DEF LeftOctets, LeftFrom
<1>6. /\ k \in 0 .. Len(out) - 1
      /\ Wireable(out[k + 1])
      /\ k + 1 \in 0 .. Len(out) /\ LeftOctets(k + 1) \in Seq(Octet)
  <2>1. k \in 0 .. Len(out) - 1 /\ Wireable(out[k + 1])
      BY <1>1, <1>3, TurnStands
  <2>2. k + 1 \in 0 .. Len(out)
      BY <1>4, <2>1
  <2> QED  BY <2>1, <2>2, LeftType
<1>7. WrittenInv'
    BY <1>1 DEF StepInv, WrittenInv, Wireable, Spelled
<1>8. CASE /\ m - Len(pieces[k + 1]) \in 0 .. Len(LeftOctets(k + 1))
           /\ m = Len(LeftOctets(k))
                 => m - Len(pieces[k + 1]) = Len(LeftOctets(k + 1))
           /\ CarriesOut(out[k + 1])
           /\ buffer' = SubSeq(LeftOctets(k + 1), 1, m - Len(pieces[k + 1]))
           /\ aborted' = aborted
  <2>1. PICK n \in 0 .. Len(LeftOctets(k + 1)) :
           /\ buffer' = SubSeq(LeftOctets(k + 1), 1, n)
           /\ ~ cut => n = Len(LeftOctets(k + 1))
      BY <1>3, <1>8
  <2>2. buffer' \in Seq(Octet)
      BY <1>6, <2>1
  <2>3. decoded' \in Seq(Entry) /\ decTable' \in Table /\ maxDynamicSize' \in UInt
      BY <1>6, <1>8, TurnType DEF StepInv, WireTypes
  <2>4. WireTypes'
      BY <1>1, <1>8, <2>2, <2>3 DEF StepInv, WireTypes
  <2>5. Stands(k + 1, n)' /\ (~ cut' => n = Len(LeftOctets(k + 1)'))
      BY <1>1, <1>5, <1>6, <2>1 DEF Stands
  <2>6. ReadInv'
      BY <1>1, <1>2, <1>4, <1>8, <2>5 DEF ReadInv
  <2> QED  BY <1>7, <2>4, <2>6 DEF StepInv
<1>9. CASE m # Len(LeftOctets(k)) /\ Spoils(out[k + 1])
  <2>1. cut
      BY <1>3, <1>9
  <2>2. /\ buffer' = buffer \/ buffer' = << >>
        /\ aborted' \in BOOLEAN
      BY <1>4, <1>9 DEF Spoils, unpackVars
  <2>3. decoded' \in Seq(Entry) /\ decTable' \in Table /\ maxDynamicSize' \in UInt
      BY <1>6, <1>9, TurnType DEF StepInv, WireTypes
  <2>4. buffer' \in Seq(Octet)
    <3>1. << >> \in Seq(Octet)
        OBVIOUS
    <3> QED  BY <1>4, <2>2, <3>1
  <2>5. WireTypes'
      BY <1>1, <2>2, <2>3, <2>4 DEF StepInv, WireTypes
  <2>6. \E j, l : Stands(j, l)'
    <3>1. CASE buffer' = buffer
      <4>1. Stands(k, m)'
          BY <1>1, <1>3, <1>5, <3>1 DEF Stands
      <4> QED  BY <4>1
    <3>2. CASE buffer' = << >>
      <4>1. 0 \in 0 .. Len(LeftOctets(k + 1)) /\ SubSeq(LeftOctets(k + 1), 1, 0) = << >>
          BY <1>6, SubSeqEmpty
      <4>2. Stands(k + 1, 0)'
          BY <1>1, <1>5, <1>6, <3>2, <4>1 DEF Stands
      <4> QED  BY <4>2
    <3> QED  BY <2>2, <3>1, <3>2
  <2>7. ReadInv'
      BY <1>1, <1>2, <2>1, <2>6 DEF ReadInv
  <2> QED  BY <1>7, <2>5, <2>7 DEF StepInv
<1>10. CASE OverrunIn(k + 1) /\ aborted' = TRUE /\ UNCHANGED unpackVars
  <2>1. UNCHANGED << buffer, decTable, maxDynamicSize, decoded >>
      BY <1>10 DEF unpackVars
  <2>2. WireTypes'
      BY <1>1, <1>10, <2>1 DEF StepInv, WireTypes
  <2>3. Stands(k, m)' /\ (~ cut' => m = Len(LeftOctets(k)'))
      BY <1>1, <1>3, <1>5, <2>1 DEF Stands
  <2>4. k < Len(out') /\ OverrunIn(k + 1)'
      BY <1>1, <1>4, <1>6, <1>10 DEF OverrunIn
  <2>5. ReadInv'
      BY <1>1, <1>2, <2>3, <2>4 DEF ReadInv
  <2> QED  BY <1>7, <2>2, <2>5 DEF StepInv
<1> QED  BY <1>1, <1>3, <1>8, <1>9, <1>10, TurnStands

\* Every step keeps the invariant.
LEMMA StepInvStep == StepInv /\ [WireSessionNext]_wireSessionVars => StepInv'
<1> SUFFICES ASSUME StepInv, [WireSessionNext]_wireSessionVars  PROVE StepInv'
    OBVIOUS
<1>1. CASE EncoderWrites
    BY <1>1, StepInvWrites
<1>2. CASE ReadFully
    BY <1>2, StepInvReads
<1>3. CASE DecoderTurn
    BY <1>3, StepInvTurns
<1>4. CASE UNCHANGED wireSessionVars
  <2>1. UNCHANGED << sent, out, stdTable, stdMax, pieces, fed, cut, hist, aborted,
                     buffer, decTable, maxDynamicSize, decoded >>
      BY <1>4 DEF wireSessionVars, stdVars, wireVars, unpackVars
  <2>2. WireTypes'
      BY <2>1 DEF StepInv, WireTypes
  <2>3. WrittenInv'
      BY <2>1 DEF StepInv, WrittenInv, Wireable, Spelled
  <2>4. \A k, m : /\ Stands(k, m)' <=> Stands(k, m)
                  /\ LeftOctets(k)' = LeftOctets(k)
                  /\ OverrunIn(k)' <=> OverrunIn(k)
      BY <2>1 DEF Stands, LeftOctets, LeftFrom, OverrunIn
  <2>5. ReadInv'
      BY <2>1, <2>4 DEF StepInv, ReadInv
  <2> QED  BY <2>2, <2>3, <2>5 DEF StepInv
<1> QED  BY <1>1, <1>2, <1>3, <1>4 DEF WireSessionNext, Ended

\* The decoder stands at an instruction and every octet is accounted for,
\* whatever the octets, the choices of the encoder and the end of the input.
THEOREM StepInvariant == WireSessionSpec => []StepInv
BY StepInvInit, StepInvStep, PTL DEF WireSessionSpec

-----------------------------------------------------------------------------
(* The texts are those that were given.                                    *)

\* The strings of the instruction are known.
KnownInstruction(instr) ==
    /\ instr.op = "named" => instr.value \in Known("value")
    /\ instr.op = "literal" => instr.header \in KnownEntry

KnownInv ==
    /\ decoded \in Seq(KnownEntry)
    /\ decTable.table \in Seq(KnownEntry)
    /\ \A k \in 1 .. Len(out) : KnownInstruction(out[k])

\* What the encoder is given, and what the tables hold, is known.
LEMMA KnownSources ==
    /\ Header \subseteq KnownEntry
    /\ \A i \in DOMAIN StaticTable : StaticTable[i] \in KnownEntry
    /\ InvalidEntry \in KnownEntry
<1>1. ASSUME NEW e \in Header \cup ToSet(StaticTable) \cup {InvalidEntry}
      PROVE  e \in KnownEntry
  <2>1. e \in Entry
      BY HeaderAssumption, TableAssumption DEF ToSet
  <2>2. e["name"] \in Known("name") /\ e["value"] \in Known("value")
      BY DEF Known
  <2>3. e = [name |-> e["name"], value |-> e["value"]]
      BY <2>1 DEF Entry
  <2> QED  BY <2>2, <2>3 DEF KnownEntry
<1>2. \A i \in DOMAIN StaticTable : StaticTable[i] \in ToSet(StaticTable)
    BY DEF ToSet
<1> QED  BY <1>1, <1>2

\* get() answers what is known (common.h:807-819).
LEMMA KnownGet ==
    ASSUME NEW es \in Seq(KnownEntry), NEW i \in UInt
    PROVE  Get(es, i) \in KnownEntry
<1>1. i \in Nat /\ StaticTable \in Seq(Entry)
    BY UIntType, TableAssumption
<1> QED  BY <1>1, KnownSources DEF ValidIndex, Get, DynamicTableStart

\* What is delivered is printed, and may be pushed.
LEMMA KnownDeliver ==
    ASSUME KnownInv, NEW e \in KnownEntry, NEW push, Deliver(e, push)
    PROVE  decoded' \in Seq(KnownEntry) /\ decTable'.table \in Seq(KnownEntry)
<1>1. decoded \in Seq(KnownEntry) /\ decTable.table \in Seq(KnownEntry)
    BY DEF KnownInv
<1>2. Push(decTable, e).table \in Seq(KnownEntry)
  <2>1. << e >> \o decTable.table \in Seq(KnownEntry)
      BY <1>1
  <2> QED  BY <2>1 DEF Push
<1> QED  BY <1>1, <1>2 DEF Deliver

\* What an update leaves was there.
LEMMA KnownShrink ==
    ASSUME StepInv, KnownInv, NEW max \in UInt
    PROVE  Shrink(decTable, max).table \in Seq(KnownEntry)
<1> DEFINE kept == Max(StopsAt(decTable, max))
<1>1. decTable.table \in Seq(KnownEntry)
    BY DEF KnownInv
<1>2. kept \in 0 .. Len(decTable.table)
  <2>1. StopsAt(decTable, max) \subseteq 0 .. Len(decTable.table) /\ 0 \in StopsAt(decTable, max)
      BY <1>1 DEF StopsAt
  <2>2. kept \in StopsAt(decTable, max)
      BY <1>1, <2>1, SetMax
  <2> QED  BY <2>1, <2>2
<1> HIDE DEF kept
<1>3. SubSeq(decTable.table, 1, kept) \in Seq(KnownEntry)
    BY <1>1, <1>2
<1> QED  BY <1>3 DEF Shrink, kept

\* The encoder spells what it is given.
LEMMA KnownWrites ==
    ASSUME StepInv, KnownInv, EncoderWrites
    PROVE  KnownInv'
<1>1. StdNext /\ UNCHANGED << decTable, decoded >>
    BY DEF EncoderWrites, wireVars, unpackVars
<1>2. \A h \in Header : h \in KnownEntry /\ h.value \in Known("value")
    BY KnownSources DEF KnownEntry
<1>3. PICK instr : out' = Append(out, instr) /\ KnownInstruction(instr)
  <2>1. ASSUME NEW h \in Header, StdIndexed(h)
        PROVE  \E instr : out' = Append(out, instr) /\ KnownInstruction(instr)
    <3>1. PICK i : out' = Append(out, Indexed(i))
        BY <2>1 DEF StdIndexed, Write
    <3>2. KnownInstruction(Indexed(i))
        BY DEF KnownInstruction, Indexed
    <3> QED  BY <3>1, <3>2
  <2>2. ASSUME NEW h \in Header, StdNamed(h)
        PROVE  \E instr : out' = Append(out, instr) /\ KnownInstruction(instr)
    <3>1. PICK i, push : out' = Append(out, NamedByIndex(push, i, h.value))
        BY <2>2 DEF StdNamed, Write
    <3>2. KnownInstruction(NamedByIndex(push, i, h.value))
        BY <1>2 DEF KnownInstruction, NamedByIndex
    <3> QED  BY <3>1, <3>2
  <2>3. ASSUME NEW h \in Header, StdLiteral(h)
        PROVE  \E instr : out' = Append(out, instr) /\ KnownInstruction(instr)
    <3>1. PICK push : out' = Append(out, Literal(push, h))
        BY <2>3 DEF StdLiteral, Write
    <3>2. KnownInstruction(Literal(push, h))
        BY <1>2 DEF KnownInstruction, Literal
    <3> QED  BY <3>1, <3>2
  <2>4. ASSUME NEW max \in Sizes, StdResize(max)
        PROVE  \E instr : out' = Append(out, instr) /\ KnownInstruction(instr)
    <3>1. out' = Append(out, Resize(max))
        BY <2>4 DEF StdResize
    <3>2. KnownInstruction(Resize(max))
        BY DEF KnownInstruction, Resize
    <3> QED  BY <3>1, <3>2
  <2> QED  BY <1>1, <2>1, <2>2, <2>3, <2>4 DEF StdNext, StdEncode
<1>4. /\ Len(out) \in Nat /\ Len(out') = Len(out) + 1 /\ out'[Len(out) + 1] = instr
      /\ \A k \in 1 .. Len(out) : out'[k] = out[k]
  <2>1. out \in Seq(Instruction)
      BY DEF StepInv, WrittenInv
  <2> QED  BY <1>3, <2>1
<1>5. ASSUME NEW k \in 1 .. Len(out')  PROVE KnownInstruction(out'[k])
  <2>1. k = Len(out) + 1 \/ k \in 1 .. Len(out)
      BY <1>4
  <2> QED  BY <1>3, <1>4, <2>1 DEF KnownInv
<1> QED  BY <1>1, <1>5 DEF KnownInv, KnownInstruction

\* What a turn prints or pushes comes from its instruction or from a table,
\* even if the instruction is cut.
LEMMA KnownTurns ==
    ASSUME StepInv, KnownInv, DecoderTurn
    PROVE  KnownInv'
<1>1. Turn /\ UNCHANGED out /\ fed
  <2>1. Turn /\ UNCHANGED out
      BY DEF DecoderTurn, stdVars
  <2>2. buffer # << >>
      BY <2>1 DEF Turn, TurnIndexed, TurnResize, TurnNamed, TurnLiteral, TurnAborts, Running
  <2> QED  BY <2>1, <2>2 DEF StepInv, ReadInv
<1>2. PICK k, m : Stands(k, m)
    BY <1>1 DEF StepInv, ReadInv
<1>3. /\ k + 1 \in 1 .. Len(out) /\ Wireable(out[k + 1])
      /\ \/ CarriesOut(out[k + 1])
         \/ UNCHANGED unpackVars
         \/ Spoils(out[k + 1])
  <2>0. Len(out) \in Nat
      BY DEF StepInv, WrittenInv
  <2>1. k \in 0 .. Len(out) - 1
      BY <1>1, <1>2, TurnStands
  <2>2. k + 1 \in 1 .. Len(out)
      BY <2>0, <2>1
  <2> QED  BY <1>1, <1>2, <2>2, TurnStands
<1> DEFINE instr == out[k + 1]
<1>4. KnownInstruction(instr) /\ Wireable(instr)
    BY <1>3 DEF KnownInv
<1> HIDE DEF instr
<1>5. decTable.table \in Seq(KnownEntry) /\ decoded \in Seq(KnownEntry)
    BY DEF KnownInv
<1>6. decoded' \in Seq(KnownEntry) /\ decTable'.table \in Seq(KnownEntry)
  <2>1. CASE UNCHANGED unpackVars
      BY <1>5, <2>1 DEF unpackVars
  <2>2. ASSUME NEW i \in UInt, Deliver(Get(decTable.table, i), FALSE)
        PROVE  decoded' \in Seq(KnownEntry) /\ decTable'.table \in Seq(KnownEntry)
      BY <1>5, <2>2, KnownGet, KnownDeliver
  <2>3. CASE /\ instr.op = "named"
             /\ Deliver([name |-> Get(decTable.table, instr.index).name, value |-> instr.value],
                        instr.push)
    <3>1. Get(decTable.table, instr.index) \in KnownEntry
      <4>1. instr.index \in UInt
          BY <1>4, <2>3, WireableFields
      <4> QED  BY <1>5, <4>1, KnownGet
    <3>2. [name |-> Get(decTable.table, instr.index).name, value |-> instr.value] \in KnownEntry
        BY <1>4, <2>3, <3>1 DEF KnownInstruction, KnownEntry
    <3> QED  BY <2>3, <3>2, KnownDeliver
  <2>4. CASE instr.op = "literal" /\ Deliver(instr.header, instr.push)
      BY <1>4, <2>4, KnownDeliver DEF KnownInstruction
  <2>5. ASSUME NEW max \in UInt, decTable' = Shrink(decTable, max), decoded' = decoded
        PROVE  decoded' \in Seq(KnownEntry) /\ decTable'.table \in Seq(KnownEntry)
      BY <1>5, <2>5, KnownShrink
  <2>6. CASE CarriesOut(instr)
    <3>1. instr.op = "indexed" => instr.index \in UInt
        BY <1>4, WireableFields
    <3>2. instr.op = "resize" => instr.max \in UInt
        BY <1>4, WireableFields
    <3> QED  BY <2>2, <2>3, <2>4, <2>5, <2>6, <3>1, <3>2 DEF CarriesOut
  <2>7. CASE Spoils(instr)
      BY <2>1, <2>2, <2>5, <2>7 DEF Spoils
  <2> QED  BY <1>3, <2>1, <2>6, <2>7 DEF instr
<1> QED  BY <1>1, <1>6 DEF KnownInv, KnownInstruction

\* It holds at first, and every step keeps it.
LEMMA KnownInvariant == WireSessionSpec => []KnownInv
<1>1. WireSessionInit => KnownInv
  <2> SUFFICES ASSUME WireSessionInit  PROVE KnownInv
      OBVIOUS
  <2>1. out = << >> /\ decoded = << >> /\ decTable = EmptyTable
      BY DEF WireSessionInit, StdInit, WireInit, UnpackInit
  <2> QED  BY <2>1 DEF KnownInv, EmptyTable
<1>2. StepInv /\ KnownInv /\ [WireSessionNext]_wireSessionVars => KnownInv'
  <2> SUFFICES ASSUME StepInv, KnownInv, [WireSessionNext]_wireSessionVars  PROVE KnownInv'
      OBVIOUS
  <2>1. CASE EncoderWrites
      BY <2>1, KnownWrites
  <2>2. CASE DecoderTurn
      BY <2>2, KnownTurns
  <2>3. CASE ReadFully \/ UNCHANGED wireSessionVars
    <3>1. UNCHANGED << out, decTable, decoded >>
        BY <2>3 DEF ReadFully, Feed, wireSessionVars, stdVars, wireVars, unpackVars
    <3> QED  BY <3>1 DEF KnownInv, KnownInstruction
  <2> QED  BY <2>1, <2>2, <2>3 DEF WireSessionNext, Ended
<1> QED  BY <1>1, <1>2, StepInvariant, PTL DEF WireSessionSpec

\* The octets, the tables and the decoder keep their types.  What is printed is
\* put together from whole texts that are known, wherever the input ends
\* (unpack.h:82-97, 105-164).
THEOREM WireTypeCorrect == WireSessionSpec => []WireTypeOK
<1>1. StepInv /\ KnownInv => WireTypeOK
    BY DEF StepInv, WireTypes, KnownInv, WireTypeOK
<1> QED  BY <1>1, StepInvariant, KnownInvariant, PTL

-----------------------------------------------------------------------------
(* Octets do what instructions do.                                         *)

\* The session of instructions that the octets are, as in WireSession, with
\* the theorems of Session_proofs.
AnySession == INSTANCE Session_proofs WITH
    fed            <- Given,
    buffer         <- IF Given THEN SubSeq(out, Min(Left) + 1, Len(out)) ELSE << >>,
    decTable       <- IF cut THEN EmptyTable ELSE decTable,
    maxDynamicSize <- IF cut THEN SizeLimit ELSE maxDynamicSize,
    decoded        <- IF cut THEN << >> ELSE decoded

\* What Session_proofs assumes of its constants.
LEMMA AnyTableAssumption ==
    /\ NameLen \in [Name -> Nat]
    /\ ValueLen \in [Value -> Nat]
    /\ NameRank \in [Name -> Nat]
    /\ StaticTable \in Seq(AnySession!Entry)
    /\ UIntRange \in Nat \ {0}
    /\ AnySession!InvalidEntry \in AnySession!Entry
    /\ AnySession!InvalidEntry \notin AnySession!ToSet(StaticTable)
BY TableAssumption DEF Entry, AnySession!Entry, InvalidEntry,
   AnySession!InvalidEntry, ToSet, AnySession!ToSet

\* What Session assumes of the headers and sizes holds under the mapping.
LEMMA AnyHeaderAssumption ==
    /\ Header \subseteq AnySession!Entry
    /\ SizeLimit \in Nat
    /\ SizeLimit < UIntRange
    /\ Sizes \subseteq 0 .. SizeLimit
    /\ MaxInstructions \in Nat
BY HeaderAssumption DEF Entry, AnySession!Entry

\* What is left tells where the decoder stands.
LEMMA OneLeft ==
    ASSUME StepInv, NEW k \in 0 .. Len(out)
    PROVE  LET same == {j \in 0 .. Len(out) : LeftOctets(k) = FlattenSeq(LeftFrom(j))}
           IN  same = {k} /\ Min(same) = k
<1>1. pieces \in Seq(Seq(Octet)) /\ Len(pieces) = Len(out) /\ Len(out) \in Nat
    BY DEF StepInv, WireTypes, WrittenInv
<1>2. ASSUME NEW i \in 1 .. Len(pieces)  PROVE pieces[i] # << >>
  <2>1. Wireable(out[i]) /\ Spelled(out[i], pieces[i])
      BY <1>1 DEF StepInv, WrittenInv
  <2>2. PICK s \in Spelling : pieces[i] = InstructionOctets(out[i], s)
      BY <2>1 DEF Spelled
  <2> DEFINE p == IntOctets(FormOf(out[i], s.unpushed), ValueOf(out[i]))
             rest == StringsOf(out[i], s)
  <2>3. p \in Seq(Octet) /\ p # << >> /\ rest \in Seq(Octet) /\ pieces[i] = p \o rest
      BY <2>1, <2>2, PieceIs
  <2> HIDE DEF p, rest
  <2>4. Len(p) \in Nat \ {0} /\ Len(rest) \in Nat /\ Len(p \o rest) = Len(p) + Len(rest)
      BY <2>3, EmptySeq
  <2> QED  BY <2>3, <2>4
<1>3. ASSUME NEW i \in 0 .. Len(out), NEW j \in 0 .. Len(out), i < j
      PROVE  LeftOctets(i) # LeftOctets(j)
    BY <1>1, <1>2, <1>3, LeftShrinks DEF LeftOctets
<1>4. \A j \in 0 .. Len(out) : LeftOctets(j) = LeftOctets(k) <=> j = k
  <2> SUFFICES ASSUME NEW j \in 0 .. Len(out), LeftOctets(j) = LeftOctets(k)  PROVE j = k
      OBVIOUS
  <2>1. ~ (j < k) /\ ~ (k < j)
      BY <1>3
  <2> QED  BY <1>1, <2>1
<1> DEFINE same == {j \in 0 .. Len(out) : LeftOctets(k) = FlattenSeq(LeftFrom(j))}
<1>5. same = {k}
    BY <1>4 DEF LeftOctets
<1>6. {k} \subseteq Nat /\ {k} # {}
    BY <1>1
<1>7. Min({k}) = k
    BY <1>6, SetMin
<1> QED  BY <1>5, <1>7

\* While all is there, what is left of the octets are the octets of what is
\* left of the instructions.
LEMMA LeftIs ==
    ASSUME StepInv, Given
    PROVE  \E k \in 0 .. Len(out) :
              /\ Left = {k} /\ Min(Left) = k
              /\ buffer = LeftOctets(k)
              /\ Stands(k, Len(LeftOctets(k)))
              /\ aborted => k < Len(out) /\ OverrunIn(k + 1)
<1>1. PICK k, m : /\ Stands(k, m) /\ m = Len(LeftOctets(k))
                  /\ aborted => k < Len(out) /\ OverrunIn(k + 1)
    BY DEF StepInv, ReadInv, Given
<1>2. k \in 0 .. Len(out) /\ buffer = SubSeq(LeftOctets(k), 1, Len(LeftOctets(k)))
    BY <1>1 DEF Stands
<1>3. LeftOctets(k) \in Seq(Octet)
    BY <1>2, LeftType
<1>4. buffer = LeftOctets(k)
    BY <1>2, <1>3
<1>5. Left = {k} /\ Min(Left) = k
    BY <1>2, <1>4, OneLeft DEF Left
<1> QED  BY <1>1, <1>2, <1>4, <1>5

\* Every turn leaves the decoder at the beginning of an instruction or at the
\* end.  Unless the input is cut, an assertion fails only in front of a string
\* with the last Huffman code of the table (unpack.h:46, 115-163).
THEOREM DecoderInStep == WireSessionSpec => []InStep
<1>1. StepInv => InStep
  <2> SUFFICES ASSUME StepInv, Given
               PROVE  /\ Left # {}
                      /\ aborted => \E k \in Left : k < Len(out) /\ OverrunIn(k + 1)
      BY DEF InStep, Given
  <2>1. PICK k : Left = {k} /\ (aborted => k < Len(out) /\ OverrunIn(k + 1))
      BY LeftIs
  <2> QED  BY <2>1
<1> QED  BY <1>1, StepInvariant, PTL

\* Nothing has been encoded in either.
LEMMA SessionStarts == WireSessionInit => AnySession!SessionInit
<1> SUFFICES ASSUME WireSessionInit  PROVE AnySession!SessionInit
    OBVIOUS
<1>1. fed = FALSE /\ cut = FALSE
    BY Zenon DEF WireSessionInit
<1>2. Given = FALSE
    BY <1>1, Zenon DEF Given
<1> QED  BY <1>1, <1>2 DEF WireSessionInit, WireInit, UnpackInit, StdInit, Moment,
       EmptyTable, AnySession!SessionInit, AnySession!StdInit, AnySession!UnpackInit,
       AnySession!EmptyTable, AnySession!Moment

\* An instruction written is an instruction written.
LEMMA WritesStep ==
    ASSUME StepInv, EncoderWrites
    PROVE  AnySession!EncoderStep
<1>1. /\ ~ fed /\ ~ cut /\ fed' = fed /\ cut' = cut
      /\ UNCHANGED << buffer, decTable, maxDynamicSize, decoded >>
      /\ hist' = Append(hist, Moment(stdTable', sent'))
      /\ StdNext
    BY DEF EncoderWrites, wireVars, unpackVars, StepInv, ReadInv
<1>2. ~ Given /\ ~ Given' /\ Given' = Given
    BY <1>1, Zenon DEF Given
<1>3. AnySession!StdNext
    BY <1>1, Zenon DEF StdNext, AnySession!StdNext,
    StdEncode, AnySession!StdEncode, StdIndexed, AnySession!StdIndexed,
    StdNamed, AnySession!StdNamed, StdLiteral, AnySession!StdLiteral,
    StdResize, AnySession!StdResize, Write, AnySession!Write,
    MaybeInsert, AnySession!MaybeInsert, Insert, AnySession!Insert,
    Fit, AnySession!Fit, Fitting, AnySession!Fitting, Ledger, AnySession!Ledger,
    EntrySize, AnySession!EntrySize, Get, AnySession!Get,
    ValidIndex, AnySession!ValidIndex, DynamicTableStart, AnySession!DynamicTableStart,
    InvalidEntry, AnySession!InvalidEntry, Indexed, AnySession!Indexed,
    NamedByIndex, AnySession!NamedByIndex, Literal, AnySession!Literal,
    Resize, AnySession!Resize, Max, AnySession!Max
<1> QED  BY <1>1, <1>2, <1>3 DEF AnySession!EncoderStep, Moment, AnySession!Moment,
            AnySession!unpackVars

\* All the octets are all the instructions; a beginning of the octets is read
\* while the instructions wait.
LEMMA ReadsStep ==
    ASSUME StepInv, ReadFully
    PROVE  AnySession!ReadFully \/ UNCHANGED AnySession!sessionVars
<1> DEFINE all == FlattenSeq(pieces)
<1>1. /\ ~ fed /\ fed' = TRUE /\ ~ cut
      /\ UNCHANGED << sent, out, stdTable, stdMax, pieces, hist,
                      decTable, maxDynamicSize, decoded >>
      /\ decTable = EmptyTable /\ maxDynamicSize = SizeLimit /\ decoded = << >>
    BY DEF ReadFully, stdVars, Feed, StepInv, ReadInv
<1>2. ~ Given /\ (Given' <=> ~ cut')
    BY <1>1, Zenon DEF Given
<1>3. CASE cut'
  <2>1. Given' = Given
      BY <1>1, <1>3, Zenon DEF Given
  <2> QED  BY <1>1, <1>2, <1>3, <2>1 DEF AnySession!sessionVars, AnySession!stdVars,
              AnySession!unpackVars
<1>4. CASE ~ cut'
  <2>1. StepInv' /\ Given'
      BY <1>2, <1>4, StepInvReads
  <2>2. PICK m \in 0 .. Len(all) : buffer' = buffer \o SubSeq(all, 1, m) /\ cut' = (m < Len(all))
      BY DEF ReadFully, Feed
  <2>3. all \in Seq(Octet) /\ LeftOctets(0) = all /\ 0 \in 0 .. Len(out) /\ out \in Seq(Instruction)
    <3>1. 0 \in 0 .. Len(out) /\ out \in Seq(Instruction)
        BY DEF StepInv, WrittenInv
    <3> QED  BY <3>1, LeftType
  <2> HIDE DEF all
  <2>4. m = Len(all)
    <3>1. ~ (m < Len(all))
        BY <1>4, <2>2, Zenon
    <3> QED  BY <2>3, <3>1
  <2>5. buffer' = all
    <3>1. buffer = << >>
        BY <1>1 DEF StepInv, ReadInv
    <3> QED  BY <2>2, <2>3, <2>4, <3>1, ConcatEmptySeq
  <2>6. Left' = {j \in 0 .. Len(out) : LeftOctets(0) = FlattenSeq(LeftFrom(j))}
      BY <1>1, <2>3, <2>5 DEF Left, LeftFrom
  <2>7. Min(Left') = 0
      BY <2>3, <2>6, OneLeft
  <2>8. SubSeq(out', Min(Left') + 1, Len(out')) = << >> \o out
    <3>1. SubSeq(out, 1, Len(out)) = out /\ << >> \o out = out
        BY <2>3, ConcatEmptySeq
    <3>2. 0 + 1 = 1
        OBVIOUS
    <3> QED  BY <1>1, <2>7, <3>1, <3>2
  <2>9. Given' = TRUE
      BY <1>1, <1>4, Zenon DEF Given
  <2> QED  BY <1>1, <1>2, <1>4, <2>8, <2>9 DEF AnySession!ReadFully, AnySession!Feed, AnySession!stdVars
<1> QED  BY <1>3, <1>4

\* The instance has the operations on tables that WireSession has.
LEMMA SameTables ==
    /\ \A es, i : AnySession!Get(es, i) = Get(es, i)
    /\ \A t, e : AnySession!Push(t, e) = Push(t, e)
    /\ \A t, max : AnySession!Shrink(t, max) = Shrink(t, max)
BY Zenon DEF Get, AnySession!Get, ValidIndex, AnySession!ValidIndex,
    DynamicTableStart, AnySession!DynamicTableStart, InvalidEntry, AnySession!InvalidEntry,
    Push, AnySession!Push, Shrink, AnySession!Shrink, StopsAt, AnySession!StopsAt,
    SizeAfter, AnySession!SizeAfter, Bytes, AnySession!Bytes, Ledger, AnySession!Ledger,
    EntrySize, AnySession!EntrySize, Max, AnySession!Max

\* A turn on the octets of an instruction is a turn on the instruction; a turn
\* on octets that were cut is no turn at all.
LEMMA TurnStep ==
    ASSUME StepInv, DecoderTurn
    PROVE  AnySession!DecoderStep \/ UNCHANGED AnySession!sessionVars
<1>1. /\ Turn /\ cut' = cut /\ fed' = fed
      /\ UNCHANGED << sent, out, stdTable, stdMax, pieces, hist >>
    BY DEF DecoderTurn, stdVars
<1>2. fed
  <2>1. buffer # << >>
      BY <1>1 DEF Turn, TurnIndexed, TurnResize, TurnNamed, TurnLiteral, TurnAborts, Running
  <2> QED  BY <2>1 DEF StepInv, ReadInv
<1>3. Given' = Given /\ (Given <=> ~ cut)
    BY <1>1, <1>2, Zenon DEF Given
<1>4. CASE cut
    BY <1>1, <1>3, <1>4 DEF AnySession!sessionVars, AnySession!stdVars, AnySession!unpackVars
<1>5. CASE UNCHANGED unpackVars
  <2>1. UNCHANGED << buffer, decTable, maxDynamicSize, decoded >>
      BY <1>5 DEF unpackVars
  <2>2. Left' = Left
      BY <1>1, <2>1 DEF Left, LeftFrom
  <2> QED  BY <1>1, <1>3, <2>1, <2>2 DEF AnySession!sessionVars, AnySession!stdVars,
              AnySession!unpackVars
<1>6. CASE ~ cut /\ ~ UNCHANGED unpackVars
  <2>1. PICK k \in 0 .. Len(out) :
           /\ Min(Left) = k
           /\ Stands(k, Len(LeftOctets(k)))
      BY <1>3, <1>6, LeftIs
  <2>2. /\ k \in 0 .. Len(out) - 1
        /\ Wireable(out[k + 1])
        /\ CarriesOut(out[k + 1])
        /\ buffer' = SubSeq(LeftOctets(k + 1), 1, Len(LeftOctets(k + 1)))
      BY <1>1, <1>6, <2>1, TurnStands
  <2>3. out \in Seq(Instruction) /\ Len(out) \in Nat /\ k + 1 \in 0 .. Len(out)
        /\ LeftOctets(k + 1) \in Seq(Octet)
    <3>1. out \in Seq(Instruction) /\ Len(out) \in Nat
        BY DEF StepInv, WrittenInv
    <3>2. k + 1 \in 0 .. Len(out)
        BY <2>2, <3>1
    <3> QED  BY <3>1, <3>2, LeftType
  <2>4. Left' = {j \in 0 .. Len(out) : LeftOctets(k + 1) = FlattenSeq(LeftFrom(j))}
    <3>1. buffer' = LeftOctets(k + 1)
        BY <2>2, <2>3
    <3> QED  BY <1>1, <3>1 DEF Left, LeftFrom
  <2>5. Min(Left') = k + 1
      BY <2>3, <2>4, OneLeft
  <2> DEFINE rest == SubSeq(out, k + 1, Len(out))
  <2>6. /\ rest # << >> /\ Head(rest) = out[k + 1]
        /\ Tail(rest) = SubSeq(out, k + 1 + 1, Len(out))
    <3>1. k + 1 \in 1 .. Len(out) /\ Len(out) \in k + 1 .. Len(out)
        BY <2>2, <2>3
    <3>2. rest = << out[k + 1] >> \o SubSeq(out, k + 1 + 1, Len(out))
        BY <2>3, <3>1, SubSeqRecursiveFirst
    <3>3. SubSeq(out, k + 1 + 1, Len(out)) \in Seq(Instruction) /\ out[k + 1] \in Instruction
        BY <2>3, <3>1
    <3>4. \A x \in Instruction, s \in Seq(Instruction) :
             << x >> \o s # << >> /\ Head(<< x >> \o s) = x /\ Tail(<< x >> \o s) = s
        OBVIOUS
    <3> HIDE DEF rest
    <3> QED  BY <3>2, <3>3, <3>4
  <2>7. /\ Min(Left) + 1 = k + 1 /\ Min(Left') + 1 = k + 1 + 1
      BY <2>1, <2>5
  <2>8. /\ (IF Given THEN SubSeq(out, Min(Left) + 1, Len(out)) ELSE << >>) = rest
        /\ (IF Given THEN SubSeq(out, Min(Left) + 1, Len(out)) ELSE << >>)' = Tail(rest)
      BY <1>1, <1>3, <1>6, <2>6, <2>7
  <2> HIDE DEF rest
  <2>9. /\ AnySession!Consume(out[k + 1].op)
        /\ (IF Given THEN SubSeq(out, Min(Left) + 1, Len(out)) ELSE << >>) = rest
        /\ Head(rest) = out[k + 1]
      BY <2>6, <2>8 DEF AnySession!Consume
  <2>10. /\ (IF cut THEN EmptyTable ELSE decTable) = decTable
         /\ (IF cut THEN EmptyTable ELSE decTable)' = decTable'
         /\ (IF cut THEN SizeLimit ELSE maxDynamicSize) = maxDynamicSize
         /\ (IF cut THEN SizeLimit ELSE maxDynamicSize)' = maxDynamicSize'
         /\ (IF cut THEN << >> ELSE decoded) = decoded
         /\ (IF cut THEN << >> ELSE decoded)' = decoded'
      BY <1>1, <1>6
  <2>11. \A e, push : Deliver(e, push) => AnySession!Deliver(e, push)
      BY <2>10, SameTables DEF Deliver, AnySession!Deliver
  <2> DEFINE instr == out[k + 1]
  <2> HIDE DEF instr
  <2>12. AnySession!UnpackNext
    <3>1. CASE instr.op = "indexed" /\ Deliver(Get(decTable.table, instr.index), FALSE)
        BY <2>9, <2>10, <2>11, <3>1, SameTables
           DEF instr, AnySession!UnpackNext, AnySession!UnpackIndexed
    <3>2. CASE /\ instr.op = "named"
               /\ Deliver([name |-> Get(decTable.table, instr.index).name,
                           value |-> instr.value], instr.push)
        BY <2>9, <2>10, <2>11, <3>2, SameTables
           DEF instr, AnySession!UnpackNext, AnySession!UnpackNamed
    <3>3. CASE instr.op = "literal" /\ Deliver(instr.header, instr.push)
        BY <2>9, <2>11, <3>3 DEF instr, AnySession!UnpackNext, AnySession!UnpackLiteral
    <3>4. CASE /\ instr.op = "resize"
               /\ maxDynamicSize' = instr.max
               /\ decTable' = Shrink(decTable, instr.max)
               /\ UNCHANGED decoded
        BY <2>9, <2>10, <3>4, SameTables
           DEF instr, AnySession!UnpackNext, AnySession!UnpackResize
    <3> QED  BY <2>2, <3>1, <3>2, <3>3, <3>4 DEF CarriesOut, instr
  <2> QED  BY <1>1, <1>3, <2>12 DEF AnySession!DecoderStep, AnySession!stdVars
<1> QED  BY <1>4, <1>6, <1>5

\* Every step of the octets is a step of the session, or a stutter.
LEMMA SessionSteps ==
    StepInv /\ [WireSessionNext]_wireSessionVars
        => [AnySession!SessionNext]_(AnySession!sessionVars)
<1> SUFFICES ASSUME StepInv, [WireSessionNext]_wireSessionVars
             PROVE  [AnySession!SessionNext]_(AnySession!sessionVars)
    OBVIOUS
<1>1. CASE EncoderWrites
    BY <1>1, WritesStep DEF AnySession!SessionNext
<1>2. CASE ReadFully
    BY <1>2, ReadsStep DEF AnySession!SessionNext
<1>3. CASE DecoderTurn
    BY <1>3, TurnStep DEF AnySession!SessionNext
<1>4. CASE UNCHANGED wireSessionVars
  <2>1. UNCHANGED << sent, out, stdTable, stdMax, pieces, fed, cut, hist,
                     buffer, decTable, maxDynamicSize, decoded >>
      BY <1>4 DEF wireSessionVars, stdVars, wireVars, unpackVars
  <2>2. Given' = Given /\ Left' = Left
      BY <2>1 DEF Given, Left, LeftFrom
  <2> QED  BY <2>1, <2>2 DEF AnySession!sessionVars, AnySession!stdVars, AnySession!unpackVars
<1> QED  BY <1>1, <1>2, <1>3, <1>4 DEF WireSessionNext, Ended

\* Every behaviour of the octets is one of a session, hence has the properties
\* proved of sessions.
THEOREM WireIsSession == WireSessionSpec => AnySession!SessionSpec
BY SessionStarts, SessionSteps, StepInvariant, PTL DEF WireSessionSpec, AnySession!SessionSpec

\* WireSession refers to the session through one instance, and the
\* theorems come from another; they say the same.
LEMMA SameSession ==
    /\ AnySession!SessionInit => Session!SessionInit
    /\ AnySession!SessionNext => Session!SessionNext
    /\ AnySession!sessionVars = Session!sessionVars
BY Zenon DEF
    AnySession!SessionInit, Session!SessionInit, AnySession!SessionNext,
    Session!SessionNext, AnySession!sessionVars, Session!sessionVars,
    AnySession!stdVars, Session!stdVars, AnySession!unpackVars,
    Session!unpackVars, AnySession!StdInit, Session!StdInit,
    AnySession!UnpackInit, Session!UnpackInit, AnySession!Moment,
    Session!Moment, AnySession!EmptyTable, Session!EmptyTable,
    AnySession!EncoderStep, Session!EncoderStep, AnySession!ReadFully,
    Session!ReadFully, AnySession!DecoderStep, Session!DecoderStep,
    AnySession!Exited, Session!Exited, AnySession!StdNext, Session!StdNext,
    AnySession!StdEncode, Session!StdEncode, AnySession!StdIndexed,
    Session!StdIndexed, AnySession!StdNamed, Session!StdNamed,
    AnySession!StdLiteral, Session!StdLiteral, AnySession!StdResize,
    Session!StdResize, AnySession!Write, Session!Write,
    AnySession!MaybeInsert, Session!MaybeInsert, AnySession!Insert,
    Session!Insert, AnySession!Fit, Session!Fit, AnySession!Fitting,
    Session!Fitting, AnySession!Ledger, Session!Ledger, AnySession!EntrySize,
    Session!EntrySize, AnySession!Get, Session!Get, AnySession!ValidIndex,
    Session!ValidIndex, AnySession!DynamicTableStart,
    Session!DynamicTableStart, AnySession!InvalidEntry, Session!InvalidEntry,
    AnySession!Indexed, Session!Indexed, AnySession!NamedByIndex,
    Session!NamedByIndex, AnySession!Literal, Session!Literal,
    AnySession!Resize, Session!Resize, AnySession!Feed, Session!Feed,
    AnySession!Consume, Session!Consume, AnySession!Deliver, Session!Deliver,
    AnySession!UnpackNext, Session!UnpackNext, AnySession!UnpackIndexed,
    Session!UnpackIndexed, AnySession!UnpackNamed, Session!UnpackNamed,
    AnySession!UnpackLiteral, Session!UnpackLiteral, AnySession!UnpackResize,
    Session!UnpackResize, AnySession!Shrink, Session!Shrink,
    AnySession!StopsAt, Session!StopsAt, AnySession!SizeAfter,
    Session!SizeAfter, AnySession!Bytes, Session!Bytes, AnySession!Push,
    Session!Push, AnySession!Max, Session!Max

\* What hunpack does with octets is what it does with the instructions they
\* stand for: no turn depends on how the instructions were spelled, and none
\* takes an octet of another's (unpack.h:105-164, 167-189).
THEOREM OctetsImplementSession == WireSessionSpec => ImplementsSession
<1>1. [AnySession!SessionNext]_(AnySession!sessionVars)
          => [Session!SessionNext]_(Session!sessionVars)
  <2>1. UNCHANGED AnySession!sessionVars => UNCHANGED Session!sessionVars
      BY DEF AnySession!sessionVars, Session!sessionVars, AnySession!stdVars,
             Session!stdVars, AnySession!unpackVars, Session!unpackVars
  <2> QED  BY <2>1, SameSession
<1> QED  BY <1>1, SameSession, WireIsSession, PTL
         DEF AnySession!SessionSpec, ImplementsSession, Session!SessionSpec

\* With all of its input, hunpack prints the headers, in their order, whatever
\* the lengths and the forms they were written with (check_unpack of
\* run_tests.py).
THEOREM OctetsDeliver == WireSessionSpec => AnySession!DeliversHeaders
<1>1. AnySession!SessionSpec => AnySession!DeliversHeaders
    BY AnyTableAssumption, AnyHeaderAssumption, OctetAssumption, AnySession!SessionDelivers, PTL
<1> QED  BY <1>1, WireIsSession, PTL

-----------------------------------------------------------------------------
(* Input that is cut short.                                                *)

\* Up to the instruction it stands in front of, the decoder has done what the
\* encoder meant.  A cut instruction makes at most the last header wrong, and
\* is the end.
PrefixInv ==
    fed => \/ \E k, m : /\ Stands(k, m)
                        /\ ~ cut => m = Len(LeftOctets(k))
                        /\ DecoderAt(hist[k + 1])
           \/ /\ cut /\ ~ aborted /\ buffer = << >>
              /\ Len(decoded) <= Len(sent)
              /\ \A i \in 1 .. Len(decoded) - 1 : decoded[i] = sent[i]

\* What the history says of an instruction says it of the decoder as it is.
LEMMA HistoryDenotes ==
    ASSUME StepInv, AnySession!HistoryInv, NEW k \in 0 .. Len(out) - 1
    PROVE  /\ hist[k + 1] \in [table : Seq(Entry), count : Nat]
           /\ hist[k + 2] \in [table : Seq(Entry), count : Nat]
           /\ hist[k + 1].count <= Len(sent) /\ hist[k + 2].count <= Len(sent)
           /\ Denotes(out[k + 1], hist[k + 1], sent[hist[k + 2].count], hist[k + 2])
<1>1. Len(hist) = Len(out) + 1 /\ hist \in Seq([table : Seq(Entry), count : Nat])
      /\ Len(out) \in Nat
    BY DEF StepInv, WrittenInv, AnySession!HistoryInv
<1>2. /\ k + 1 \in 1 .. Len(hist) /\ k + 2 \in 1 .. Len(hist) /\ k + 1 \in 1 .. Len(out)
      /\ (k + 1) + 1 = k + 2
    BY <1>1
<1>3. /\ hist[k + 1] \in [table : Seq(Entry), count : Nat]
      /\ hist[k + 2] \in [table : Seq(Entry), count : Nat]
    BY <1>1, <1>2, ElementOfSeq
<1>4. /\ hist[k + 1].count <= Len(sent) /\ hist[k + 2].count <= Len(sent)
      /\ AnySession!Denotes(out[k + 1], hist[k + 1], sent[hist[k + 2].count], hist[k + 2])
    BY <1>1, <1>2 DEF AnySession!HistoryInv
<1>5. /\ \A es, i : AnySession!Get(es, i) = Get(es, i)
      /\ \A es : AnySession!ValidIndex(es) = ValidIndex(es)
      /\ \A es, max : AnySession!Fit(es, max) = Fit(es, max)
      /\ \A es, fs : AnySession!Agrees(es, fs) = Agrees(es, fs)
    BY Zenon DEF AnySession!Agrees, Agrees, AnySession!ValidIndex, ValidIndex,
    AnySession!Get, Get, AnySession!DynamicTableStart, DynamicTableStart,
    AnySession!InvalidEntry, InvalidEntry, AnySession!Fit, Fit, AnySession!Fitting, Fitting,
    AnySession!Ledger, Ledger, AnySession!EntrySize, EntrySize, AnySession!Max, Max
<1>6. Denotes(out[k + 1], hist[k + 1], sent[hist[k + 2].count], hist[k + 2])
    BY <1>4, <1>5 DEF AnySession!Denotes, Denotes, AnySession!PushedOr, PushedOr
<1> QED  BY <1>3, <1>4, <1>6

\* A turn on all the octets of an instruction does what the encoder meant.
LEMMA TurnMeant ==
    ASSUME StepInv, AnySession!HistoryInv, NEW k \in 0 .. Len(out) - 1,
           DecoderAt(hist[k + 1]), CarriesOut(out[k + 1]),
           UNCHANGED << sent, hist >>
    PROVE  DecoderAt(hist[k + 2])'
<1>1. /\ hist[k + 1] \in [table : Seq(Entry), count : Nat]
      /\ hist[k + 2] \in [table : Seq(Entry), count : Nat]
      /\ hist[k + 2].count <= Len(sent)
      /\ Denotes(out[k + 1], hist[k + 1], sent[hist[k + 2].count], hist[k + 2])
    BY HistoryDenotes, Zenon
<1>2. Wireable(out[k + 1]) /\ sent \in Seq(Header)
  <2>1. k + 1 \in 1 .. Len(out)
      BY DEF StepInv, WrittenInv
  <2> QED  BY <2>1 DEF StepInv, WrittenInv
<1> DEFINE a == hist[k + 1]
           b == hist[k + 2]
           instr == out[k + 1]
<1> HIDE DEF a, b, instr
<1>3. CarriedOut(b)
    BY <1>1, <1>2, MeantIsDone DEF a, b, instr, MomentType
<1> QED  BY <1>3 DEF b, CarriedOut, DecoderAt, Agrees, Accounted

\* The decoder begins where the encoder began.
LEMMA PrefixReads ==
    ASSUME StepInv, AnySession!SessionInv, ReadFully
    PROVE  PrefixInv'
<1>1. /\ ~ fed /\ UNCHANGED << sent, out, hist, decTable, decoded >>
    BY DEF ReadFully, stdVars, Feed
<1>2. ~ cut /\ decTable = EmptyTable /\ decoded = << >>
    BY <1>1 DEF StepInv, ReadInv
<1>3. PICK m : Stands(0, m)' /\ (~ cut' => m = Len(LeftOctets(0)'))
    BY ReadStands
<1>4. hist[1].count = 0 /\ hist[1].table = << >>
    BY DEF AnySession!SessionInv, AnySession!HistoryInv, AnySession!Moment
<1>5. Accounted(decTable) /\ decTable \in Table
    BY <1>2, EmptyAccounted
<1>7. DecoderAt(hist[0 + 1])
  <2>1. decoded \in Seq(Entry) /\ Len(decoded) = 0 /\ 0 + 1 = 1
      BY <1>2
  <2>2. Agrees(<< >>, decTable.table)
      BY <1>2 DEF Agrees, EmptyTable
  <2> QED  BY <1>4, <1>5, <2>1, <2>2 DEF DecoderAt
<1>8. DecoderAt(hist[0 + 1])'
    BY <1>1, <1>7 DEF DecoderAt, Agrees, Accounted
<1> QED  BY <1>3, <1>8 DEF PrefixInv

\* A turn that spoils an instruction adds no more than the header it was
\* written for.
LEMMA TurnSpoils ==
    ASSUME StepInv, AnySession!HistoryInv, NEW k \in 0 .. Len(out) - 1,
           DecoderAt(hist[k + 1]), Spoils(out[k + 1]), ~ UNCHANGED unpackVars,
           sent' = sent
    PROVE  /\ buffer' = << >> /\ aborted' = aborted
           /\ Len(decoded') <= Len(sent')
           /\ \A i \in 1 .. Len(decoded') - 1 : decoded'[i] = sent'[i]
<1>1. /\ hist[k + 1].count \in Nat /\ hist[k + 2].count \in Nat
      /\ hist[k + 1].count <= Len(sent) /\ hist[k + 2].count <= Len(sent)
      /\ Denotes(out[k + 1], hist[k + 1], sent[hist[k + 2].count], hist[k + 2])
    BY HistoryDenotes
<1>2. /\ decoded \in Seq(Entry) /\ Len(decoded) = hist[k + 1].count
      /\ \A i \in 1 .. Len(decoded) : decoded[i] = sent[i]
  <2>1. decoded \in Seq(Entry)
      BY DEF StepInv, WireTypes
  <2> QED  BY <2>1 DEF DecoderAt
<1>3. Len(sent) \in Nat
    BY DEF StepInv, WrittenInv
<1>4. CASE /\ out[k + 1].op = "indexed"
           /\ \E i \in UInt : Deliver(Get(decTable.table, i), FALSE)
  <2>1. PICK e \in Entry : decoded' = Append(decoded, e)
    <3>1. PICK i \in UInt : decoded' = Append(decoded, Get(decTable.table, i))
        BY <1>4 DEF Deliver
    <3>2. Get(decTable.table, i) \in Entry
      <4>1. i \in Nat /\ decTable.table \in Seq(Entry)
          BY UIntType DEF StepInv, WireTypes, Table
      <4> QED  BY <4>1, AnyGetType
    <3> QED  BY <3>1, <3>2
  <2>2. /\ Len(decoded') = Len(decoded) + 1
        /\ \A i \in 1 .. Len(decoded) : decoded'[i] = decoded[i]
      BY <1>2, <2>1
  <2>3. hist[k + 2].count = hist[k + 1].count + 1
      BY <1>1, <1>4 DEF Denotes
  <2>4. Len(decoded') <= Len(sent) /\ Len(decoded') - 1 = Len(decoded)
      BY <1>1, <1>2, <1>3, <2>2, <2>3
  <2> QED  BY <1>2, <2>2, <2>4 DEF Spoils
<1>5. CASE decoded' = decoded
  <2>1. Len(decoded') <= Len(sent') /\ Len(decoded') \in Nat
      BY <1>1, <1>2, <1>5
  <2>2. \A i \in 1 .. Len(decoded') - 1 : i \in 1 .. Len(decoded)
      BY <1>5, <2>1
  <2> QED  BY <1>2, <1>5, <2>1, <2>2 DEF Spoils
<1> QED  BY <1>4, <1>5 DEF Spoils

\* Every turn goes on from what was decoded right, or spoils the last of it.
LEMMA PrefixTurns ==
    ASSUME StepInv, AnySession!HistoryInv, PrefixInv, DecoderTurn
    PROVE  PrefixInv'
<1>1. /\ Turn
      /\ UNCHANGED << sent, out, stdTable, stdMax, pieces, fed, cut, hist >>
    BY DEF DecoderTurn, stdVars
<1>2. buffer # << >> /\ ~ aborted
    BY <1>1 DEF Turn, TurnIndexed, TurnResize, TurnNamed, TurnLiteral, TurnAborts, Running
<1>3. fed
    BY <1>2 DEF StepInv, ReadInv
<1>4. PICK k, m : /\ Stands(k, m)
                  /\ ~ cut => m = Len(LeftOctets(k))
                  /\ DecoderAt(hist[k + 1])
    BY <1>2, <1>3 DEF PrefixInv
<1>5. \A j : LeftOctets(j)' = LeftOctets(j)
    BY <1>1 DEF LeftOctets, LeftFrom
<1>6. k \in 0 .. Len(out) - 1 /\ Len(out) \in Nat /\ k + 1 \in 0 .. Len(out)
      /\ (k + 1) + 1 = k + 2
  <2>1. k \in 0 .. Len(out) - 1
      BY <1>1, <1>4, TurnStands
  <2>2. Len(out) \in Nat
      BY DEF StepInv, WrittenInv
  <2> QED  BY <2>1, <2>2
<1>7. CASE /\ m - Len(pieces[k + 1]) \in 0 .. Len(LeftOctets(k + 1))
           /\ m = Len(LeftOctets(k))
                 => m - Len(pieces[k + 1]) = Len(LeftOctets(k + 1))
           /\ CarriesOut(out[k + 1])
           /\ buffer' = SubSeq(LeftOctets(k + 1), 1, m - Len(pieces[k + 1]))
  <2>1. PICK n \in 0 .. Len(LeftOctets(k + 1)) :
           /\ buffer' = SubSeq(LeftOctets(k + 1), 1, n)
           /\ ~ cut => n = Len(LeftOctets(k + 1))
      BY <1>4, <1>7
  <2>2. Stands(k + 1, n)' /\ (~ cut' => n = Len(LeftOctets(k + 1)'))
      BY <1>1, <1>5, <1>6, <2>1 DEF Stands
  <2>3. DecoderAt(hist[k + 2])'
      BY <1>1, <1>4, <1>6, <1>7, TurnMeant
  <2>4. DecoderAt(hist[(k + 1) + 1])'
      BY <1>6, <2>3
  <2> QED  BY <2>2, <2>4 DEF PrefixInv
<1>8. CASE UNCHANGED unpackVars
  <2>1. UNCHANGED << buffer, decTable, decoded >>
      BY <1>8 DEF unpackVars
  <2>2. Stands(k, m)' /\ (~ cut' => m = Len(LeftOctets(k)'))
      BY <1>1, <1>4, <1>5, <2>1 DEF Stands
  <2>3. DecoderAt(hist[k + 1])'
      BY <1>1, <1>4, <2>1 DEF DecoderAt, Agrees, Accounted
  <2> QED  BY <2>2, <2>3 DEF PrefixInv
<1>9. CASE m # Len(LeftOctets(k)) /\ Spoils(out[k + 1])
  <2>1. cut /\ cut'
      BY <1>1, <1>4, <1>9
  <2>2. ASSUME ~ UNCHANGED unpackVars
        PROVE  PrefixInv'
    <3>1. /\ buffer' = << >> /\ aborted' = aborted
          /\ Len(decoded') <= Len(sent')
          /\ \A i \in 1 .. Len(decoded') - 1 : decoded'[i] = sent'[i]
        BY <1>1, <1>4, <1>6, <1>9, <2>2, TurnSpoils
    <3> QED  BY <1>2, <2>1, <3>1 DEF PrefixInv
  <2> QED  BY <1>8, <2>2
<1> QED  BY <1>1, <1>4, <1>7, <1>8, <1>9, TurnStands

\* Every step keeps it.
LEMMA PrefixStep ==
    StepInv /\ AnySession!SessionInv /\ PrefixInv /\ [WireSessionNext]_wireSessionVars
        => PrefixInv'
<1> SUFFICES ASSUME StepInv, AnySession!SessionInv, PrefixInv, [WireSessionNext]_wireSessionVars
             PROVE  PrefixInv'
    OBVIOUS
<1>1. CASE EncoderWrites
    BY <1>1 DEF EncoderWrites, PrefixInv
<1>2. CASE ReadFully
    BY <1>2, PrefixReads
<1>3. CASE DecoderTurn
    BY <1>3, PrefixTurns DEF AnySession!SessionInv
<1>4. CASE UNCHANGED wireSessionVars
  <2>1. UNCHANGED << sent, out, pieces, fed, cut, hist, aborted, buffer, decTable, decoded >>
      BY <1>4 DEF wireSessionVars, stdVars, wireVars, unpackVars
  <2>2. \A k, m : (Stands(k, m)' <=> Stands(k, m)) /\ LeftOctets(k)' = LeftOctets(k)
      BY <2>1 DEF Stands, LeftOctets, LeftFrom
  <2>3. \A k : DecoderAt(hist[k + 1])' <=> DecoderAt(hist[k + 1])
      BY <2>1 DEF DecoderAt, Agrees, Accounted
  <2> QED  BY <2>1, <2>2, <2>3 DEF PrefixInv
<1> QED  BY <1>1, <1>2, <1>3, <1>4 DEF WireSessionNext, Ended

\* It holds before anything is read.
LEMMA PrefixInit == WireSessionInit => PrefixInv
<1> SUFFICES ASSUME WireSessionInit  PROVE ~ fed
    BY DEF PrefixInv
<1> QED  BY Zenon DEF WireSessionInit

\* The first headers decoded are a beginning of those encoded.
LEMMA BeginningIsPrefix ==
    ASSUME NEW d \in Seq(Entry), NEW h \in Seq(Entry), NEW n \in 0 .. Len(d),
           n <= Len(h), \A i \in 1 .. n : d[i] = h[i]
    PROVE  IsPrefix(SubSeq(d, 1, n), h)
<1>1. /\ SubSeq(d, 1, n) \in Seq(Entry) /\ Len(SubSeq(d, 1, n)) = n
      /\ \A i \in 1 .. n : SubSeq(d, 1, n)[i] = h[i]
    OBVIOUS
<1> DEFINE s == SubSeq(d, 1, n)
<1> HIDE DEF s
<1>2. s \in Seq(Entry) /\ Len(s) <= Len(h) /\ \A i \in 1 .. Len(s) : s[i] = h[i]
    BY <1>1 DEF s
<1>3. IsPrefix(s, h)
    BY <1>2 DEF IsPrefix
<1> QED  BY <1>3 DEF s

\* Wherever the input ends, what is printed is what was encoded, but for the
\* last header where an index was cut short (unpack.h:71, 84, 89).
THEOREM CutPrintsPrefix == WireSessionSpec => []CutKeepsPrefix
<1>1. AnySession!SessionSpec => []AnySession!SessionInv
    BY AnyTableAssumption, AnyHeaderAssumption, OctetAssumption, AnySession!SessionInvariant, PTL
<1>2. WireSessionSpec => []AnySession!SessionInv
    BY <1>1, WireIsSession, PTL
<1>3. WireSessionSpec => []PrefixInv
    BY <1>2, PrefixInit, PrefixStep, StepInvariant, PTL DEF WireSessionSpec
<1>4. StepInv /\ AnySession!SessionInv /\ PrefixInv => CutKeepsPrefix
  <2> SUFFICES ASSUME StepInv, AnySession!SessionInv, PrefixInv  PROVE CutKeepsPrefix
      OBVIOUS
  <2>1. /\ decoded \in Seq(Entry) /\ Len(decoded) \in Nat
        /\ sent \in Seq(Entry) /\ Len(sent) \in Nat
      BY HeaderAssumption DEF StepInv, WireTypes, WrittenInv
  <2>2. /\ SubSeq(decoded, 1, Len(decoded)) = decoded
        /\ Front(decoded) = SubSeq(decoded, 1, Len(decoded) - 1)
        /\ decoded # << >> => Len(decoded) - 1 \in 0 .. Len(decoded)
      BY <2>1, EmptySeq DEF Front
  <2>3. ASSUME Len(decoded) <= Len(sent),
               \A i \in 1 .. Len(decoded) - 1 : decoded[i] = sent[i],
               decoded # << >>
        PROVE  IsPrefix(Front(decoded), sent)
    <3>1. Len(decoded) - 1 \in 0 .. Len(decoded) /\ Len(decoded) - 1 <= Len(sent)
        BY <2>1, <2>2, <2>3
    <3>2. IsPrefix(SubSeq(decoded, 1, Len(decoded) - 1), sent)
        BY <2>1, <2>3, <3>1, BeginningIsPrefix
    <3> QED  BY <2>2, <3>2
  <2>4. ASSUME Len(decoded) <= Len(sent), \A i \in 1 .. Len(decoded) : decoded[i] = sent[i]
        PROVE  CutKeepsPrefix
    <3>1. IsPrefix(decoded, sent)
      <4>1. Len(decoded) \in 0 .. Len(decoded)
          BY <2>1
      <4> QED  BY <2>1, <2>2, <2>4, <4>1, BeginningIsPrefix
    <3>2. \A i \in 1 .. Len(decoded) - 1 : decoded[i] = sent[i]
        BY <2>1, <2>4
    <3> QED  BY <2>3, <2>4, <3>1, <3>2 DEF CutKeepsPrefix
  <2>5. CASE ~ fed
    <3>1. decoded = << >>
        BY <2>5 DEF StepInv, ReadInv
    <3> QED  BY <2>1, <2>4, <3>1
  <2>6. ASSUME NEW k, NEW m, Stands(k, m), DecoderAt(hist[k + 1])
        PROVE  CutKeepsPrefix
    <3>1. k \in 0 .. Len(out) /\ Len(hist) = Len(out) + 1 /\ Len(out) \in Nat
        BY <2>6 DEF Stands, StepInv, WrittenInv, AnySession!SessionInv, AnySession!HistoryInv
    <3>2. k + 1 \in 1 .. Len(hist)
        BY <3>1
    <3>3. hist[k + 1].count <= Len(sent)
        BY <3>2 DEF AnySession!SessionInv, AnySession!HistoryInv
    <3> QED  BY <2>4, <2>6, <3>3 DEF DecoderAt
  <2>7. CASE /\ cut /\ ~ aborted /\ buffer = << >>
             /\ Len(decoded) <= Len(sent)
             /\ \A i \in 1 .. Len(decoded) - 1 : decoded[i] = sent[i]
    <3>1. CASE decoded = << >>
        BY <2>1, <2>4, <3>1
    <3>2. CASE decoded # << >>
        BY <2>3, <2>7, <3>2 DEF CutKeepsPrefix
    <3> QED  BY <3>1, <3>2
  <2> QED  BY <2>5, <2>6, <2>7 DEF PrefixInv
<1> QED  BY <1>2, <1>3, <1>4, StepInvariant, PTL
=============================================================================
