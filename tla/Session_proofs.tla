---------------------------- MODULE Session_proofs ----------------------------
(***************************************************************************)
(* Theorems about any standard encoder and the decoder of unpack.h.  The   *)
(* invariant relates the decoder to the past of the encoder: at position   *)
(* p, the decoder's table begins with the table the encoder had when it    *)
(* wrote instruction p, and each instruction still denotes, for a reader   *)
(* with that table, the header it was written for.                         *)
(***************************************************************************)
EXTENDS Session, DataLemmas

\* Every instruction in the output denotes its header at its moment.
HistoryInv ==
    /\ Len(hist) = Len(out) + 1
    /\ hist[1] = Moment(<< >>, << >>)
    /\ hist[Len(out) + 1] = Moment(stdTable, sent)
    /\ \A k \in 1 .. Len(hist) : hist[k].count <= Len(sent)
    /\ \A k \in 1 .. Len(out) : Denotes(out[k], hist[k], sent[hist[k + 1].count], hist[k + 1])

\* The decoder is where the encoder was, Position instructions into its past.
DecoderInv ==
    /\ IF fed THEN /\ Len(buffer) <= Len(out)
                   /\ \A k \in 1 .. Len(buffer) : buffer[k] = out[Position + k]
       ELSE buffer = << >>
    /\ Len(decoded) = hist[Position + 1].count
    /\ \A k \in 1 .. Len(decoded) : decoded[k] = sent[k]
    /\ Agrees(hist[Position + 1].table, decTable.table)
    /\ Accounted(decTable)

SessionInv == SessionTypeOK /\ HistoryInv /\ DecoderInv

-----------------------------------------------------------------------------

-----------------------------------------------------------------------------
(* Type correctness.                                                       *)

\* The four constructors yield instructions.
LEMMA InstructionTypes ==
    /\ \A i \in Nat \ {0} : Indexed(i) \in Instruction
    /\ \A push \in BOOLEAN, i \in Nat \ {0}, v \in Value :
          NamedByIndex(push, i, v) \in Instruction
    /\ \A push \in BOOLEAN, e \in Entry : Literal(push, e) \in Instruction
    /\ \A max \in 0 .. UIntRange - 1 : Resize(max) \in Instruction
BY DEF Instruction, Indexed, NamedByIndex, Literal, Resize

\* The fields unpack() reads of each form of instruction have their types.
LEMMA InstructionFields ==
    ASSUME NEW instr \in Instruction
    PROVE  /\ instr.op \in {"indexed", "named", "literal", "resize"}
           /\ instr.op = "indexed" => instr.index \in Nat \ {0}
           /\ instr.op = "named" => /\ instr.index \in Nat \ {0}
                                    /\ instr.push \in BOOLEAN
                                    /\ instr.value \in Value
           /\ instr.op = "literal" => /\ instr.push \in BOOLEAN
                                      /\ instr.header \in Entry
           /\ instr.op = "resize" => instr.max \in 0 .. UIntRange - 1
BY DEF Instruction

\* What an encoding step writes, whatever form it takes.
Encoded(h, instr) ==
    /\ sent' = Append(sent, h)
    /\ out' = Append(out, instr)
    /\ stdMax' = stdMax
    /\ stdTable' \in Seq(Entry)
    /\ instr \in Instruction
    /\ Denotes(instr, Moment(stdTable, sent), h, Moment(stdTable', Append(sent, h)))

\* What the standard encoder does to its table is what the push flag says.
LEMMA PushDenotes ==
    ASSUME SessionTypeOK, NEW h \in Header, NEW push \in BOOLEAN, MaybeInsert(push, h)
    PROVE  /\ stdTable' \in Seq(Entry)
           /\ stdMax' = stdMax
           /\ \A n, c : PushedOr(Moment(stdTable, n), push, h, Moment(stdTable', c))
<1>1. stdTable \in Seq(Entry) /\ stdMax \in Nat /\ h \in Entry
    BY HeaderAssumption DEF SessionTypeOK
<1>2. CASE push
    BY <1>1, <1>2, InsertType DEF MaybeInsert, PushedOr, Moment
<1>3. CASE ~ push
    BY <1>1, <1>3 DEF MaybeInsert, PushedOr, Moment
<1> QED  BY <1>2, <1>3
\* Whatever form the encoder chooses, what it writes denotes the header.
LEMMA EncodeWrites ==
    ASSUME SessionTypeOK, NEW h \in Header, StdEncode(h)
    PROVE  \E instr : Encoded(h, instr)
<1>1. /\ stdTable \in Seq(Entry) /\ sent \in Seq(Header)
      /\ h \in Entry /\ h.value \in Value
      /\ Len(Append(sent, h)) = Len(sent) + 1
    BY HeaderAssumption DEF SessionTypeOK, Entry
<1>2. CASE StdIndexed(h)
  <2>1. PICK i \in ValidIndex(stdTable) :
           /\ Get(stdTable, i) = h
           /\ Write(h, Indexed(i))
           /\ MaybeInsert(FALSE, h)
      BY <1>2 DEF StdIndexed
  <2>2. Indexed(i) \in Instruction
      BY <1>1, <2>1, GetType, InstructionTypes
  <2>3. stdTable' = stdTable /\ stdMax' = stdMax
      BY <2>1 DEF MaybeInsert
  <2>4. Encoded(h, Indexed(i))
      BY <1>1, <2>1, <2>2, <2>3 DEF Encoded, Write, Denotes, Moment, Indexed
  <2> QED  BY <2>4
<1>3. CASE StdNamed(h)
  <2>1. PICK i \in ValidIndex(stdTable), push \in BOOLEAN :
           /\ Get(stdTable, i).name = h.name
           /\ Write(h, NamedByIndex(push, i, h.value))
           /\ MaybeInsert(push, h)
      BY <1>3 DEF StdNamed
  <2>2. NamedByIndex(push, i, h.value) \in Instruction
      BY <1>1, <2>1, GetType, InstructionTypes
  <2>3. h = [name |-> h.name, value |-> h.value]
      BY <1>1 DEF Entry
  <2>4. /\ stdTable' \in Seq(Entry) /\ stdMax' = stdMax
        /\ \A n, c : PushedOr(Moment(stdTable, n), push, h, Moment(stdTable', c))
      BY <2>1, PushDenotes
  <2>5. Denotes(NamedByIndex(push, i, h.value), Moment(stdTable, sent), h,
                Moment(stdTable', Append(sent, h)))
    <3>1. PushedOr(Moment(stdTable, sent), push, h, Moment(stdTable', Append(sent, h)))
        BY <2>4
    <3> QED  BY <1>1, <2>1, <2>3, <3>1 DEF Denotes, Moment, NamedByIndex
  <2>6. Encoded(h, NamedByIndex(push, i, h.value))
      BY <2>1, <2>2, <2>4, <2>5 DEF Encoded, Write
  <2> QED  BY <2>6
<1>4. CASE StdLiteral(h)
  <2>1. PICK push \in BOOLEAN : Write(h, Literal(push, h)) /\ MaybeInsert(push, h)
      BY <1>4 DEF StdLiteral
  <2>2. Literal(push, h) \in Instruction
      BY <1>1, InstructionTypes
  <2>3. /\ stdTable' \in Seq(Entry) /\ stdMax' = stdMax
        /\ \A n, c : PushedOr(Moment(stdTable, n), push, h, Moment(stdTable', c))
      BY <2>1, PushDenotes
  <2>4. Denotes(Literal(push, h), Moment(stdTable, sent), h,
                Moment(stdTable', Append(sent, h)))
    <3>1. PushedOr(Moment(stdTable, sent), push, h, Moment(stdTable', Append(sent, h)))
        BY <2>3
    <3> QED  BY <1>1, <3>1 DEF Denotes, Moment, Literal
  <2>5. Encoded(h, Literal(push, h))
      BY <2>1, <2>2, <2>3, <2>4 DEF Encoded, Write
  <2> QED  BY <2>5
<1> QED  BY <1>2, <1>3, <1>4 DEF StdEncode

\* Both kinds of encoding step: headers is what has been encoded after it.
Wrote(instr, headers) ==
    /\ sent' = headers
    /\ headers \in Seq(Header)
    /\ Len(sent) <= Len(headers)
    /\ \A k \in 1 .. Len(sent) : headers[k] = sent[k]
    /\ out' = Append(out, instr)
    /\ hist' = Append(hist, Moment(stdTable', headers))
    /\ UNCHANGED << buffer, decTable, maxDynamicSize, decoded, fed >>
    /\ fed = FALSE
    /\ stdTable' \in Seq(Entry)
    /\ stdMax' \in 0 .. SizeLimit
    /\ instr \in Instruction
    /\ Denotes(instr, Moment(stdTable, sent), headers[Len(headers)],
               Moment(stdTable', headers))

\* The same for every step of the encoder, size updates included.
LEMMA EncoderWrites ==
    ASSUME SessionTypeOK, EncoderStep
    PROVE  \E instr, headers : Wrote(instr, headers)
<1>1. /\ stdTable \in Seq(Entry) /\ sent \in Seq(Header) /\ stdMax \in 0 .. SizeLimit
      /\ fed \in BOOLEAN
    BY DEF SessionTypeOK
<1>2. /\ hist' = Append(hist, Moment(stdTable', sent'))
      /\ UNCHANGED << buffer, decTable, maxDynamicSize, decoded, fed >>
      /\ fed = FALSE
    BY <1>1 DEF EncoderStep, unpackVars
<1>3. ASSUME NEW h \in Header, StdEncode(h)  PROVE \E instr, headers : Wrote(instr, headers)
  <2>1. PICK instr : Encoded(h, instr)
      BY <1>3, EncodeWrites
  <2>2. /\ Append(sent, h) \in Seq(Header)
        /\ Len(Append(sent, h)) = Len(sent) + 1
        /\ Append(sent, h)[Len(sent) + 1] = h
        /\ \A k \in 1 .. Len(sent) : Append(sent, h)[k] = sent[k]
      BY <1>1
  <2>3. Len(sent) \in Nat
      BY <1>1
  <2>4. Wrote(instr, Append(sent, h))
      BY <1>1, <1>2, <2>1, <2>2, <2>3 DEF Encoded, Wrote
  <2> QED  BY <2>4
<1>4. ASSUME NEW max \in Sizes, StdResize(max)  PROVE \E instr, headers : Wrote(instr, headers)
  <2>1. max \in 0 .. SizeLimit /\ max \in Nat /\ max \in 0 .. UIntRange - 1
      BY HeaderAssumption, TableAssumption
  <2>2. stdTable' \in Seq(Entry)
      BY <1>1, <1>4, <2>1, FitType DEF StdResize
  <2>3. Resize(max) \in Instruction
      BY <2>1, InstructionTypes
  <2>4. Denotes(Resize(max), Moment(stdTable, sent), sent[Len(sent)], Moment(stdTable', sent))
      BY <1>4, <2>1 DEF StdResize, Denotes, Moment, Resize
  <2>5. Len(sent) \in Nat
      BY <1>1
  <2>6. Wrote(Resize(max), sent)
      BY <1>1, <1>2, <1>4, <2>1, <2>2, <2>3, <2>4, <2>5 DEF StdResize, Wrote
  <2> QED  BY <2>6
<1> QED  BY <1>3, <1>4 DEF EncoderStep, StdNext
\* The initial state has its type.
LEMMA TypeInit == SessionInit => SessionTypeOK
<1> SUFFICES ASSUME SessionInit  PROVE SessionTypeOK
    OBVIOUS
<1>1. EmptyTable \in Table
    BY DEF EmptyTable, Table
<1>2. Moment(<< >>, << >>) \in [table : Seq(Entry), count : Nat]
    BY DEF Moment
<1>3. SizeLimit \in 0 .. SizeLimit /\ SizeLimit \in 0 .. UIntRange - 1
    BY HeaderAssumption, TableAssumption
<1>4. hist \in Seq([table : Seq(Entry), count : Nat])
    BY <1>2 DEF SessionInit
<1>5. /\ sent \in Seq(Header) /\ out \in Seq(Instruction) /\ stdTable \in Seq(Entry)
      /\ stdMax \in 0 .. SizeLimit
    BY <1>3 DEF SessionInit, StdInit
<1>6. /\ buffer \in Seq(Instruction) /\ decTable \in Table /\ decoded \in Seq(Entry)
      /\ maxDynamicSize \in 0 .. UIntRange - 1
    BY <1>1, <1>3 DEF SessionInit, UnpackInit
<1>7. fed \in BOOLEAN
    BY Zenon DEF SessionInit
<1> QED  BY <1>4, <1>5, <1>6, <1>7 DEF SessionTypeOK

\* Every step keeps the types.
LEMMA TypeStep == SessionTypeOK /\ [SessionNext]_sessionVars => SessionTypeOK'
<1> SUFFICES ASSUME SessionTypeOK, [SessionNext]_sessionVars
             PROVE  SessionTypeOK'
    OBVIOUS
<1>1. CASE EncoderStep
  <2>1. PICK instr, headers : Wrote(instr, headers)
      BY <1>1, EncoderWrites
  <2>2. Moment(stdTable', headers) \in [table : Seq(Entry), count : Nat]
      BY <2>1 DEF Wrote, Moment
  <2> QED  BY <2>1, <2>2 DEF Wrote, SessionTypeOK
<1>2. CASE ReadFully
    BY <1>2 DEF ReadFully, Feed, SessionTypeOK, stdVars
<1>3. CASE DecoderStep
  <2>1. UNCHANGED << sent, out, stdTable, stdMax, fed, hist >>
      BY <1>3 DEF DecoderStep, stdVars
  <2> DEFINE instr == Head(buffer)
  <2>2. ASSUME NEW op, Consume(op)
        PROVE  instr \in Instruction /\ instr.op = op /\ buffer' \in Seq(Instruction)
      BY <2>2 DEF Consume, SessionTypeOK
  <2>3. ASSUME NEW e \in Entry, NEW push \in BOOLEAN, Deliver(e, push)
        PROVE  /\ decoded' \in Seq(Entry) /\ decTable' \in Table
               /\ maxDynamicSize' = maxDynamicSize
      BY <2>3, PushType DEF Deliver, SessionTypeOK
  <2>4. \A i \in Nat : Get(decTable.table, i) \in Entry
      BY AnyGetType DEF SessionTypeOK, Table
  <2> HIDE DEF instr
  <2>5. CASE UnpackIndexed
    <3>1. instr \in Instruction /\ instr.op = "indexed" /\ buffer' \in Seq(Instruction)
        BY <2>2, <2>5 DEF UnpackIndexed
    <3>2. Get(decTable.table, instr.index) \in Entry
        BY <2>4, <3>1, InstructionFields
    <3>3. Deliver(Get(decTable.table, instr.index), FALSE)
        BY <2>5 DEF UnpackIndexed, instr
    <3> QED  BY <2>1, <2>3, <3>1, <3>2, <3>3 DEF SessionTypeOK
  <2>6. CASE UnpackNamed
    <3>1. instr \in Instruction /\ instr.op = "named" /\ buffer' \in Seq(Instruction)
        BY <2>2, <2>6 DEF UnpackNamed
    <3> DEFINE e == [name |-> Get(decTable.table, instr.index).name, value |-> instr.value]
    <3>2. e \in Entry /\ instr.push \in BOOLEAN
        BY <2>4, <3>1, InstructionFields DEF Entry
    <3>3. Deliver(e, instr.push)
        BY <2>6 DEF UnpackNamed, instr
    <3> QED  BY <2>1, <2>3, <3>1, <3>2, <3>3 DEF SessionTypeOK
  <2>7. CASE UnpackLiteral
    <3>1. instr \in Instruction /\ instr.op = "literal" /\ buffer' \in Seq(Instruction)
        BY <2>2, <2>7 DEF UnpackLiteral
    <3>2. instr.header \in Entry /\ instr.push \in BOOLEAN
        BY <3>1, InstructionFields
    <3>3. Deliver(instr.header, instr.push)
        BY <2>7 DEF UnpackLiteral, instr
    <3> QED  BY <2>1, <2>3, <3>1, <3>2, <3>3 DEF SessionTypeOK
  <2>8. CASE UnpackResize
    <3>1. instr \in Instruction /\ instr.op = "resize" /\ buffer' \in Seq(Instruction)
        BY <2>2, <2>8 DEF UnpackResize
    <3>2. instr.max \in 0 .. UIntRange - 1 /\ instr.max \in Nat
        BY <3>1, InstructionFields, TableAssumption
    <3>3. Shrink(decTable, instr.max) \in Table
        BY <3>2, ShrinkType DEF SessionTypeOK
    <3> QED  BY <2>1, <2>8, <3>1, <3>2, <3>3 DEF UnpackResize, instr, SessionTypeOK
  <2> QED  BY <1>3, <2>5, <2>6, <2>7, <2>8 DEF DecoderStep, UnpackNext
<1>4. CASE UNCHANGED sessionVars
    BY <1>4 DEF sessionVars, stdVars, unpackVars, SessionTypeOK
<1> QED  BY <1>1, <1>2, <1>3, <1>4 DEF SessionNext, Exited

\* Both ends keep tables, sizes and messages of the right kind, whatever the
\* encoder chooses and however the decoder's size wraps.
THEOREM SessionTypeCorrect == SessionSpec => []SessionTypeOK
<1>1. SessionInit => SessionTypeOK
    BY TypeInit
<1>2. SessionTypeOK /\ [SessionNext]_sessionVars => SessionTypeOK'
    BY TypeStep
<1> QED  BY <1>1, <1>2, PTL DEF SessionSpec

-----------------------------------------------------------------------------
(* The inductive invariant.                                                *)

\* The invariant holds at the start.
LEMMA InvInit == SessionInit => SessionInv
<1> SUFFICES ASSUME SessionInit  PROVE SessionInv
    OBVIOUS
<1>1. /\ out = << >> /\ sent = << >> /\ stdTable = << >> /\ Len(out) = 0 /\ Len(sent) = 0
      /\ hist = << Moment(<< >>, << >>) >> /\ Len(hist) = 1 /\ hist[1] = Moment(<< >>, << >>)
    BY DEF SessionInit, StdInit
<1>2. buffer = << >> /\ decTable = EmptyTable /\ decoded = << >> /\ Len(decoded) = 0
    BY DEF SessionInit, UnpackInit
<1>3. ~ fed
    BY Zenon DEF SessionInit
<1>4. HistoryInv
    BY <1>1 DEF HistoryInv, Moment
<1>5. Accounted(EmptyTable)
  <2>1. Bytes(<< >>) = 0
    <3>1. << >> \in Seq(Entry) /\ Len(<< >>) = 0
        OBVIOUS
    <3>2. Ledger(<< >>)[0] = 0
        BY <3>1, LedgerType
    <3> QED  BY <3>1, <3>2 DEF Bytes
  <2>2. 0 \in 0 .. UIntRange - 1 /\ UIntRange \in Nat \ {0}
      BY TableAssumption
  <2>3. 0 % UIntRange = 0
      BY <2>2, ModFacts
  <2> QED  BY <2>1, <2>3 DEF Accounted, EmptyTable
<1>6. DecoderInv
    BY <1>1, <1>2, <1>3, <1>5 DEF DecoderInv, Position, Agrees, Moment, EmptyTable
<1> QED  BY <1>4, <1>6, TypeInit DEF SessionInv

\* An encoder step extends the history and does not touch the decoder.
LEMMA HistoryStep ==
    ASSUME SessionInv, EncoderStep
    PROVE  HistoryInv' /\ DecoderInv'
<1>1. PICK instr, headers : Wrote(instr, headers)
    BY EncoderWrites DEF SessionInv
<1> DEFINE n == Len(out)
           m == Moment(stdTable', headers)
<1>2. /\ n \in Nat
      /\ Len(hist) = n + 1 /\ Len(out') = n + 1 /\ Len(hist') = n + 2
      /\ \A k \in 1 .. n : out'[k] = out[k]
      /\ out'[n + 1] = instr
      /\ \A k \in 1 .. n + 1 : hist'[k] = hist[k]
      /\ hist'[n + 2] = m
  <2>1. out \in Seq(Instruction) /\ instr \in Instruction /\ out' = Append(out, instr)
      BY <1>1 DEF SessionInv, SessionTypeOK, Wrote
  <2>2. /\ hist \in Seq([table : Seq(Entry), count : Nat])
        /\ Len(hist) = n + 1 /\ hist' = Append(hist, m)
      BY <1>1 DEF SessionInv, SessionTypeOK, HistoryInv, Wrote
  <2> HIDE DEF m
  <2>3. n \in Nat /\ Len(out') = n + 1 /\ out'[n + 1] = instr
        /\ \A k \in 1 .. n : out'[k] = out[k]
      BY <2>1
  <2> HIDE DEF n
  <2>4. /\ Len(hist') = n + 2 /\ hist'[n + 2] = m
        /\ \A k \in 1 .. n + 1 : hist'[k] = hist[k]
      BY <2>2, <2>3
  <2> QED  BY <2>2, <2>3, <2>4
<1>3. /\ Len(sent) \in Nat /\ Len(headers) \in Nat /\ Len(sent) <= Len(headers)
      /\ sent' = headers
      /\ \A k \in 1 .. Len(sent) : headers[k] = sent[k]
      /\ stdTable' \in Seq(Entry)
    BY <1>1 DEF SessionInv, SessionTypeOK, Wrote
<1>4. ASSUME NEW k \in 1 .. n + 1  PROVE hist[k].count \in 0 .. Len(sent)
  <2>1. hist[k] \in [table : Seq(Entry), count : Nat]
    <3>1. hist \in Seq([table : Seq(Entry), count : Nat]) /\ k \in 1 .. Len(hist)
        BY <1>2 DEF SessionInv, SessionTypeOK
    <3> QED  BY <3>1, ElementOfSeq, Zenon
  <2>2. hist[k].count <= Len(sent)
      BY <1>2 DEF SessionInv, HistoryInv
  <2> QED  BY <1>3, <2>1, <2>2
<1>5. m.count = Len(headers) /\ m.table = stdTable'
    BY DEF Moment
<1> HIDE DEF n, m
<1>6. \A k \in 1 .. Len(hist') : hist'[k].count <= Len(sent')
  <2> SUFFICES ASSUME NEW k \in 1 .. n + 2  PROVE hist'[k].count <= Len(headers)
      BY <1>2, <1>3
  <2>1. CASE k = n + 2
      BY <1>2, <1>3, <1>5, <2>1
  <2>2. CASE k # n + 2
    <3>1. k \in 1 .. n + 1
        BY <1>2, <2>2
    <3> QED  BY <1>2, <1>3, <1>4, <3>1
  <2> QED  BY <2>1, <2>2
<1>7. ASSUME NEW k \in 1 .. n + 1
      PROVE  Denotes(out'[k], hist'[k], sent'[hist'[k + 1].count], hist'[k + 1])
  <2>1. CASE k = n + 1
    <3>1. hist'[k] = Moment(stdTable, sent) /\ hist'[k + 1] = m /\ out'[k] = instr
      <4>1. n + 1 \in 1 .. n + 1 /\ k + 1 = n + 2
          BY <1>2, <2>1
      <4> QED  BY <1>2, <2>1, <4>1 DEF SessionInv, HistoryInv, n
    <3>2. Denotes(instr, Moment(stdTable, sent), headers[Len(headers)], m)
        BY <1>1 DEF Wrote, m
    <3> QED  BY <1>3, <1>5, <3>1, <3>2
  <2>2. CASE k # n + 1
    <3>1. k \in 1 .. n /\ k \in 1 .. n + 1 /\ k + 1 \in 1 .. n + 1
        BY <1>2, <2>2
    <3>2. hist'[k] = hist[k] /\ hist'[k + 1] = hist[k + 1] /\ out'[k] = out[k]
        BY <1>2, <3>1
    <3>3. Denotes(out[k], hist[k], sent[hist[k + 1].count], hist[k + 1])
        BY <3>1 DEF SessionInv, HistoryInv, n
    <3>4. CASE hist[k + 1].count = 0
      <4>1. hist[k].count \in Nat
          BY <1>4, <3>1
      <4>2. out[k].op = "resize"
          BY <3>3, <3>4, <4>1 DEF Denotes
      <4> QED  BY <3>2, <3>3, <4>2 DEF Denotes
    <3>5. CASE hist[k + 1].count # 0
      <4>1. hist[k + 1].count \in 1 .. Len(sent)
          BY <1>3, <1>4, <3>1, <3>5
      <4> QED  BY <1>3, <3>2, <3>3, <4>1
    <3> QED  BY <3>4, <3>5
  <2> QED  BY <2>1, <2>2
<1>8. HistoryInv'
  <2>1. hist'[1] = Moment(<< >>, << >>)
      BY <1>2 DEF SessionInv, HistoryInv
  <2>2. hist'[Len(out') + 1] = Moment(stdTable', sent')
      BY <1>2, <1>3 DEF m
  <2> QED  BY <1>2, <1>6, <1>7, <2>1, <2>2 DEF HistoryInv
<1>9. DecoderInv'
  <2>1. ~ fed /\ ~ fed' /\ UNCHANGED << buffer, decTable, decoded >>
      BY <1>1 DEF Wrote
  <2>2. Position = 0 /\ Position' = 0
      BY <2>1 DEF Position
  <2>3. hist'[1] = hist[1]
      BY <1>2
  <2>4. /\ buffer = << >>
        /\ Len(decoded) = hist[1].count
        /\ \A k \in 1 .. Len(decoded) : decoded[k] = sent[k]
        /\ Agrees(hist[1].table, decTable.table)
        /\ Accounted(decTable)
      BY <2>1, <2>2 DEF SessionInv, DecoderInv
  <2>5. hist[1].count = 0
      BY DEF SessionInv, HistoryInv, Moment
  <2> QED  BY <2>1, <2>2, <2>3, <2>4, <2>5 DEF DecoderInv, Accounted, Agrees
<1> QED  BY <1>8, <1>9
\* Feeding the input gives the decoder every instruction, in order
\* (unpack.h:108-110).
LEMMA ReadFullyStep ==
    ASSUME SessionInv, ReadFully
    PROVE  HistoryInv' /\ DecoderInv'
<1>1. /\ ~ fed /\ fed' /\ buffer' = buffer \o out
      /\ UNCHANGED << decTable, decoded, sent, out, stdTable, hist >>
    BY DEF ReadFully, Feed, stdVars
<1>2. buffer = << >> /\ out \in Seq(Instruction)
    BY <1>1 DEF SessionInv, SessionTypeOK, DecoderInv
<1>3. buffer' = out
    BY <1>1, <1>2, ConcatEmptySeq
<1>4. Position = 0 /\ Position' = 0
    BY <1>1, <1>2, <1>3 DEF Position
<1>5. HistoryInv'
    BY <1>1 DEF SessionInv, HistoryInv
<1>6. DecoderInv'
    BY <1>1, <1>2, <1>3, <1>4 DEF SessionInv, DecoderInv, Accounted, Agrees
<1> QED  BY <1>5, <1>6

\* Where the decoder stands: in front of an instruction of out, between the
\* moments at which it was about to be written and had been written.
LEMMA DecoderStands ==
    ASSUME SessionInv, DecoderStep
    PROVE  LET p == Position IN
           /\ fed
           /\ p \in Nat /\ p + 1 \in 1 .. Len(out)
           /\ Head(buffer) \in Instruction
           /\ Head(buffer) = out[p + 1]
           /\ Position' = p + 1
           /\ hist[p + 1] \in [table : Seq(Entry), count : Nat]
           /\ hist[p + 2] \in [table : Seq(Entry), count : Nat]
           /\ hist[p + 2].count <= Len(sent)
           /\ Denotes(Head(buffer), hist[p + 1], sent[hist[p + 2].count], hist[p + 2])
           /\ UNCHANGED << sent, out, stdTable, hist, fed >>
           /\ Len(buffer') <= Len(out)
           /\ \A k \in 1 .. Len(buffer') : buffer'[k] = out[p + 1 + k]
<1> DEFINE p == Position
<1>1. buffer # << >> /\ buffer' = Tail(buffer) /\ UNCHANGED << sent, out, stdTable, hist, fed >>
    BY DEF DecoderStep, UnpackNext, UnpackIndexed, UnpackNamed, UnpackLiteral,
           UnpackResize, Consume, stdVars
<1>2. fed
    BY <1>1 DEF SessionInv, DecoderInv
<1>3. /\ buffer \in Seq(Instruction) /\ out \in Seq(Instruction)
      /\ hist \in Seq([table : Seq(Entry), count : Nat])
    BY DEF SessionInv, SessionTypeOK
<1>4. p = Len(out) - Len(buffer)
    BY <1>2 DEF Position
<1>5. /\ Len(buffer) <= Len(out)
      /\ \A k \in 1 .. Len(buffer) : buffer[k] = out[p + k]
    BY <1>2 DEF SessionInv, DecoderInv
<1> HIDE DEF p
<1>6. /\ Len(buffer) \in Nat \ {0} /\ Len(out) \in Nat
      /\ Head(buffer) \in Instruction /\ Head(buffer) = buffer[1]
      /\ Len(buffer') = Len(buffer) - 1
      /\ \A k \in 1 .. Len(buffer') : buffer'[k] = buffer[k + 1]
    BY <1>1, <1>3
<1>7. p \in Nat /\ p + 1 \in 1 .. Len(out) /\ p + 2 \in 1 .. Len(out) + 1 /\ p + 1 \in 1 .. Len(out) + 1
    BY <1>4, <1>5, <1>6
<1>8. Head(buffer) = out[p + 1]
    BY <1>5, <1>6
<1>9. Position' = p + 1
    BY <1>1, <1>2, <1>4, <1>6 DEF Position
<1>10. /\ Len(hist) = Len(out) + 1
       /\ \A k \in 1 .. Len(hist) : hist[k].count <= Len(sent)
       /\ \A k \in 1 .. Len(out) :
             Denotes(out[k], hist[k], sent[hist[k + 1].count], hist[k + 1])
    BY DEF SessionInv, HistoryInv
<1>11. /\ hist[p + 1] \in [table : Seq(Entry), count : Nat]
       /\ hist[p + 2] \in [table : Seq(Entry), count : Nat]
       /\ hist[p + 2].count <= Len(sent)
    BY <1>3, <1>7, <1>10, ElementOfSeq
<1>12. Denotes(Head(buffer), hist[p + 1], sent[hist[p + 2].count], hist[p + 2])
  <2>1. (p + 1) + 1 = p + 2
      BY <1>7
  <2>2. Denotes(out[p + 1], hist[p + 1], sent[hist[(p + 1) + 1].count], hist[(p + 1) + 1])
      BY <1>7, <1>10
  <2> QED  BY <1>8, <2>1, <2>2
<1>13. Len(buffer') <= Len(out)
    BY <1>5, <1>6
<1>14. ASSUME NEW k \in 1 .. Len(buffer')  PROVE buffer'[k] = out[p + 1 + k]
  <2>1. buffer'[k] = buffer[k + 1] /\ k + 1 \in 1 .. Len(buffer) /\ p + (k + 1) = p + 1 + k
      BY <1>6, <1>7
  <2>2. buffer[k + 1] = out[p + (k + 1)]
      BY <1>5, <2>1
  <2> QED  BY <2>1, <2>2
<1> QED  BY <1>1, <1>2, <1>6, <1>7, <1>8, <1>9, <1>11, <1>12, <1>13, <1>14 DEF p

\* What the step makes of the decoder when it is at the moment n after it.
CarriedOut(n) ==
    /\ decoded' = decoded \/ decoded' = Append(decoded, sent[Len(decoded) + 1])
    /\ DecodedAt(sent, decoded', decTable', n)

\* Each step of the decoder carries out the instruction as it was meant.
LEMMA DecoderCarriesOut ==
    ASSUME SessionInv, DecoderStep
    PROVE  CarriedOut(hist[Position + 2])
<1> DEFINE m == hist[Position + 1]
           n == hist[Position + 2]
           instr == Head(buffer)
<1>1. /\ instr \in Instruction
      /\ m \in [table : Seq(Entry), count : Nat]
      /\ n \in [table : Seq(Entry), count : Nat]
      /\ n.count <= Len(sent)
      /\ Denotes(instr, m, sent[n.count], n)
      /\ sent' = sent
    BY DecoderStands
<1>2. DecodedAt(sent, decoded, decTable, m) /\ sent \in Seq(Entry)
    BY HeaderAssumption DEF SessionInv, SessionTypeOK, DecoderInv, DecodedAt
<1>3. Does(instr, decoded, decTable, decoded', decTable')
  <2>1. /\ instr.op = "named" => instr.push \in BOOLEAN
        /\ instr.op = "literal" => instr.push \in BOOLEAN
    <3> HIDE DEF instr
    <3> QED  BY <1>1, InstructionFields
  <2> QED  BY <2>1 DEF DecoderStep, UnpackNext, UnpackIndexed, UnpackNamed, UnpackLiteral,
              UnpackResize, Consume, Deliver, Does, Delivers
<1> SUFFICES CarriedOut(n)
    OBVIOUS
<1> HIDE DEF m, n, instr
<1>4. m \in MomentType /\ n \in MomentType
    BY <1>1 DEF MomentType
<1> QED  BY <1>1, <1>2, <1>3, <1>4, DoneAsMeant DEF CarriedOut

\* Every step keeps the invariant.
LEMMA InvStep == SessionInv /\ [SessionNext]_sessionVars => SessionInv'
<1> SUFFICES ASSUME SessionInv, [SessionNext]_sessionVars
             PROVE  HistoryInv' /\ DecoderInv'
    BY TypeStep DEF SessionInv
<1>1. CASE EncoderStep
    BY <1>1, HistoryStep
<1>2. CASE ReadFully
    BY <1>2, ReadFullyStep
<1>3. CASE DecoderStep
  <2>1. HistoryInv'
    <3>1. UNCHANGED << sent, out, stdTable, hist >>
        BY <1>3 DEF DecoderStep, stdVars
    <3> QED  BY <3>1 DEF SessionInv, HistoryInv
  <2>2. CarriedOut(hist[Position + 2])
      BY <1>3, DecoderCarriesOut
  <2>3. /\ fed' /\ Position \in Nat /\ Position' = Position + 1 /\ hist' = hist /\ out' = out /\ sent' = sent
        /\ Len(buffer') <= Len(out)
        /\ \A k \in 1 .. Len(buffer') : buffer'[k] = out[Position + 1 + k]
      BY <1>3, DecoderStands
  <2>4. Position' + 1 = Position + 2
      BY <2>3
  <2>5. DecoderInv'
      BY <2>2, <2>3, <2>4 DEF DecoderInv, CarriedOut, DecodedAt, Accounted, Agrees
  <2> QED  BY <2>1, <2>5
<1>4. CASE UNCHANGED sessionVars
  <2>1. UNCHANGED << sent, out, stdTable, buffer, decTable, decoded, fed, hist >>
      BY <1>4 DEF sessionVars, stdVars, unpackVars
  <2>2. Position' = Position
      BY <2>1 DEF Position
  <2>3. HistoryInv'
      BY <2>1 DEF SessionInv, HistoryInv
  <2> QED  BY <2>1, <2>2, <2>3 DEF SessionInv, DecoderInv, Accounted, Agrees
<1> QED  BY <1>1, <1>2, <1>3, <1>4 DEF SessionNext, Exited

\* The tables agree at every moment of the history and so do the headers: the
\* invariant the properties of the decoder follow from.
THEOREM SessionInvariant == SessionSpec => []SessionInv
<1>1. SessionInit => SessionInv
    BY InvInit
<1>2. SessionInv /\ [SessionNext]_sessionVars => SessionInv'
    BY InvStep
<1> QED  BY <1>1, <1>2, PTL DEF SessionSpec

-----------------------------------------------------------------------------
(* The theorems.                                                           *)

\* Whatever a standard encoder refers to, the decoder finds at that index.
THEOREM SessionSynchronised == SessionSpec => []Synchronised
<1>1. SessionInv => Synchronised
  <2> SUFFICES ASSUME SessionInv  PROVE Synchronised
      OBVIOUS
  <2>1. Position + 1 \in 1 .. Len(hist)
      BY DEF SessionInv, SessionTypeOK, HistoryInv, DecoderInv, Position
  <2>2. hist[Position + 1] \in [table : Seq(Entry), count : Nat]
      BY <2>1, ElementOfSeq DEF SessionInv, SessionTypeOK
  <2>3. /\ hist[Position + 1].table \in Seq(Entry)
        /\ decTable.table \in Seq(Entry)
        /\ Agrees(hist[Position + 1].table, decTable.table)
      BY <2>2 DEF SessionInv, SessionTypeOK, DecoderInv, Table
  <2> QED  BY <2>3, AgreesIsPrefix DEF Synchronised
<1> QED  BY <1>1, SessionInvariant, PTL

\* size is the number of bytes in the decoder's table, modulo the width of
\* unsigned (common.h:767-774, 792-795).
THEOREM SessionAccounting == SessionSpec => []DecoderAccounting
<1>1. SessionInv => DecoderAccounting
    BY DEF SessionInv, DecoderInv, DecoderAccounting, Accounted
<1> QED  BY <1>1, SessionInvariant, PTL

\* Everything comes out as it went in.
THEOREM SessionDelivers == SessionSpec => DeliversHeaders
<1>1. SessionInit => Delivery!Init
    BY DEF SessionInit, StdInit, UnpackInit, Delivery!Init
<1>2. SessionInv /\ [SessionNext]_sessionVars => [Delivery!Next]_(Delivery!vars)
  <2> SUFFICES ASSUME SessionInv, [SessionNext]_sessionVars
               PROVE  [Delivery!Next]_(Delivery!vars)
      OBVIOUS
  <2>1. CASE EncoderStep
    <3>1. decoded' = decoded
        BY <2>1 DEF EncoderStep, unpackVars
    <3>2. sent' = sent \/ \E h \in Header : sent' = Append(sent, h)
        BY <2>1 DEF EncoderStep, StdNext, StdEncode, StdIndexed, StdNamed, StdLiteral,
                    StdResize, Write
    <3> QED  BY <3>1, <3>2 DEF Delivery!Next, Delivery!Send, Delivery!vars
  <2>2. CASE ReadFully
      BY <2>2 DEF ReadFully, Feed, stdVars, Delivery!vars
  <2>3. CASE DecoderStep
    <3>1. CarriedOut(hist[Position + 2])
        BY <2>3, DecoderCarriesOut
    <3>2. /\ sent' = sent /\ hist[Position + 2].count <= Len(sent)
          /\ hist[Position + 2] \in [table : Seq(Entry), count : Nat]
        BY <2>3, DecoderStands
    <3>3. CASE decoded' = decoded
        BY <3>2, <3>3 DEF Delivery!vars
    <3>4. CASE decoded' = Append(decoded, sent[Len(decoded) + 1])
      <4>1. Len(decoded') = Len(decoded) + 1 /\ Len(decoded) \in Nat
          BY <3>4 DEF SessionInv, SessionTypeOK
      <4>2. Len(decoded) < Len(sent)
          BY <3>1, <3>2, <4>1 DEF CarriedOut, DecodedAt, SessionInv, SessionTypeOK
      <4> QED  BY <3>2, <3>4, <4>2 DEF Delivery!Next, Delivery!Receive
    <3> QED  BY <3>1, <3>3, <3>4 DEF CarriedOut
  <2>4. CASE UNCHANGED sessionVars
      BY <2>4 DEF sessionVars, stdVars, unpackVars, Delivery!vars
  <2> QED  BY <2>1, <2>2, <2>3, <2>4 DEF SessionNext, Exited
<1> QED  BY <1>1, <1>2, SessionInvariant, PTL DEF SessionSpec, DeliversHeaders, Delivery!Spec

\* What is left when one is taken is neither what there was nor longer than it.
LEMMA TailFallsShort ==
    ASSUME NEW S, NEW s \in Seq(S), s # << >>, NEW t \in Seq(S)
    PROVE  Tail(s) # s /\ Tail(s) # s \o t
<1>1. Len(Tail(s)) = Len(s) - 1 /\ Len(s) \in Nat
    BY HeadTailProperties
<1>2. Len(s \o t) = Len(s) + Len(t) /\ Len(t) \in Nat
    BY ConcatProperties
<1>3. \A m, n \in Nat : m - 1 # m /\ m - 1 # m + n
    OBVIOUS
<1>4. Len(Tail(s)) # Len(s) /\ Len(Tail(s)) # Len(s \o t)
    BY <1>1, <1>2, <1>3, Zenon
<1> QED  BY <1>4, Zenon

\* A size update leaves no more than it allows, unless size has wrapped
\* (unpack.h:129-133, common.h:767-774).
THEOREM SessionEvicts == SessionSpec => UpdateEvicts
<1> DEFINE Evicts ==
       (/\ buffer # << >> /\ Head(buffer).op = "resize"
        /\ buffer' = Tail(buffer)
        /\ Bytes(decTable.table) < UIntRange)
           => Bytes(decTable'.table) <= Head(buffer).max
<1>1. SessionInv /\ [SessionNext]_sessionVars => [Evicts]_sessionVars
  <2> SUFFICES ASSUME SessionInv, [SessionNext]_sessionVars,
                      buffer # << >>, Head(buffer).op = "resize", buffer' = Tail(buffer),
                      Bytes(decTable.table) < UIntRange
               PROVE  Bytes(decTable'.table) <= Head(buffer).max
      OBVIOUS
  <2> DEFINE es == decTable.table
             max == Head(buffer).max
  <2>1. UnpackResize
    <3>1. /\ buffer \in Seq(Instruction) /\ Len(buffer) \in Nat
          /\ out \in Seq(Instruction) /\ Len(out) \in Nat
        BY DEF SessionInv, SessionTypeOK
    <3>2. Tail(buffer) # buffer
        BY <3>1, TailFallsShort
    <3>3. buffer' # buffer
        BY <3>2
    <3>4. ~ ReadFully
        BY <3>1, TailFallsShort DEF ReadFully, Feed
    <3> QED  BY <3>3, <3>4 DEF SessionNext, EncoderStep, DecoderStep, UnpackNext,
             UnpackIndexed, UnpackNamed, UnpackLiteral, Consume, Exited,
             sessionVars, stdVars, unpackVars
  <2>2. /\ Head(buffer) \in Instruction /\ Head(buffer).op = "resize"
        /\ maxDynamicSize' = max /\ decTable' = Shrink(decTable, max)
      BY <2>1 DEF UnpackResize, Consume, SessionInv, SessionTypeOK
  <2>3. max \in Nat
      BY <2>2, InstructionFields, TableAssumption
  <2>4. decTable \in Table /\ Accounted(decTable) /\ es \in Seq(Entry)
      BY DEF SessionInv, SessionTypeOK, DecoderInv, Table
  <2> HIDE DEF max
  <2>5. PICK kept \in 0 .. Len(es) :
           /\ Shrink(decTable, max).table = SubSeq(es, 1, kept)
           /\ kept = 0 \/ Ledger(es)[kept] % UIntRange <= max
      BY <2>3, <2>4, ShrinkKeeps
  <2> HIDE DEF es
  <2>6. Bytes(decTable'.table) = Ledger(es)[kept]
      BY <2>2, <2>4, <2>5, BytesOfNewest
  <2>7. Ledger(es)[kept] \in 0 .. UIntRange - 1 /\ UIntRange \in Nat \ {0}
    <3>1. Ledger(es)[kept] \in Nat /\ Bytes(es) \in Nat
        BY <2>4, <2>5, LedgerType, BytesType
    <3>2. Len(es) \in Nat /\ Len(es) \in kept .. Len(es)
        BY <2>4, <2>5
    <3>3. Ledger(es)[kept] <= Bytes(es)
        BY <2>4, <2>5, <3>2, LedgerMonotone DEF Bytes
    <3> QED  BY <3>1, <3>3, TableAssumption DEF es
  <2>8. Ledger(es)[kept] % UIntRange = Ledger(es)[kept]
    <3> DEFINE l == Ledger(es)[kept]
    <3>1. l \in Int
        BY <2>7
    <3> HIDE DEF l
    <3>2. l \in 0 .. UIntRange - 1 => l % UIntRange = l
        BY <2>7, <3>1, ModFacts, Zenon
    <3> QED  BY <2>7, <3>2 DEF l
  <2>9. Ledger(es)[0] = 0
      BY <2>4, LedgerType
  <2>10. Bytes(decTable'.table) <= max
      BY <2>3, <2>5, <2>6, <2>8, <2>9
  <2> QED  BY <2>10 DEF max
<1> QED  BY <1>1, SessionInvariant, PTL DEF SessionSpec, UpdateEvicts
=============================================================================
