----------------------------- MODULE Pipe_proofs -----------------------------
(***************************************************************************)
(* Theorems about hpack | hunpack.  The encoder is shown to implement the  *)
(* abstract one, step by step; what is proved of any standard encoder in   *)
(* Session_proofs then holds of it.                                        *)
(***************************************************************************)
EXTENDS Pipe, DataLemmas

\* The theorems of Session_proofs, about the pipeline seen as a session.
AnySession == INSTANCE Session_proofs WITH
    SizeLimit <- MaxDynamicSize, Sizes <- {}, MaxInstructions <- MaxHeaders,
    stdTable <- encTable.table, stdMax <- MaxDynamicSize

\* What Session_proofs assumes of its constants (TableAssumption and
\* HeaderAssumption), with the values they have here.
LEMMA AnyTableAssumption ==
    /\ NameLen \in [Name -> Nat]
    /\ ValueLen \in [Value -> Nat]
    /\ NameRank \in [Name -> Nat]
    /\ StaticTable \in Seq(AnySession!Entry)
    /\ UIntRange \in Nat \ {0}
    /\ AnySession!InvalidEntry \in AnySession!Entry
    /\ AnySession!InvalidEntry \notin AnySession!ToSet(StaticTable)
BY TableAssumption DEF Entry, AnySession!Entry, InvalidEntry,
   AnySession!InvalidEntry, ToSet, AnySession!ToSet

\* 4096 is less than 2^32; hpack writes no size update.
LEMMA AnyHeaderAssumption ==
    /\ Header \subseteq AnySession!Entry
    /\ MaxDynamicSize \in Nat
    /\ MaxDynamicSize < UIntRange
    /\ {} \subseteq 0 .. MaxDynamicSize
    /\ MaxHeaders \in Nat
BY HpackAssumption, TableAssumption DEF Entry, AnySession!Entry

-----------------------------------------------------------------------------
(* The invariant of the encoder.                                           *)

EncoderInv ==
    /\ sent \in Seq(Header)
    /\ encTable \in Table
    /\ EncoderAccounting
    /\ NoDuplicates
    /\ Len(out) = Len(sent)

\* The empty table satisfies the encoder's invariant.
LEMMA EncoderInvInit == PipeInit => EncoderInv
<1> SUFFICES ASSUME PipeInit  PROVE EncoderInv
    OBVIOUS
<1>1. sent = << >> /\ out = << >> /\ encTable = EmptyTable
    BY DEF PipeInit, HpackInit
<1>2. EmptyTable \in Table /\ EmptyTable.table = << >> /\ EmptyTable.size = 0
    BY DEF EmptyTable, Table
<1>3. Bytes(<< >>) = 0
  <2>1. << >> \in Seq(Entry) /\ Len(<< >>) = 0
      OBVIOUS
  <2>2. Ledger(<< >>)[0] = 0
      BY <2>1, LedgerType
  <2> QED  BY <2>1, <2>2 DEF Bytes
<1>4. EncoderAccounting
    BY <1>1, <1>2, <1>3, HpackAssumption DEF EncoderAccounting
<1>5. NoDuplicates
    BY <1>1, <1>2 DEF NoDuplicates
<1>6. sent \in Seq(Header) /\ Len(out) = Len(sent)
    BY <1>1
<1> QED  BY <1>1, <1>2, <1>4, <1>5, <1>6 DEF EncoderInv

\* A header that is pushed is not oversized, so it fits.
LEMMA PushedFits ==
    ASSUME NEW h \in Header, ~ Oversized(h)
    PROVE  h \in Entry /\ EntrySize(h) \in Nat /\ EntrySize(h) <= MaxDynamicSize
<1>1. h \in Entry /\ EntrySize(h) \in Nat
    BY HpackAssumption, EntrySizeType
<1>2. EntrySize(h) <= (3 * MaxDynamicSize) \div 4
    BY <1>1, HpackAssumption DEF Oversized
<1>3. (3 * MaxDynamicSize) \div 4 <= MaxDynamicSize
    BY HpackAssumption
<1> QED  BY <1>1, <1>2, <1>3, HpackAssumption

\* Both sides count the bytes of a table the same way.
LEMMA StdLedger ==
    ASSUME NEW es
    PROVE  Std!Ledger(es) = Ledger(es)
BY DEF Std!Ledger, Ledger, Std!EntrySize, EntrySize

\* The table after a push and a shrink, in terms of the abstract encoder.
Pushed(h) ==
    /\ encTable' \in Table
    /\ encTable'.table = Std!Insert(encTable.table, h, MaxDynamicSize)
    /\ encTable'.size = Bytes(encTable'.table)
    /\ encTable'.size <= MaxDynamicSize
    /\ \E m \in 0 .. Len(encTable.table) :
          encTable'.table = << h >> \o SubSeq(encTable.table, 1, m)

\* push() and shrink() together are the insertion of the standard, for a header
\* that passed the test of hpack.cc:116.
LEMMA PushAndShrinkInserts ==
    ASSUME EncoderInv, NEW h \in Header, ~ Oversized(h), PushAndShrink(h)
    PROVE  Pushed(h)
<1> DEFINE es == encTable.table
           z == EntrySize(h)
           F == {k \in 0 .. Len(es) : Ledger(es)[k] <= MaxDynamicSize - z}
<1>1. /\ encTable \in Table /\ es \in Seq(Entry)
      /\ encTable.size = Bytes(es) /\ encTable.size <= MaxDynamicSize
      /\ MaxDynamicSize \in Nat /\ 2 * MaxDynamicSize < UIntRange
    BY HpackAssumption DEF EncoderInv, EncoderAccounting, Table
<1>2. h \in Entry /\ z \in Nat /\ z <= MaxDynamicSize
    BY PushedFits
<1>3. encTable' = Shrink(Push(encTable, h), MaxDynamicSize)
    BY DEF PushAndShrink
<1>4. PICK m \in 0 .. Len(es) :
         /\ encTable' \in Table
         /\ encTable'.table = << h >> \o SubSeq(es, 1, m)
         /\ encTable'.size = Bytes(encTable'.table)
         /\ encTable'.size <= MaxDynamicSize
         /\ Ledger(es)[m] <= MaxDynamicSize - z
         /\ \A k \in 0 .. Len(es) : Ledger(es)[k] <= MaxDynamicSize - z => k <= m
    BY <1>1, <1>2, <1>3, PushAndShrinkIs
<1>5. Max(F) = m
  <2>1. F \subseteq Nat /\ m \in F /\ \A k \in F : k <= m
      BY <1>1, <1>4
  <2> HIDE DEF F
  <2>2. Max(F) \in F /\ \A k \in F : k <= Max(F)
      BY <1>1, <1>4, <2>1, SetMax
  <2>3. Max(F) <= m /\ m <= Max(F) /\ Max(F) \in Nat /\ m \in Nat
      BY <2>1, <2>2
  <2> QED  BY <2>3
<1>6. Std!Insert(es, h, MaxDynamicSize) = << h >> \o SubSeq(es, 1, m)
  <2>1. Std!EntrySize(h) = z
      BY DEF Std!EntrySize, EntrySize
  <2>2. Std!Fitting(es, MaxDynamicSize - z) = F
      BY StdLedger DEF Std!Fitting
  <2>3. Std!Fit(es, MaxDynamicSize - z) = SubSeq(es, 1, m)
      BY <1>5, <2>2 DEF Std!Fit, Std!Max, Max
  <2> HIDE DEF z
  <2> QED  BY <1>2, <2>1, <2>3 DEF Std!Insert
<1> QED  BY <1>4, <1>6 DEF Pushed

\* Pushing a header that is not in the table does not put it there twice.
LEMMA PushedOnce ==
    ASSUME EncoderInv, NEW h \in Header, Pushed(h), Find(encTable, h) = 0
    PROVE  EncoderAccounting' /\ NoDuplicates'
<1> DEFINE es == encTable.table
           fs == encTable'.table
<1>1. h \in Entry /\ encTable \in Table /\ es \in Seq(Entry) /\ NoDuplicates
    BY HpackAssumption DEF EncoderInv, Table
<1>2. \A k \in 1 .. Len(es) : es[k] # h
    BY <1>1, FindIs
<1>3. PICK m \in 0 .. Len(es) : fs = << h >> \o SubSeq(es, 1, m)
    BY DEF Pushed
<1>4. /\ DOMAIN fs = 1 .. m + 1 /\ m \in Nat /\ m <= Len(es)
      /\ \A k \in 1 .. m + 1 : fs[k] = IF k = 1 THEN h ELSE es[k - 1]
  <2> DEFINE gs == SubSeq(es, 1, m)
  <2>1. gs \in Seq(Entry) /\ Len(gs) = m /\ \A k \in 1 .. m : gs[k] = es[k]
      BY <1>1, <1>3
  <2> HIDE DEF gs
  <2>2. fs = << h >> \o gs
      BY <1>3 DEF gs
  <2> HIDE DEF fs, es
  <2> QED  BY <1>1, <2>1, <2>2
<1>5. ASSUME NEW i \in DOMAIN fs, NEW j \in DOMAIN fs, fs[i] = fs[j]
      PROVE  i = j
  <2> HIDE DEF es, fs
  <2>1. i \in 1 .. m + 1 /\ j \in 1 .. m + 1
      BY <1>4, <1>5
  <2>2. /\ i # 1 => i - 1 \in 1 .. Len(es) /\ fs[i] = es[i - 1]
        /\ j # 1 => j - 1 \in 1 .. Len(es) /\ fs[j] = es[j - 1]
        /\ fs[1] = h
      BY <1>4, <2>1
  <2>3. i = 1 <=> j = 1
      BY <1>2, <1>5, <2>2
  <2>4. CASE i # 1 /\ j # 1
    <3>1. i - 1 \in DOMAIN es /\ j - 1 \in DOMAIN es /\ es[i - 1] = es[j - 1]
        BY <1>1, <1>5, <2>2, <2>4 DEF es
    <3>2. i - 1 = j - 1
        BY <1>1, <3>1 DEF NoDuplicates, es
    <3> QED  BY <2>1, <3>2
  <2> QED  BY <2>3, <2>4
<1>6. NoDuplicates'
    BY <1>5 DEF NoDuplicates
<1> QED  BY <1>6 DEF Pushed, EncoderAccounting

-----------------------------------------------------------------------------
(* Every arm of the loop is a step of the abstract encoder.                *)

\* The arms that leave the table alone, and those that push.
Kept == encTable' = encTable

\* Whichever arm of the if-chain handles the line (hpack.cc:116-151), a standard
\* encoder could have written what it writes and kept the table it keeps.
LEMMA ArmIsStandard ==
    ASSUME EncoderInv, NEW h \in Header, EncodeLine(h)
    PROVE  /\ AnySession!StdEncode(h)
           /\ Kept \/ (Pushed(h) /\ Find(encTable, h) = 0)
           /\ sent' = Append(sent, h)
           /\ \E instr : out' = Append(out, instr)
<1> DEFINE es == encTable.table
<1>1. /\ h \in Entry /\ encTable \in Table /\ Len(out) = Len(sent)
    BY HpackAssumption DEF EncoderInv
<1>2. ASSUME NEW instr, WriteLine(h, instr)
      PROVE  AnySession!Write(h, instr)
    BY <1>1, <1>2 DEF WriteLine, AnySession!Write
<1>3. ASSUME NEW i \in ValidIndex(es)
      PROVE  i \in AnySession!ValidIndex(es) /\ AnySession!Get(es, i) = Get(es, i)
    BY <1>3 DEF ValidIndex, AnySession!ValidIndex, Get, AnySession!Get, DynamicTableStart,
                AnySession!DynamicTableStart, InvalidEntry, AnySession!InvalidEntry
<1>4. CASE EncodeOversizedNamed(h)
  <2> DEFINE i == FindName(encTable, h.name)
  <2>1. i \in ValidIndex(es) /\ Get(es, i).name = h.name
      BY <1>1, <1>4, FindNameIs DEF EncodeOversizedNamed
  <2>2. i \in AnySession!ValidIndex(es) /\ AnySession!Get(es, i).name = h.name
      BY <1>3, <2>1
  <2>3. AnySession!Write(h, AnySession!NamedByIndex(FALSE, i, h.value))
      BY <1>2, <1>4 DEF EncodeOversizedNamed, Std!NamedByIndex, AnySession!NamedByIndex
  <2>4. AnySession!MaybeInsert(FALSE, h) /\ Kept
      BY <1>4 DEF EncodeOversizedNamed, AnySession!MaybeInsert, Kept
  <2>5. AnySession!StdNamed(h)
      BY <2>2, <2>3, <2>4 DEF AnySession!StdNamed
  <2> QED  BY <1>4, <2>4, <2>5 DEF EncodeOversizedNamed, WriteLine, AnySession!StdEncode
<1>5. CASE EncodeOversizedLiteral(h)
  <2>1. AnySession!Write(h, AnySession!Literal(FALSE, h))
      BY <1>2, <1>5 DEF EncodeOversizedLiteral, Std!Literal, AnySession!Literal
  <2>2. AnySession!MaybeInsert(FALSE, h) /\ Kept
      BY <1>5 DEF EncodeOversizedLiteral, AnySession!MaybeInsert, Kept
  <2>3. AnySession!StdLiteral(h)
      BY <2>1, <2>2 DEF AnySession!StdLiteral
  <2> QED  BY <1>5, <2>2, <2>3 DEF EncodeOversizedLiteral, WriteLine, AnySession!StdEncode
<1>6. CASE EncodeIndexed(h)
  <2> DEFINE i == Find(encTable, h)
  <2>1. i \in ValidIndex(es) /\ Get(es, i) = h
      BY <1>1, <1>6, FindIs DEF EncodeIndexed
  <2>2. i \in AnySession!ValidIndex(es) /\ AnySession!Get(es, i) = h
      BY <1>3, <2>1
  <2>3. AnySession!Write(h, AnySession!Indexed(i))
      BY <1>2, <1>6 DEF EncodeIndexed, Std!Indexed, AnySession!Indexed
  <2>4. AnySession!MaybeInsert(FALSE, h) /\ Kept
      BY <1>6 DEF EncodeIndexed, AnySession!MaybeInsert, Kept
  <2>5. AnySession!StdIndexed(h)
      BY <2>2, <2>3, <2>4, Zenon DEF AnySession!StdIndexed
  <2> QED  BY <1>6, <2>4, <2>5 DEF EncodeIndexed, WriteLine, AnySession!StdEncode
<1>7. ASSUME Pushed(h)
      PROVE  AnySession!MaybeInsert(TRUE, h)
    BY <1>7, Zenon DEF Pushed, AnySession!MaybeInsert, Std!Insert, AnySession!Insert, Std!Fit, AnySession!Fit,
                Std!Fitting, AnySession!Fitting, Std!Ledger, AnySession!Ledger, Std!Max, AnySession!Max,
                Std!EntrySize, AnySession!EntrySize
<1>8. CASE EncodeNamed(h)
  <2> DEFINE i == FindName(encTable, h.name)
  <2>1. i \in ValidIndex(es) /\ Get(es, i).name = h.name
      BY <1>1, <1>8, FindNameIs DEF EncodeNamed
  <2>2. i \in AnySession!ValidIndex(es) /\ AnySession!Get(es, i).name = h.name
      BY <1>3, <2>1
  <2>3. AnySession!Write(h, AnySession!NamedByIndex(TRUE, i, h.value))
      BY <1>2, <1>8 DEF EncodeNamed, Std!NamedByIndex, AnySession!NamedByIndex
  <2>4. Pushed(h) /\ AnySession!MaybeInsert(TRUE, h) /\ Find(encTable, h) = 0
      BY <1>7, <1>8, PushAndShrinkInserts DEF EncodeNamed
  <2>5. AnySession!StdNamed(h)
      BY <2>2, <2>3, <2>4 DEF AnySession!StdNamed
  <2> QED  BY <1>8, <2>4, <2>5 DEF EncodeNamed, WriteLine, AnySession!StdEncode
<1>9. CASE EncodeLiteral(h)
  <2>1. AnySession!Write(h, AnySession!Literal(TRUE, h))
      BY <1>2, <1>9 DEF EncodeLiteral, Std!Literal, AnySession!Literal
  <2>2. Pushed(h) /\ AnySession!MaybeInsert(TRUE, h) /\ Find(encTable, h) = 0
      BY <1>7, <1>9, PushAndShrinkInserts DEF EncodeLiteral
  <2>3. AnySession!StdLiteral(h)
      BY <2>1, <2>2 DEF AnySession!StdLiteral
  <2> QED  BY <1>9, <2>2, <2>3 DEF EncodeLiteral, WriteLine, AnySession!StdEncode
<1> QED  BY <1>4, <1>5, <1>6, <1>8, <1>9 DEF EncodeLine
\* Pipe refers to the pipeline as a session through one instance, and the
\* theorems come from another; they say the same.
LEMMA SameSession ==
    /\ AnySession!SessionInit => Session!SessionInit
    /\ AnySession!SessionNext => Session!SessionNext
    /\ AnySession!sessionVars = Session!sessionVars
BY Zenon DEF
    AnySession!SessionInit, Session!SessionInit, AnySession!SessionNext,
    Session!SessionNext, AnySession!sessionVars, Session!sessionVars,
    AnySession!stdVars, Session!stdVars, AnySession!unpackVars,
    Session!unpackVars, AnySession!StdInit, Session!StdInit,
    AnySession!UnpackInit, Session!UnpackInit, AnySession!Moment,
    Session!Moment, AnySession!EmptyTable, Session!EmptyTable,
    AnySession!EncoderStep, Session!EncoderStep, AnySession!ReadFully,
    Session!ReadFully, AnySession!DecoderStep, Session!DecoderStep,
    AnySession!Exited, Session!Exited, AnySession!StdNext, Session!StdNext,
    AnySession!StdEncode, Session!StdEncode, AnySession!StdIndexed,
    Session!StdIndexed, AnySession!StdNamed, Session!StdNamed,
    AnySession!StdLiteral, Session!StdLiteral, AnySession!StdResize,
    Session!StdResize, AnySession!Write, Session!Write,
    AnySession!MaybeInsert, Session!MaybeInsert, AnySession!Insert,
    Session!Insert, AnySession!Fit, Session!Fit, AnySession!Fitting,
    Session!Fitting, AnySession!Ledger, Session!Ledger, AnySession!EntrySize,
    Session!EntrySize, AnySession!Get, Session!Get, AnySession!ValidIndex,
    Session!ValidIndex, AnySession!DynamicTableStart,
    Session!DynamicTableStart, AnySession!InvalidEntry, Session!InvalidEntry,
    AnySession!Indexed, Session!Indexed, AnySession!NamedByIndex,
    Session!NamedByIndex, AnySession!Literal, Session!Literal,
    AnySession!Resize, Session!Resize, AnySession!Feed, Session!Feed,
    AnySession!Consume, Session!Consume, AnySession!Deliver, Session!Deliver,
    AnySession!UnpackNext, Session!UnpackNext, AnySession!UnpackIndexed,
    Session!UnpackIndexed, AnySession!UnpackNamed, Session!UnpackNamed,
    AnySession!UnpackLiteral, Session!UnpackLiteral, AnySession!UnpackResize,
    Session!UnpackResize, AnySession!Shrink, Session!Shrink,
    AnySession!StopsAt, Session!StopsAt, AnySession!SizeAfter,
    Session!SizeAfter, AnySession!Bytes, Session!Bytes, AnySession!Push,
    Session!Push, AnySession!Max, Session!Max

-----------------------------------------------------------------------------
(* Only the encoder touches the encoder's table (hpack.cc:90-153).         *)

\* Every step keeps the encoder's invariant.
LEMMA EncoderInvStep == EncoderInv /\ [PipeNext]_pipeVars => EncoderInv'
<1> SUFFICES ASSUME EncoderInv, [PipeNext]_pipeVars  PROVE EncoderInv'
    OBVIOUS
<1>1. CASE HpackStep
  <2>1. PICK h \in Header : EncodeLine(h)
      BY <1>1 DEF HpackStep, HpackNext
  <2>2. /\ Kept \/ (Pushed(h) /\ Find(encTable, h) = 0)
        /\ sent' = Append(sent, h)
        /\ \E instr : out' = Append(out, instr)
      BY <2>1, ArmIsStandard
  <2>3. encTable' \in Table /\ EncoderAccounting' /\ NoDuplicates'
    <3>1. CASE Kept
        BY <3>1 DEF Kept, EncoderInv, EncoderAccounting, NoDuplicates
    <3>2. CASE Pushed(h) /\ Find(encTable, h) = 0
      <4>1. encTable' \in Table
          BY <3>2 DEF Pushed
      <4>2. EncoderAccounting' /\ NoDuplicates'
          BY <3>2, PushedOnce
      <4> QED  BY <4>1, <4>2
    <3> QED  BY <2>2, <3>1, <3>2
  <2>4. sent' \in Seq(Header) /\ Len(sent') = Len(sent) + 1
      BY <2>2 DEF EncoderInv
  <2>5. Len(out') = Len(out) + 1
      BY <2>2 DEF EncoderInv
  <2> QED  BY <2>3, <2>4, <2>5 DEF EncoderInv
<1>2. CASE UNCHANGED << sent, out, encTable >>
    BY <1>2 DEF EncoderInv, EncoderAccounting, NoDuplicates
<1>3. ReadFully \/ HunpackStep \/ Exited \/ UNCHANGED pipeVars
          => UNCHANGED << sent, out, encTable >>
    BY DEF ReadFully, HunpackStep, Exited, pipeVars, hpackVars
<1> QED  BY <1>1, <1>2, <1>3 DEF PipeNext

\* The encoder's invariant holds whatever lines it is given.
THEOREM EncoderInvariant == PipeSpec => []EncoderInv
BY EncoderInvInit, EncoderInvStep, PTL DEF PipeSpec

\* The running size of dyn_table is exact and within the budget after every
\* line (hpack.cc:147-149, common.h:767-774).
THEOREM EncoderAccounts == PipeSpec => []EncoderAccounting
<1>1. EncoderInv => EncoderAccounting
    BY DEF EncoderInv
<1> QED  BY <1>1, EncoderInvariant, PTL

\* The encoder never stores a header it already has (hpack.cc:131).
THEOREM EncoderHasNoDuplicates == PipeSpec => []NoDuplicates
<1>1. EncoderInv => NoDuplicates
    BY DEF EncoderInv
<1> QED  BY <1>1, EncoderInvariant, PTL

\* The shrink that follows a push keeps the entry pushed (hpack.cc:116-149).
THEOREM NewestAlwaysSurvives == PipeSpec => NewestSurvives
<1> DEFINE Survives ==
       encTable' # encTable
          => /\ encTable'.table # << >>
             /\ Head(encTable'.table) = Last(sent')
<1>1. EncoderInv /\ [PipeNext]_pipeVars => [Survives]_pipeVars
  <2> SUFFICES ASSUME EncoderInv, [PipeNext]_pipeVars, encTable' # encTable
               PROVE  encTable'.table # << >> /\ Head(encTable'.table) = Last(sent')
      OBVIOUS
  <2>1. PICK h \in Header : EncodeLine(h)
      BY DEF PipeNext, HpackStep, HpackNext, ReadFully, HunpackStep, Exited,
             pipeVars, hpackVars
  <2>2. Pushed(h) /\ sent' = Append(sent, h)
      BY <2>1, ArmIsStandard DEF Kept
  <2>3. Last(sent') = h
      BY <2>2 DEF EncoderInv, Last
  <2>4. PICK m \in 0 .. Len(encTable.table) :
            encTable'.table = << h >> \o SubSeq(encTable.table, 1, m)
      BY <2>2 DEF Pushed
  <2>5. encTable.table \in Seq(Entry) /\ h \in Entry
      BY HpackAssumption DEF EncoderInv, Table
  <2>6. SubSeq(encTable.table, 1, m) \in Seq(Entry)
      BY <2>4, <2>5
  <2> QED  BY <2>3, <2>4, <2>5, <2>6
<1> QED  BY <1>1, EncoderInvariant, PTL DEF PipeSpec, NewestSurvives

-----------------------------------------------------------------------------
(* The pipeline is a session of a standard encoder and hunpack.            *)

\* The pipeline starts as a session does.
LEMMA SessionStarts == PipeInit => AnySession!SessionInit
BY DEF PipeInit, HpackInit, UnpackInit, EmptyTable, Session!Moment,
       AnySession!SessionInit, AnySession!StdInit, AnySession!UnpackInit,
       AnySession!EmptyTable, AnySession!Moment

\* Every step of the pipeline is a step of the session, or a stutter.
LEMMA SessionSteps ==
    EncoderInv /\ [PipeNext]_pipeVars
        => [AnySession!SessionNext]_(AnySession!sessionVars)
<1> SUFFICES ASSUME EncoderInv, [PipeNext]_pipeVars
             PROVE  [AnySession!SessionNext]_(AnySession!sessionVars)
    OBVIOUS
<1>1. CASE HpackStep
  <2>1. PICK h \in Header : EncodeLine(h)
      BY <1>1 DEF HpackStep, HpackNext
  <2>2. AnySession!StdNext
      BY <2>1, ArmIsStandard DEF AnySession!StdNext
  <2>3. AnySession!EncoderStep
      BY <1>1, <2>2 DEF HpackStep, AnySession!EncoderStep, Session!Moment,
             AnySession!Moment, unpackVars, AnySession!unpackVars
  <2> QED  BY <2>3 DEF AnySession!SessionNext
<1>2. CASE ReadFully
  <2>1. AnySession!ReadFully
      BY <1>2 DEF ReadFully, AnySession!ReadFully, Feed, AnySession!Feed,
             hpackVars, AnySession!stdVars
  <2> QED  BY <2>1 DEF AnySession!SessionNext
<1>3. CASE HunpackStep
  <2>1. AnySession!UnpackNext
      BY <1>3, Zenon DEF HunpackStep, UnpackNext, AnySession!UnpackNext,
    UnpackIndexed, AnySession!UnpackIndexed, UnpackNamed, AnySession!UnpackNamed,
    UnpackLiteral, AnySession!UnpackLiteral, UnpackResize, AnySession!UnpackResize,
    Consume, AnySession!Consume, Deliver, AnySession!Deliver, Get, AnySession!Get,
    ValidIndex, AnySession!ValidIndex, DynamicTableStart, AnySession!DynamicTableStart,
    InvalidEntry, AnySession!InvalidEntry, Push, AnySession!Push, Shrink, AnySession!Shrink,
    StopsAt, AnySession!StopsAt, SizeAfter, AnySession!SizeAfter, Bytes, AnySession!Bytes,
    Ledger, AnySession!Ledger, EntrySize, AnySession!EntrySize, Max, AnySession!Max
  <2>2. AnySession!DecoderStep
      BY <1>3, <2>1 DEF HunpackStep, AnySession!DecoderStep, hpackVars, AnySession!stdVars
  <2> QED  BY <2>2 DEF AnySession!SessionNext
<1>4. CASE UNCHANGED pipeVars
    BY <1>4 DEF pipeVars, hpackVars, unpackVars, AnySession!sessionVars,
           AnySession!stdVars, AnySession!unpackVars
<1> QED  BY <1>1, <1>2, <1>3, <1>4 DEF PipeNext, Exited

\* Every behaviour of the pipeline is one of a session, hence has the
\* properties proved of sessions.
THEOREM PipeIsSession == PipeSpec => AnySession!SessionSpec
BY SessionStarts, SessionSteps, EncoderInvariant, PTL DEF PipeSpec, AnySession!SessionSpec

\* hpack is a standard encoder: with its table read as the table of the
\* standard, each of its steps is one the standard allows (hpack.cc:90-153).
THEOREM EncoderIsStandard == PipeSpec => ImplementsStandard
<1>1. [AnySession!SessionNext]_(AnySession!sessionVars)
          => [Session!SessionNext]_(Session!sessionVars)
  <2>1. UNCHANGED AnySession!sessionVars => UNCHANGED Session!sessionVars
      BY DEF AnySession!sessionVars, Session!sessionVars, AnySession!stdVars,
             Session!stdVars, AnySession!unpackVars, Session!unpackVars
  <2> QED  BY <2>1, SameSession
<1> QED  BY <1>1, SameSession, PipeIsSession, PTL
         DEF AnySession!SessionSpec, ImplementsStandard, Session!SessionSpec

\* hunpack prints the headers hpack was given, whatever the number of lines,
\* the sizes of the headers and the budget (check_unpack of run_tests.py).
THEOREM RoundTrip == PipeSpec => PipeDelivers
<1>1. AnySession!SessionSpec => AnySession!DeliversHeaders
    BY AnyTableAssumption, AnyHeaderAssumption, OctetAssumption, AnySession!SessionDelivers, PTL
<1>2. /\ AnySession!Delivery!Init => Delivery!Init
      /\ [AnySession!Delivery!Next]_(AnySession!Delivery!vars)
            => [Delivery!Next]_(Delivery!vars)
    BY Zenon DEF AnySession!Delivery!Init, Delivery!Init, AnySession!Delivery!Next,
       Delivery!Next, AnySession!Delivery!Send, Delivery!Send, AnySession!Delivery!Receive,
       Delivery!Receive, AnySession!Delivery!vars, Delivery!vars
<1> QED  BY <1>1, <1>2, PipeIsSession, PTL
         DEF AnySession!DeliversHeaders, AnySession!Delivery!Spec, PipeDelivers, Delivery!Spec

\* The state of the pipeline is of its type.
THEOREM PipeTypeCorrect == PipeSpec => []PipeTypeOK
<1>1. AnySession!SessionSpec => []AnySession!SessionTypeOK
    BY AnyTableAssumption, AnyHeaderAssumption, OctetAssumption, AnySession!SessionTypeCorrect, PTL
<1>2. EncoderInv /\ AnySession!SessionTypeOK => PipeTypeOK
  <2>1. Std!Instruction = AnySession!Instruction
      BY Zenon DEF Std!Instruction, AnySession!Instruction, Std!Entry, AnySession!Entry
  <2>2. AnySession!Table = Table /\ AnySession!Entry = Entry
      BY Zenon DEF AnySession!Table, Table, AnySession!Entry, Entry
  <2> QED  BY <2>1, <2>2 DEF EncoderInv, AnySession!SessionTypeOK, PipeTypeOK
<1> QED  BY <1>1, <1>2, EncoderInvariant, PipeIsSession, PTL
=============================================================================
