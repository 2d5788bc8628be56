-------------------------------- MODULE Pipe --------------------------------
(***************************************************************************)
(* hpack | hunpack, the pipeline of test_encode in run_tests.py: the       *)
(* encoder of this repository and its decoder, which starts to unpack when *)
(* the encoder has written everything.                                     *)
(***************************************************************************)
EXTENDS Hpack, Unpack

VARIABLES
    fed,     \* hunpack has read its whole input and fed it
    hist     \* history variable, as in Session

pipeVars == << hpackVars, unpackVars, fed, hist >>

\* The pipeline as a session of a standard encoder.
Session == INSTANCE Session WITH
    SizeLimit <- MaxDynamicSize, Sizes <- {}, MaxInstructions <- MaxHeaders,
    stdTable <- encTable.table, stdMax <- MaxDynamicSize

PipeInit ==
    /\ HpackInit
    /\ UnpackInit(MaxDynamicSize)
    /\ fed = FALSE
    /\ hist = << Session!Moment(<< >>, << >>) >>

HpackStep ==
    /\ ~ fed
    /\ HpackNext
    /\ hist' = Append(hist, Session!Moment(encTable'.table, sent'))
    /\ UNCHANGED << unpackVars, fed >>

\* state.feed(read_fully(stdin)).
ReadFully ==
    /\ ~ fed
    /\ fed' = TRUE
    /\ Feed(out)
    /\ UNCHANGED << hpackVars, hist >>

HunpackStep ==
    /\ UnpackNext
    /\ UNCHANGED << hpackVars, fed, hist >>

Exited ==
    /\ fed
    /\ buffer = << >>
    /\ UNCHANGED pipeVars

PipeNext == HpackStep \/ ReadFully \/ HunpackStep \/ Exited

PipeSpec == PipeInit /\ [][PipeNext]_pipeVars

-----------------------------------------------------------------------------

PipeTypeOK ==
    /\ sent \in Seq(Header)
    /\ out \in Seq(Std!Instruction)
    /\ encTable \in Table
    /\ buffer \in Seq(Std!Instruction)
    /\ decTable \in Table
    /\ maxDynamicSize \in 0 .. UIntRange - 1
    /\ decoded \in Seq(Entry)
    /\ fed \in BOOLEAN
    /\ hist \in Seq([table : Seq(Entry), count : Nat])

\* Whatever was pushed and evicted, the encoder's size is exactly the number
\* of bytes of its table and within the budget it shares with the decoder
\* (hpack.cc:147-149).
EncoderAccounting ==
    /\ encTable.size = Bytes(encTable.table)
    /\ encTable.size <= MaxDynamicSize

\* A header is never twice in the encoder's table, which would waste the
\* budget on bytes no index ever refers to (hpack.cc:131).
NoDuplicates ==
    \A i, j \in DOMAIN encTable.table :
        encTable.table[i] = encTable.table[j] => i = j

\* Shrinking after the push never evicts the entry just pushed: a large
\* header is left out of the table instead of "blowing away" the table
\* (hpack.cc:116-120).
NewestSurvives ==
    [][ encTable' # encTable
            => /\ encTable'.table # << >>
               /\ Head(encTable'.table) = Last(sent') ]_pipeVars

\* hpack is a standard encoder: pushing before evicting, its own choice of
\* what to index and its 3/4 rule never make its table differ from the one
\* the standard prescribes, nor write an index that table does not hold.
ImplementsStandard == Session!SessionSpec

\* hunpack prints the headers hpack was given: check_unpack(res, headers) in
\* test_encode of run_tests.py.
Delivery == INSTANCE Delivery WITH received <- decoded
PipeDelivers == Delivery!Spec
=============================================================================
