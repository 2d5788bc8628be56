-------------------------------- MODULE Wire --------------------------------
(***************************************************************************)
(* The decoder on octets: class UnpackState of unpack.h with get_int() and *)
(* get_string(), one action per turn of the loop of unpack().  What is fed *)
(* may end anywhere; the owner says what is fed.                           *)
(*                                                                         *)
(* A text is opaque.  Its two spellings, octet for octet and in Huffman    *)
(* code, are constants: HuffString is about the coding itself.             *)
(***************************************************************************)
EXTENDS Unpack, Octets

CONSTANTS
    Plain, Coded,  \* the octets of each text, as they are and in Huffman code
    Garbled,       \* stands for a text that has no name here
    Overrun        \* the texts on whose Huffman code find_code() may read past
                   \* its table: they have the last code of it, octet 0x16, with
                   \* other than two zeros after it (HuffLastCode)

Text == Name \cup Value

ASSUME WireAssumption ==
    /\ UIntRange = 2 ^ UIntBits
    /\ Plain \in [Text -> Seq(Octet)] /\ Coded \in [Text -> Seq(Octet)]
    /\ \A t, u \in Text : t # u => Plain[t] # Plain[u] /\ Coded[t] # Coded[u]
    /\ \A t \in Name : Len(Plain[t]) = NameLen[t]
    /\ \A t \in Value : Len(Plain[t]) = ValueLen[t]
    /\ \A t \in Text : Len(Plain[t]) \in UInt /\ Len(Coded[t]) \in UInt
    /\ Garbled \in Name \cap Value
    /\ Overrun \subseteq Text /\ Garbled \in Overrun

VARIABLE
    aborted        \* an assertion of get_string or decode_huffman failed

wireVars == << unpackVars, aborted >>

WireInit(max) == UnpackInit(max) /\ aborted = FALSE

-----------------------------------------------------------------------------
(* What an encoder writes.                                                 *)

\* What the standard leaves open: the Huffman code or not, for each string, and
\* one of two marks for what is not to be pushed.
Spelling ==
    [name : {"plain", "coded"}, value : {"plain", "coded"}, unpushed : {"unindexed", "never"}]

StringOctets(form, t) ==
    LET os == IF form = "coded" THEN Coded[t] ELSE Plain[t]
    IN  IntOctets(form, Len(os)) \o os

InstructionOctets(instr, s) ==
    LET arm == IF instr.op \in {"named", "literal"} /\ ~ instr.push THEN s.unpushed ELSE "named"
    IN  CASE instr.op = "indexed" -> IntOctets("indexed", instr.index)
          [] instr.op = "resize"  -> IntOctets("resize", instr.max)
          [] instr.op = "named"   -> IntOctets(arm, instr.index) \o StringOctets(s.value, instr.value)
          [] instr.op = "literal" -> IntOctets(arm, 0) \o StringOctets(s.name, instr.header.name)
                                                       \o StringOctets(s.value, instr.header.value)

\* Those of its strings that are in Huffman code.
CodedTexts(instr, s) ==
    CASE instr.op = "named"   -> {t \in {instr.value} : s.value = "coded"}
      [] instr.op = "literal" -> {t \in {instr.header.name} : s.name = "coded"}
                                     \cup {t \in {instr.header.value} : s.value = "coded"}
      [] OTHER                -> {}

-----------------------------------------------------------------------------
(* What the decoder makes of it.                                           *)

\* decode_huffman, if it returns, or the octets themselves.
TextOf(spelling, os) ==
    IF \E t \in Text : spelling[t] = os THEN CHOOSE t \in Text : spelling[t] = os ELSE Garbled

\* get_string reads the length, with the flag of the Huffman code above it.
Length(os) == ReadInt("plain", os)

\* The assertions of get_string: there is an octet, and as many more as the length says.
Fits(os) == os # << >> /\ Length(os).val <= Len(Length(os).rest)

\* Mutation: whether the string is in Huffman code is not looked at.
StringAsIs(os) == TextOf(Plain, SubSeq(Length(os).rest, 1, Length(os).val))

String(os) ==
    TextOf(IF Head(os) >= More THEN Coded ELSE Plain, SubSeq(Length(os).rest, 1, Length(os).val))

\* Mutation: pos is not moved past the string.
AfterLength(os) == Length(os).rest

\* What follows the string.
AfterString(os) == SubSeq(Length(os).rest, Length(os).val + 1, Len(Length(os).rest))

\* decode_huffman may fail its assertion: what is read past the table is no code
\* that the window begins with.  In the program another constant is there, text
\* or lengths of codes (huff_lengths, as the Makefile builds it), while the
\* window begins with ones.  Were it above the window, the step back in
\* find_code() would find the right code.
Overruns(os) == Head(os) >= More /\ String(os) \in Overrun

Running == ~ aborted /\ buffer # << >>

FirstArm == Arm(Head(buffer))

FirstInt == ReadInt(FirstArm, buffer)

TurnIndexed ==
    /\ Running
    /\ FirstArm = "indexed" /\ FirstInt.val # 0
    /\ Deliver(Get(decTable.table, FirstInt.val), FALSE)
    /\ buffer' = FirstInt.rest
    /\ UNCHANGED aborted

TurnResize ==
    /\ Running
    /\ FirstArm = "resize"
    /\ maxDynamicSize' = FirstInt.val
    /\ decTable' = Shrink(decTable, maxDynamicSize')
    /\ buffer' = FirstInt.rest
    /\ UNCHANGED << decoded, aborted >>

\* Mutation: what is not to be indexed is pushed all the same.
TurnNamedPushes ==
    /\ Running
    /\ FirstArm \in {"named", "unindexed"} /\ FirstInt.val # 0
    /\ Fits(FirstInt.rest)
    /\ Deliver([name  |-> Get(decTable.table, FirstInt.val).name,
                value |-> String(FirstInt.rest)],
               TRUE)
    /\ buffer' = AfterString(FirstInt.rest)
    /\ UNCHANGED aborted

TurnNamed ==
    /\ Running
    /\ FirstArm \in {"named", "unindexed"} /\ FirstInt.val # 0
    /\ Fits(FirstInt.rest)
    /\ Deliver([name  |-> Get(decTable.table, FirstInt.val).name,
                value |-> String(FirstInt.rest)],
               FirstArm = "named")
    /\ buffer' = AfterString(FirstInt.rest)
    /\ UNCHANGED aborted

\* An index of 0 stands for two strings, whatever the arm.
TwoStrings == FirstArm # "resize" /\ FirstInt.val = 0

TurnLiteral ==
    /\ Running
    /\ TwoStrings
    /\ Fits(FirstInt.rest) /\ Fits(AfterString(FirstInt.rest))
    /\ Deliver([name  |-> String(FirstInt.rest),
                value |-> String(AfterString(FirstInt.rest))],
               FirstArm = "named")
    /\ buffer' = AfterString(AfterString(FirstInt.rest))
    /\ UNCHANGED aborted

\* The strings of the arm, one or two, as far as they can be read.
StringFails(os) == Fits(os) => Overruns(os)
SomeStringFails ==
    \/ StringFails(FirstInt.rest)
    \/ TwoStrings /\ Fits(FirstInt.rest) /\ StringFails(AfterString(FirstInt.rest))

\* Mutation: the octet is skipped, and decoding goes on at the next.
TurnAbortsNot ==
    /\ Running
    /\ FirstArm \in {"named", "unindexed"} \/ TwoStrings
    /\ SomeStringFails
    /\ buffer' = Tail(buffer)
    /\ UNCHANGED << decTable, maxDynamicSize, decoded, aborted >>

\* A string is missing or does not fit, or its code is not understood.
TurnAborts ==
    /\ Running
    /\ FirstArm \in {"named", "unindexed"} \/ TwoStrings
    /\ SomeStringFails
    /\ aborted' = TRUE
    /\ UNCHANGED unpackVars

Turn == TurnIndexed \/ TurnResize \/ TurnNamed \/ TurnLiteral \/ TurnAborts
=============================================================================
