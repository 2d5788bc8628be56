----------------------------- MODULE HuffString -----------------------------
(***************************************************************************)
(* A string on its way: put_string() of hpack.cc, which takes huff()'s     *)
(* answer when it is shorter, or another encoder of the standard, which    *)
(* may use the Huffman code for any string; then get_string() of unpack.h. *)
(*                                                                         *)
(* The length that stands before the octets is left to IntCodec.           *)
(***************************************************************************)
EXTENDS HuffEncoder, HuffDecoder

CONSTANTS
    HpackSymbol,   \* the octets in the strings given to hpack
    OtherSymbol,   \* the octets in the strings given to the other encoder
    MaxLength      \* bound: the length of a string

ASSUME StringAssumption ==
    /\ HpackSymbol \subseteq Symbol
    /\ OtherSymbol \subseteq Symbol
    /\ MaxLength \in Nat

VARIABLE
    wire           \* what was written: nothing yet, or one string

Coded(string) == [huffman |-> TRUE, octets |-> string]
Plain(string) == [huffman |-> FALSE, plain |-> string]

stringVars == << huffVars, decodeVars, wire >>

StringInit ==
    /\ HuffInit
    /\ DecodeInit
    /\ wire = << >>

Written == wire # << >>

\* huff() reads one more octet of the string.
PutSymbol(c) ==
    /\ ~ Written
    /\ Len(text) < MaxLength
    /\ HuffSymbol(c)
    /\ UNCHANGED << decodeVars, wire >>

\* huff() returns and put_string() writes the shorter of the two.
PutString ==
    /\ ~ Written
    /\ wire' = << IF Len(HuffPadded) < Len(text) THEN Coded(HuffPadded) ELSE Plain(text) >>
    /\ UNCHANGED << huffVars, decodeVars >>

\* Another encoder writes the codes of the whole string.
OtherString(string) ==
    /\ ~ Written
    /\ text = << >>
    /\ text' = string
    /\ wire' = << Coded(StdOctets(string)) >>
    /\ UNCHANGED << octets, bits, n, decodeVars >>

\* get_string() with the Huffman flag, and without it.
GetCoded ==
    /\ Written
    /\ decoder = "idle"
    /\ Head(wire).huffman
    /\ DecodeStart(Head(wire).octets)
    /\ UNCHANGED << huffVars, wire >>

GetPlain ==
    /\ Written
    /\ decoder = "idle"
    /\ ~ Head(wire).huffman
    /\ res' = Head(wire).plain
    /\ decoder' = "done"
    /\ UNCHANGED << input, window, windowBits, huffVars, wire >>

Decode ==
    /\ DecodeNext
    /\ UNCHANGED << huffVars, wire >>

Stopped ==
    /\ decoder \in {"done", "aborted"}
    /\ UNCHANGED stringVars

StringNext ==
    \/ \E c \in HpackSymbol : PutSymbol(c)
    \/ PutString
    \/ \E k \in 0 .. MaxLength : \E string \in [1 .. k -> OtherSymbol] : OtherString(string)
    \/ GetCoded
    \/ GetPlain
    \/ Decode
    \/ Stopped

StringSpec == StringInit /\ [][StringNext]_stringVars

\* A string is finite and is written; nothing blocks the decoder.
StringFairSpec ==
    StringSpec /\ WF_stringVars(PutString) /\ WF_stringVars(GetCoded)
               /\ WF_stringVars(GetPlain) /\ WF_stringVars(Decode)

-----------------------------------------------------------------------------

StringTypeOK ==
    /\ text \in Seq(Symbol)
    /\ octets \in Seq(SUBSET Ones(8))
    /\ bits \subseteq Ones(32)
    /\ n \in 0 .. 7
    /\ input \in Seq(SUBSET Ones(8))
    /\ window \subseteq Ones(64)
    /\ windowBits \in 0 .. 37
    /\ res \in Seq(Symbol)
    /\ decoder \in {"idle", "running", "done", "aborted"}

\* Between two symbols the octets written and the n pending bits are the
\* codes of the symbols read: nothing is lost or repeated at the edge of an
\* octet (hpack.cc:46-66).
PendingBits ==
    Written \/ BitsOf(octets) \o BitString(bits, n) = StdBits(text)

\* What huff() would return at this point is the coding of the standard, so
\* any decoder understands it (hpack.cc:67-72).
HuffIsStandard == Written \/ HuffPadded = StdOctets(text)

\* The decoder never takes padding for a symbol, never drops one and never
\* finds a code it does not know (unpack.h:35-49).
DecodesText ==
    /\ decoder # "aborted"
    /\ IsPrefix(res, text)
    /\ decoder = "done" => res = text

\* What is printed is what was given: check_unpack() of run_tests.py.
RoundTrip == decoder = "done" => res = text

\* No assertion of the decoder fails (unpack.h:46).
NeverAborts == decoder # "aborted"

\* Every string that is written, the empty one included, arrives: there is no
\* padding that the loop of decode_huffman reads for ever (unpack.h:23, 36).
StringArrives == <>(decoder = "done")
=============================================================================
