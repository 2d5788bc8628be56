------------------------------ MODULE HuffWords ------------------------------
(***************************************************************************)
(* The Huffman code of common.h (huff_codes, huff_lengths), and the        *)
(* machine words huff() and decode_huffman() shift codes through.          *)
(*                                                                         *)
(* A word is the set of the positions of its one bits, 0 being the least   *)
(* significant, so that the 32 and 64 bit words of the code keep their     *)
(* width: what is shifted out at the top is lost.                          *)
(***************************************************************************)
EXTENDS Integers, Sequences, SequencesExt

CONSTANTS
    Symbol,        \* the octets of huff_decode_table that are modelled
    Code,          \* huff_codes: the code of each, a word
    CodeLength     \* huff_lengths: its number of bits

\* (1 << k) - 1.
Ones(k) == 0 .. k - 1

\* w << k in an unsigned type of the given width, and w >> k.
ShiftLeft(w, k, width) == {i + k : i \in w} \cap Ones(width)

ShiftRight(w, k) == {i - k : i \in {j \in w : j >= k}}

\* a < b: b has a one above every position where only a has one.
Less(a, b) == \E i \in b \ a : \A j \in a \ b : j < i

\* The low len bits of a word, the most significant first.
BitString(w, len) == [i \in 1 .. len |-> len - i \in w]

-----------------------------------------------------------------------------

CodeString(c) == BitString(Code[c], CodeLength[c])

\* No code begins another, and none is all ones: the string of ones that ends
\* the last octet is never taken for a symbol.
ASSUME CodeAssumption ==
    /\ CodeLength \in [Symbol -> 5 .. 30]
    /\ \A c \in Symbol : Code[c] \subseteq Ones(CodeLength[c]) /\ Code[c] # Ones(CodeLength[c])
    /\ \A c, d \in Symbol : c # d => ~ IsPrefix(CodeString(c), CodeString(d))

\* The code as it stands in huff_decode_table: its first bit is bit 31.
MsbCode == [c \in Symbol |-> ShiftLeft(Code[c], 32 - CodeLength[c], 32)]

-----------------------------------------------------------------------------
(* What the standard prescribes for a string: the codes one after another, *)
(* and ones up to the next octet.                                          *)

StdBits(text) == FlattenSeq([i \in DOMAIN text |-> CodeString(text[i])])

\* The bits of octets, and octets made of bits.
BitsOf(octets) == FlattenSeq([j \in DOMAIN octets |-> BitString(octets[j], 8)])

StdOctets(text) ==
    LET bs == StdBits(text)
        bit(k) == k > Len(bs) \/ bs[k]
    IN  [j \in 1 .. (Len(bs) + 7) \div 8 |-> {i \in Ones(8) : bit(8 * j - i)}]
=============================================================================
