----------------------------- MODULE HuffEncoder -----------------------------
(***************************************************************************)
(* huff() of hpack.cc: one action per turn of its loop, and its end.       *)
(* The caller of huff() composes this module.                              *)
(***************************************************************************)
EXTENDS HuffWords

VARIABLES
    text,          \* the part of the argument that has been read
    octets,        \* out
    bits,          \* bits, an unsigned of 32 bits
    n              \* the number of bits that are pending in it

huffVars == << text, octets, bits, n >>

HuffInit ==
    /\ text = << >>
    /\ octets = << >>
    /\ bits = {}
    /\ n = 0

\* Mutation: one octet is left in the word.
DrainLate(out, word, len) ==
    LET count == IF len = 0 THEN 0 ELSE (len - 1) \div 8
        octet(j) == ShiftRight(word, len - 8 * j) \cap Ones(8)
    IN  [out  |-> out \o [j \in 1 .. count |-> octet(j)],
         bits |-> IF count > 0 THEN word \cap Ones(len - 8 * count) ELSE word,
         n    |-> len - 8 * count]

\* Mutation: the octet is taken before len is reduced.
DrainSwapped(out, word, len) ==
    LET octet(j) == ShiftRight(word, len - 8 * (j - 1)) \cap Ones(8)
    IN  [out  |-> out \o [j \in 1 .. len \div 8 |-> octet(j)],
         bits |-> IF len >= 8 THEN word \cap Ones(len % 8) ELSE word,
         n    |-> len % 8]

\* drain: whole octets leave the word, most significant first; the rest is
\* masked, but only when an octet left.
Drain(out, word, len) ==
    LET octet(j) == ShiftRight(word, len - 8 * j) \cap Ones(8)
    IN  [out  |-> out \o [j \in 1 .. len \div 8 |-> octet(j)],
         bits |-> IF len >= 8 THEN word \cap Ones(len % 8) ELSE word,
         n    |-> len % 8]

\* A code, or what is left of it, is appended to the pending bits.
Append32(out, word, pending, code, len) ==
    Drain(out, ShiftLeft(word, len, 32) \cup code, pending + len)

Holding(d) == octets' = d.out /\ bits' = d.bits /\ n' = d.n

\* A code of more than 24 bits is appended in two parts, for want of room.
\* What the first part brings in is code >> (len - 25), not its top bits.
HuffSymbol(c) ==
    LET len   == CodeLength[c]
        first == Append32(octets, bits, n, ShiftRight(Code[c], len - 25), len - 24)
    IN  /\ text' = Append(text, c)
        /\ Holding(IF len > 24
                   THEN Append32(first.out, first.bits, first.n, Code[c], 24)
                   ELSE Append32(octets, bits, n, Code[c], len))

\* Mutation: the padding is zeros.
HuffPaddedZeros ==
    IF n = 0 THEN octets ELSE Append32(octets, bits, n, {}, 7).out

\* What huff() returns: the last octet is filled with ones.
HuffPadded ==
    IF n = 0 THEN octets ELSE Append32(octets, bits, n, Ones(7), 7).out
=============================================================================
