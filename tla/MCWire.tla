------------------------------- MODULE MCWire -------------------------------
(***************************************************************************)
(* A small instance of the octets: 6 bits each, so that an index of 31, an *)
(* unindexed name of index 3 and a size of 7 need a second octet.  The     *)
(* static table fills the indices up to 30: the second entry of the        *)
(* dynamic table, at 32, is where a cut index is taken for another.        *)
(* The table holds two entries of the small headers.                       *)
(***************************************************************************)
EXTENDS Integers, Sequences

Invalid == "invalid table index"

\* Texts that are never written are spelled with octets that never appear.
MCPlain ==
    [t \in {"", "m", "x", "yy", "f", Invalid, "?"} |->
        CASE t = ""      -> << >>
          [] t = "m"     -> << 41 >>
          [] t = "x"     -> << 42 >>
          [] t = "yy"    -> << 1, 33 >>
          [] t = "f"     -> << 61 >>
          [] t = Invalid -> [i \in 1 .. 19 |-> 62]
          [] t = "?"     -> << 63 >>]

\* The Huffman code of a short text is not shorter; of "yy" it is.
MCCoded == [t \in DOMAIN MCPlain |-> IF t = "yy" THEN << 40 >> ELSE MCPlain[t]]

\* The code of "x" is one that find_code() does not know.
MCOverrun == { "x", "?" }

MCText == DOMAIN MCPlain
MCLen == [t \in MCText |-> Len(MCPlain[t])]
MCRank ==
    [t \in MCText |->
        CASE t = ""  -> 0 [] t = "?" -> 1 [] t = "f" -> 2 [] t = Invalid -> 3
          [] t = "m" -> 4 [] t = "x" -> 5 [] t = "yy" -> 6]

H(name, value) == [name |-> name, value |-> value]

MCStaticTable == [i \in 1 .. 30 |-> IF i = 30 THEN H("m", "") ELSE H("f", "")]
=============================================================================
