------------------------------ MODULE MCHuffman ------------------------------
(***************************************************************************)
(* Some octets of the real table, one or more for most code lengths.       *)
(* 'D' and 0xaf are there for HuffLongCodes: they are what "a" and 0xc7    *)
(* turn into.  A window that begins with no modelled code counts as        *)
(* aborted, which is why RoundTrip says nothing of aborted decodings.      *)
(***************************************************************************)
EXTENDS HuffString, CommonTables

MCSymbol ==
    { 48,           \* '0', the first entry: 5 bits
      97,           \* 'a': 5
      32,           \* ' ': 6
      58, 68,       \* ':', 'D': 7
      38,           \* '&': 8
      124,          \* '|': 11
      60,           \* '<': 15
      92,           \* '\': 19
      175,          \* 23
      9,            \* tab: 24
      199,          \* 25
      10, 22 }      \* 30; 22 is the last entry

MCCodeLength == [c \in MCSymbol |-> huff_lengths[c + 1]]
MCCode ==
    [c \in MCSymbol |-> {i \in 0 .. 29 : (huff_codes[c + 1] \div 2 ^ i) % 2 = 1}]
=============================================================================
