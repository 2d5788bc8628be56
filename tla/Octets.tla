------------------------------- MODULE Octets -------------------------------
(***************************************************************************)
(* The integers on the wire, each written or read in one step: what        *)
(* put_int() of hpack.cc writes, what get_int() of unpack.h makes of it,   *)
(* and the forms that unpack() and get_string() tell apart by the first    *)
(* octet.  IntCodec has the loops, and shows that they compute this.       *)
(*                                                                         *)
(* An octet is GroupBits + 1 bits wide and unsigned is UIntBits wide.      *)
(***************************************************************************)
EXTENDS Integers, Sequences, FiniteSetsExt

CONSTANTS
    GroupBits,     \* the bits of the value in a continuation octet (7)
    UIntBits       \* the width of unsigned (32)

ASSUME OctetAssumption ==
    /\ GroupBits \in Nat /\ GroupBits > 3
    /\ UIntBits \in Nat /\ UIntBits > GroupBits

UInt == 0 .. 2 ^ UIntBits - 1

\* The continuation bit, the top bit of an octet.
More == 2 ^ GroupBits

Octet == 0 .. 2 * More - 1

\* The number of groups of the largest value.
MaxGroups == (UIntBits + GroupBits - 1) \div GroupBits

\* The forms of instruction, each marked by one bit of the first octet that is
\* the highest set.  The lowest has a bit for "never indexed" that the decoder
\* ignores.  The length of a string is marked by the flag of the Huffman code.
Form == {"indexed", "named", "resize", "unindexed", "never"}

Mark == [f \in Form \cup {"coded", "plain"} |->
            CASE f \in {"indexed", "coded"}   -> 2 ^ GroupBits
              [] f = "named"                  -> 2 ^ (GroupBits - 1)
              [] f = "resize"                 -> 2 ^ (GroupBits - 2)
              [] f = "never"                  -> 2 ^ (GroupBits - 3)
              [] f \in {"unindexed", "plain"} -> 0]

\* The number of bits the value has in the first octet.
Prefix == [f \in DOMAIN Mark |->
            CASE f \in {"indexed", "coded", "plain"} -> GroupBits
              [] f = "named"                         -> GroupBits - 1
              [] f = "resize"                        -> GroupBits - 2
              [] f \in {"never", "unindexed"}        -> GroupBits - 3]

\* maxval of put_int, and mask() of get_int.
MaxVal(f) == 2 ^ Prefix[f] - 1

\* The arm of unpack() that a first octet leads to.
Arm(b) ==
    CASE b >= Mark["indexed"] -> "indexed"
      [] b < Mark["indexed"] /\ b >= Mark["named"] -> "named"
      [] b < Mark["named"] /\ b >= Mark["resize"] -> "resize"
      [] OTHER -> "unindexed"

\* What the value of the k-th group is shifted by, as a factor.
Weight(k) == 2 ^ (GroupBits * (k - 1))

\* The number of groups of a value: one if it is 0.
GroupsOf(v) == Min({k \in 1 .. MaxGroups : v < Weight(k + 1)})

\* Groups of the value, the least significant first, all but the last marked.
VintOctets(v) ==
    LET n == GroupsOf(v)
    IN  [k \in 1 .. n |-> ((v \div Weight(k)) % More) + IF k < n THEN More ELSE 0]

IntOctets(f, v) ==
    IF v < MaxVal(f)
    THEN << Mark[f] + v >>
    ELSE << Mark[f] + MaxVal(f) >> \o VintOctets(v - MaxVal(f))

\* What the first k groups come to.
GroupSum(os) ==
    LET sum[k \in 0 .. Len(os)] ==
            IF k = 0 THEN 0 ELSE sum[k - 1] + (os[k] % More) * Weight(k)
    IN  sum

\* get_int: the value, and what follows it.  The groups end with an octet that
\* is not marked, or with the octets.
ReadInt(f, os) ==
    LET first == Head(os) % (MaxVal(f) + 1)
        more  == Tail(os)
        n     == Min({k \in DOMAIN more : more[k] < More} \cup {Len(more)})
    IN  IF first < MaxVal(f)
        THEN [val |-> first, rest |-> more]
        ELSE [val  |-> (MaxVal(f) + GroupSum(more)[n]) % 2 ^ UIntBits,
              rest |-> SubSeq(more, n + 1, Len(more))]
=============================================================================
