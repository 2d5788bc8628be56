------------------------------ MODULE IntCodec ------------------------------
(***************************************************************************)
(* The integers on the wire: put_int() and put_vint() of hpack.cc, one     *)
(* action per octet written, and the dispatch on the first octet in        *)
(* unpack() with get_int() of unpack.h, one action per octet read.         *)
(***************************************************************************)
EXTENDS Octets

CONSTANT MaxPad    \* bound: the empty groups another encoder appends

ASSUME PadAssumption == MaxPad \in Nat

VARIABLES
    form, value,       \* what is put
    octets,            \* the octets written
    rest,              \* value in put_vint: what is left to write
    putting,           \* "idle", "vint" or "done"
    pads,              \* the empty groups written
    input,             \* the octets from pos to input_end
    after,             \* what follows the integer in the input
    cut,               \* the input ends inside the integer
    gotForm, got,      \* the arm of unpack() taken, and val
    bitpos,            \* bitpos of get_int
    getting            \* "idle", "vint" or "done"

putVars == << form, value, octets, rest, putting, pads >>
getVars == << input, after, cut, gotForm, got, bitpos, getting >>
intVars == << putVars, getVars >>

IntInit ==
    /\ form = "indexed" /\ value = 0
    /\ octets = << >> /\ rest = 0 /\ putting = "idle" /\ pads = 0
    /\ input = << >> /\ after = << >> /\ cut = FALSE
    /\ gotForm = "indexed" /\ got = 0 /\ bitpos = 0 /\ getting = "idle"

-----------------------------------------------------------------------------

\* Mutation: the largest value of the prefix is written without the rest.
PutIntInclusive(f, v) ==
    /\ putting = "idle"
    /\ form' = f /\ value' = v
    /\ octets' = << Mark[f] + (IF v <= MaxVal(f) THEN v ELSE MaxVal(f)) >>
    /\ IF v <= MaxVal(f)
       THEN putting' = "done" /\ UNCHANGED rest
       ELSE putting' = "vint" /\ rest' = v - MaxVal(f)
    /\ UNCHANGED << pads, getVars >>

PutInt(f, v) ==
    /\ putting = "idle"
    /\ form' = f /\ value' = v
    /\ octets' = << Mark[f] + (IF v < MaxVal(f) THEN v ELSE MaxVal(f)) >>
    /\ IF v < MaxVal(f)
       THEN putting' = "done" /\ UNCHANGED rest
       ELSE putting' = "vint" /\ rest' = v - MaxVal(f)
    /\ UNCHANGED << pads, getVars >>

\* Mutation: the value is not shifted.
PutVintUnshifted ==
    /\ putting = "vint"
    /\ rest >= More
    /\ octets' = Append(octets, More + (rest % More))
    /\ UNCHANGED << rest, form, value, putting, pads, getVars >>

\* Mutation: the loop goes on for the largest value of an octet.
PutVintEager ==
    /\ putting = "vint"
    /\ rest >= More - 1
    /\ octets' = Append(octets, More + (rest % More))
    /\ rest' = rest \div More
    /\ UNCHANGED << form, value, putting, pads, getVars >>

\* A turn of the loop of put_vint, and what follows it.
PutVintMore ==
    /\ putting = "vint"
    /\ rest >= More
    /\ octets' = Append(octets, More + (rest % More))
    /\ rest' = rest \div More
    /\ UNCHANGED << form, value, putting, pads, getVars >>

PutVintEnd ==
    /\ putting = "vint"
    /\ rest < More
    /\ octets' = Append(octets, rest)
    /\ putting' = "done"
    /\ UNCHANGED << form, value, rest, pads, getVars >>

\* Another encoder may go on with groups of no value; hpack does not.
OtherPads ==
    /\ putting = "vint"
    /\ rest < More
    /\ pads < MaxPad
    /\ octets' = Append(octets, More + rest)
    /\ rest' = 0
    /\ pads' = pads + 1
    /\ UNCHANGED << form, value, putting, getVars >>

-----------------------------------------------------------------------------

\* The rest of the input is fed with the integer, or only a part of it.
Feed ==
    /\ putting = "done" /\ getting = "idle" /\ input = << >>
    /\ \/ \E t \in {<< >>, << 0 >>, << 2 * More - 1 >>} :
             input' = octets \o t /\ after' = t /\ cut' = FALSE
       \/ \E k \in 1 .. Len(octets) - 1 :
             input' = SubSeq(octets, 1, k) /\ after' = << >> /\ cut' = TRUE
    /\ UNCHANGED << putVars, gotForm, got, bitpos, getting >>

\* byte1 & b1_mask.
GetInt ==
    /\ getting = "idle" /\ input # << >>
    /\ input' = Tail(input)
    /\ gotForm' = Arm(Head(input))
    /\ LET low == Head(input) % (MaxVal(gotForm') + 1)
       IN  IF low < MaxVal(gotForm')
           THEN got' = low /\ getting' = "done"
           ELSE got' = 0 /\ getting' = "vint"
    /\ UNCHANGED << putVars, after, cut, bitpos >>

\* (b & 0x7f) << bitpos, converted to unsigned.  A shift by the width or more
\* is undefined: the processor reduces the count, or the result is zero.
Shifted(b) ==
    LET group == b % More
    IN  IF bitpos < UIntBits
        THEN {(group * 2 ^ bitpos) % 2 ^ UIntBits}
        ELSE {0, (group * 2 ^ (bitpos % UIntBits)) % 2 ^ UIntBits}

\* Mutation: the groups are read with the most significant one first.
GetVintBigEndian ==
    /\ getting = "vint" /\ input # << >>
    /\ input' = Tail(input)
    /\ got' = ((got * More) + (Head(input) % More)
                + IF Head(input) < More THEN MaxVal(gotForm) ELSE 0) % 2 ^ UIntBits
    /\ bitpos' = bitpos + GroupBits
    /\ getting' = IF Head(input) < More THEN "done" ELSE "vint"
    /\ UNCHANGED << putVars, after, cut, gotForm >>

\* A turn of the loop.  The bits of the groups are apart, so that |= adds
\* them.  At an octet without the continuation bit, b1_mask is added.
GetVint ==
    /\ getting = "vint" /\ input # << >>
    /\ input' = Tail(input)
    /\ \E s \in Shifted(Head(input)) :
          got' = (got + s + IF Head(input) < More THEN MaxVal(gotForm) ELSE 0) % 2 ^ UIntBits
    /\ bitpos' = bitpos + GroupBits
    /\ getting' = IF Head(input) < More THEN "done" ELSE "vint"
    /\ UNCHANGED << putVars, after, cut, gotForm >>

\* Mutation: the loop waits for an octet.
GetVintCutWaits ==
    /\ getting = "vint" /\ input = << >>
    /\ UNCHANGED intVars

\* pos < end fails: what was read is taken for the integer.
GetVintCut ==
    /\ getting = "vint" /\ input = << >>
    /\ got' = (got + MaxVal(gotForm)) % 2 ^ UIntBits
    /\ getting' = "done"
    /\ UNCHANGED << putVars, input, after, cut, gotForm, bitpos >>

Returned ==
    /\ getting = "done"
    /\ UNCHANGED intVars

IntNext ==
    \/ \E f \in Form : \E v \in UInt : PutInt(f, v)
    \/ PutVintMore \/ PutVintEnd \/ OtherPads
    \/ Feed \/ GetInt \/ GetVint \/ GetVintCut
    \/ Returned

IntSpec == IntInit /\ [][IntNext]_intVars

\* Both are loops that nothing blocks; padding need not happen.
IntFairSpec ==
    /\ IntSpec
    /\ WF_intVars(PutVintMore) /\ WF_intVars(PutVintEnd) /\ WF_intVars(Feed)
    /\ WF_intVars(GetInt) /\ WF_intVars(GetVint) /\ WF_intVars(GetVintCut)

-----------------------------------------------------------------------------

IntTypeOK ==
    /\ form \in Form /\ value \in UInt
    /\ octets \in Seq(Octet) /\ Len(octets) <= 1 + MaxGroups + MaxPad
    /\ rest \in UInt
    /\ putting \in {"idle", "vint", "done"}
    /\ pads \in 0 .. MaxPad
    /\ input \in Seq(Octet) /\ after \in Seq(Octet) /\ cut \in BOOLEAN
    /\ gotForm \in Form \ {"never"} /\ got \in UInt
    /\ bitpos \in {GroupBits * k : k \in 0 .. MaxGroups + MaxPad}
    /\ getting \in {"idle", "vint", "done"}

\* The decoder takes the arm the encoder meant, computes the value, and
\* stands at the octet that follows: whatever the value and the prefix, also
\* if the encoder pads (hpack.cc:16-34, unpack.h:62-80, 121-138).
IntegerRoundTrip ==
    (getting = "done" /\ ~ cut)
        => /\ gotForm = IF form = "never" THEN "unindexed" ELSE form
           /\ got = value
           /\ input = after

\* The loops write and read what Octets says in one step, which Wire builds on:
\* the shortest form, and the same value and position also when the encoder
\* pads (hpack.cc:16-34, unpack.h:62-80).
LoopsComputeOctets ==
    /\ (putting = "done" /\ pads = 0) => octets = IntOctets(form, value)
    /\ (getting = "done" /\ ~ cut)
          => ReadInt(gotForm, octets \o after) = [val |-> got, rest |-> input]

\* An integer that is cut short is taken for one that is not larger, and
\* nothing past the end of the input is read (unpack.h:71).
CutFallsShort == (getting = "done" /\ cut) => (got <= value /\ input = << >>)

\* Every integer that is put is read, be it in full or cut short.
IntegerArrives == (putting # "idle") ~> (getting = "done")
=============================================================================
