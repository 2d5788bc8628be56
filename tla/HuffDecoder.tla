----------------------------- MODULE HuffDecoder -----------------------------
(***************************************************************************)
(* decode_huffman() and find_code() of unpack.h: one action per turn of    *)
(* the loop.  The caller composes this module and says when it runs.       *)
(***************************************************************************)
EXTENDS HuffWords

VARIABLES
    input,         \* from pos to end
    window,        \* n, a uint64_t: the next bits, from bit 63 down
    windowBits,    \* bits, the number of them
    res,           \* the symbols decoded
    decoder        \* "idle", "running", "done", "aborted": an assert failed

decodeVars == << input, window, windowBits, res, decoder >>

DecodeInit ==
    /\ input = << >>
    /\ window = {}
    /\ windowBits = 0
    /\ res = << >>
    /\ decoder = "idle"

DecodeStart(octets) ==
    /\ input' = octets
    /\ decoder' = "running"
    /\ UNCHANGED << window, windowBits, res >>

-----------------------------------------------------------------------------

\* Mutation: min_bits covers the codes of text only.
RefillShort ==
    LET count == IF windowBits < 16 THEN (23 - windowBits) \div 8 ELSE 0
        octet(j) == IF j <= Len(input) THEN input[j] ELSE Ones(8)
    IN  [bits   |-> windowBits + 8 * count,
         window |-> window \cup
                    UNION {ShiftLeft(octet(j), 64 - (windowBits + 8 * j), 64) : j \in 1 .. count},
         input  |-> SubSeq(input, count + 1, Len(input))]

\* Octets are read until there are min_bits bits, 0xff past the end.
Refill ==
    LET count == IF windowBits < 30 THEN (37 - windowBits) \div 8 ELSE 0
        octet(j) == IF j <= Len(input) THEN input[j] ELSE Ones(8)
    IN  [bits   |-> windowBits + 8 * count,
         window |-> window \cup
                    UNION {ShiftLeft(octet(j), 64 - (windowBits + 8 * j), 64) : j \in 1 .. count},
         input  |-> SubSeq(input, count + 1, Len(input))]

\* Mutation: only 0xffffffff is the end of the string.
IsEosStrict(code) == code = Ones(32)

\* code >= 0xfffffffc.
IsEos(code) == 2 .. 31 \subseteq code

\* What find_code can answer.  The entry with the greatest code that is not
\* above this one: lower_bound finds the first that is not below, and steps
\* back unless it is equal.  When all are below, lower_bound answers the end
\* of the array, which is read: undefined, the step back may happen or not.
FindCode(code) ==
    LET below == {c \in Symbol : ~ Less(code, MsbCode[c])}
    IN  [entries   |-> {c \in below : \A d \in below : ~ Less(MsbCode[c], MsbCode[d])},
         undefined |-> \A c \in Symbol : Less(MsbCode[c], code)]

\* The assert: the code of the entry found is what the window begins with.
Found(code, c) == ShiftRight(code, 32 - CodeLength[c]) = Code[c]

\* The loop ends at the end of the octets, if no bit is pending, or at EOS.
DecodeEnd ==
    /\ decoder = "running"
    /\ (windowBits = 0 /\ input = << >>) \/ IsEos(ShiftRight(Refill.window, 32))
    /\ decoder' = "done"
    /\ UNCHANGED << input, window, windowBits, res >>

\* The symbol that is found leaves the window.
DecodeTake(r, c) ==
    /\ window' = ShiftLeft(r.window, CodeLength[c], 64)
    /\ windowBits' = r.bits - CodeLength[c]
    /\ input' = r.input
    /\ res' = Append(res, c)
    /\ UNCHANGED decoder

DecodeAbort ==
    /\ decoder' = "aborted"
    /\ UNCHANGED << input, window, windowBits, res >>

DecodeSymbol ==
    LET r    == Refill
        code == ShiftRight(r.window, 32)
        find == FindCode(code)
    IN  /\ decoder = "running"
        /\ windowBits # 0 \/ input # << >>
        /\ ~ IsEos(code)
        /\ \/ \E c \in find.entries : IF Found(code, c) THEN DecodeTake(r, c) ELSE DecodeAbort
           \/ find.undefined /\ (DecodeAbort \/ \E c \in Symbol : DecodeTake(r, c))

DecodeNext == DecodeSymbol \/ DecodeEnd
=============================================================================
