-------------------------------- MODULE Lines --------------------------------
(***************************************************************************)
(* The text on both sides of the compression.  hpack and ng_hpack scan     *)
(* "name: value" lines, one turn of the loop for each; hunpack prints such *)
(* lines.  What it prints is then given to the encoder once more.          *)
(* What happens to the headers in between is the other modules' matter,    *)
(* but for the copies that ng_hpack makes of them for nghttp2.             *)
(*                                                                         *)
(* Pointers into the text are positions in it; that of the NUL at the end  *)
(* is Len(text) + 1.  A null pointer is 0.                                 *)
(***************************************************************************)
EXTENDS Integers, Sequences, FiniteSets, SequencesExt, FiniteSetsExt

CONSTANTS
    Letter,        \* the characters that mean nothing to the scan
    MaxLength      \* bound: the length of the text

NUL == "nul"
NL == "newline"
COLON == "colon"
SPACE == "space"
Char == Letter \cup {NUL, NL, COLON, SPACE}

ASSUME LinesAssumption ==
    /\ Letter \cap {NUL, NL, COLON, SPACE} = {}
    /\ MaxLength \in Nat

VARIABLES
    program,       \* the encoder: "hpack" or "ng_hpack"
    text,          \* input
    pos,           \* where the next line begins
    headers,       \* the headers encoded, or header_list
    phase,         \* "scan", "deflate", "print"
    died,          \* by a signal, an exception or abort()
    round          \* 1, or 2 when the text is what hunpack printed

linesVars == << program, text, pos, headers, phase, died, round >>

LinesInit ==
    /\ program \in {"hpack", "ng_hpack"}
    /\ \E n \in 0 .. MaxLength : text \in [1 .. n -> Char]
    /\ pos = 1 /\ headers = << >> /\ phase = "scan" /\ died = FALSE /\ round = 1

At(i) == IF i \in DOMAIN text THEN text[i] ELSE NUL

\* Mutation: memchr.
MemChr(from, c) ==
    LET found == {i \in from .. Len(text) : text[i] = c}
    IN  IF found = {} THEN 0 ELSE Min(found)

StrChr(from, c) ==
    LET found == {i \in from .. Len(text) : text[i] = c /\ \A j \in from .. i : text[j] # NUL}
    IN  IF found = {} THEN 0 ELSE Min(found)

End == StrChr(pos, NL)

NextPos == IF End # 0 THEN End + 1 ELSE Len(text) + 1

\* Mutation: the search for the name's end does not skip its first character.
NameEndAtOnce == StrChr(pos, COLON)

NameEnd == StrChr(pos + 1, COLON)

\* Mutation: strspn is missing.
ValueStartAtOnce == NameEnd + 1

ValueStart == Min({i \in NameEnd + 1 .. Len(text) + 1 : At(i) # SPACE})

ValueEnd == IF End # 0 THEN End ELSE Len(text) + 1

\* Mutation: a value must not be empty.
WellFormedNonempty == NameEnd # 0 /\ ValueStart < ValueEnd

\* Otherwise strspn is given a null pointer, or string a negative length.
WellFormed == NameEnd # 0 /\ ValueStart <= ValueEnd

Scanning == phase = "scan" /\ ~ died /\ At(pos) # NUL

\* Mutation: a line must end with a newline.
ScanLineEnded ==
    /\ Scanning
    /\ WellFormed /\ End # 0
    /\ headers' = Append(headers, [name  |-> SubSeq(text, pos, NameEnd - 1),
                                   value |-> SubSeq(text, ValueStart, ValueEnd - 1)])
    /\ pos' = NextPos
    /\ UNCHANGED << program, text, phase, died, round >>

ScanLine ==
    /\ Scanning
    /\ WellFormed
    /\ headers' = Append(headers, [name  |-> SubSeq(text, pos, NameEnd - 1),
                                   value |-> SubSeq(text, ValueStart, ValueEnd - 1)])
    /\ pos' = NextPos
    /\ UNCHANGED << program, text, phase, died, round >>

ScanDies ==
    /\ Scanning
    /\ ~ WellFormed
    /\ died' = TRUE
    /\ UNCHANGED << program, text, pos, headers, phase, round >>

ScanEnds ==
    /\ phase = "scan" /\ ~ died
    /\ At(pos) = NUL
    /\ phase' = IF program = "hpack" THEN "print" ELSE "deflate"
    /\ UNCHANGED << program, text, pos, headers, died, round >>

-----------------------------------------------------------------------------

\* What a C string is to strdup and printf.
CString(s) == SubSeq(s, 1, Min({i \in DOMAIN s : s[i] = NUL} \cup {Len(s) + 1}) - 1)

\* strdup() copies a C string, while the length is that of the whole string:
\* nghttp2 reads beyond the copy, and finds anything.
Copied(s, junk) == [i \in DOMAIN s |-> IF i <= Len(CString(s)) + 1 THEN s[i] ELSE junk]

Deflate ==
    /\ phase = "deflate" /\ ~ died
    /\ phase' = "print"
    /\ \E junk \in Char :
          headers' = [i \in DOMAIN headers |-> [name  |-> Copied(headers[i].name, junk),
                                               value |-> Copied(headers[i].value, junk)]]
    /\ UNCHANGED << program, text, pos, died, round >>

\* Where nothing can be read, or nghttp2 reports an error.
DeflateDies ==
    /\ phase = "deflate" /\ ~ died
    /\ died' = TRUE
    /\ UNCHANGED << program, text, pos, headers, phase, round >>

Line(h) == CString(h.name) \o << COLON, SPACE >> \o CString(h.value) \o << NL >>

Printed(hs) == FlattenSeq([i \in DOMAIN hs |-> Line(hs[i])])

\* hunpack prints the headers; the encoder is given what it printed.
HunpackPrints ==
    /\ phase = "print" /\ round = 1
    /\ text' = Printed(headers)
    /\ pos' = 1 /\ headers' = << >> /\ phase' = "scan" /\ round' = 2
    /\ UNCHANGED << program, died >>

LinesEnded ==
    /\ died \/ (phase = "print" /\ round = 2)
    /\ UNCHANGED linesVars

LinesStep == ScanLine \/ ScanDies \/ ScanEnds \/ Deflate \/ DeflateDies \/ HunpackPrints

LinesNext == LinesStep \/ LinesEnded

\* The programs run: nothing blocks them.
LinesSpec == LinesInit /\ [][LinesNext]_linesVars /\ WF_linesVars(LinesStep)

-----------------------------------------------------------------------------

\* Types.  A header has a name, without a ':' after its first character, a
\* newline or a NUL.
LinesTypeOK ==
    /\ text \in Seq(Char) /\ pos \in 1 .. Len(text) + 1
    /\ phase \in {"scan", "deflate", "print"} /\ round \in {1, 2} /\ died \in BOOLEAN
    /\ \A i \in DOMAIN headers :
          /\ headers[i].name \in Seq(Char \ {NUL, NL}) \ {<< >>}
          /\ COLON \notin Range(Tail(headers[i].name))
          /\ headers[i].value \in Seq(Char)

\* The lines of the text, up to a NUL: where they start, and what is on them.
LineStarts == {i \in DOMAIN CString(text) : i = 1 \/ text[i - 1] = NL}

LineAt(i) ==
    SubSeq(text, i, Min({j \in i .. Len(CString(text)) : text[j] = NL} \cup {Len(CString(text)) + 1}) - 1)

\* The number of the line that starts at i.
LineNumber(i) == Cardinality({j \in LineStarts : j <= i})

\* The headers are those of the lines, in order and none left out, and only
\* spaces are lost: no name or value reaches from one line into another,
\* whatever stands where (hpack.cc:98-108, ng_hpack.cc:19-36).
HeadersAreLines ==
    /\ \A k \in DOMAIN headers : \E i \in LineStarts :
          /\ LineNumber(i) = k
          /\ \E n \in 0 .. Len(text) :
                headers[k].name \o << COLON >> \o [j \in 1 .. n |-> SPACE]
                    \o CString(headers[k].value) = LineAt(i)
    /\ phase # "scan" => Len(headers) = Cardinality(LineStarts)

\* The scan dies only at a line that has no ':' after its first character
\* (hpack.cc:103, 107, 108).
DiesOnBadLine ==
    (died /\ phase = "scan") => COLON \notin Range(SubSeq(LineAt(pos), 2, Len(LineAt(pos))))

\* What hunpack prints is scanned without failure, and comes out as it went
\* in: un_headers == headers, as run_tests.py:100 has it for such text.
PrintedIsFixed ==
    round = 2 =>
        /\ IsPrefix(Printed(headers), text)
        /\ phase # "scan" => Printed(headers) = text
        /\ died => phase = "deflate"

\* The loop ends, with or without a newline at the end (hpack.cc:98, 101).
LinesEnd == <>(died \/ (phase = "print" /\ round = 2))
=============================================================================
