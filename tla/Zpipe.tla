-------------------------------- MODULE Zpipe --------------------------------
(***************************************************************************)
(* zpipe: def() and inf(), which pump a file through deflate() or          *)
(* inflate(), one action per turn of their loops, main(), and what exit()  *)
(* does after main(): it writes what stdio has in the buffer of stdout.    *)
(*                                                                         *)
(* zlib is modelled by its contract.  A compressed stream is a sequence of *)
(* octets; each carries some octets of the plain text, but for the last,   *)
(* END.  A plain text is the number of its octets.  The stream that is     *)
(* inflated may be cut short, wrong (BAD), or followed by something else.  *)
(***************************************************************************)
EXTENDS Integers, Sequences, SequencesExt, FiniteSetsExt

CONSTANTS
    CHUNK,         \* the size of the buffers (16384)
    MaxCarried,    \* bound: the plain octets that a compressed one carries
    MaxFile        \* bound: the length of what is read

ASSUME ZpipeAssumption == CHUNK \in Nat \ {0} /\ MaxCarried \in Nat \ {0} /\ MaxFile \in Nat

END == 0
BAD == -1
Carrier == 1 .. MaxCarried

Plain(o) == IF o \in Carrier THEN o ELSE 0

\* The plain octets that the first k octets of a stream carry.
Sums(s) ==
    LET sum[k \in 0 .. Len(s)] == IF k = 0 THEN 0 ELSE sum[k - 1] + Plain(s[k])
    IN  sum

Carried(s) == Sums(s)[Len(s)]

StreamsUpTo(n, S) == UNION {[1 .. k -> S] : k \in 0 .. n}

VARIABLES
    defl,          \* def() is running, not inf()
    source,        \* what is given: a number of octets, or a stream
    done,          \* how many of them fread() has delivered
    in,            \* what deflate() has left of the last ones, or inflate()
    flush,         \* feof() was true
    held,          \* the plain octets inside zlib
    dest,          \* what fwrite() took: a stream, or a number of octets
    written,       \* how many of its octets are in the file, not in stdio's buffer
    ret,           \* what zlib answered last
    loop,          \* "start", "read", "pump", "returned", "exited", "asserted"
    failed,        \* fread() or fwrite() failed
    lost,          \* the write at exit failed
    code           \* what main() returns

zpipeVars ==
    << defl, source, done, in, flush, held, dest, written, ret, loop, failed, lost, code >>

ZpipeInit ==
    /\ defl \in BOOLEAN
    /\ source \in IF defl THEN 0 .. MaxFile ELSE StreamsUpTo(MaxFile, Carrier \cup {END, BAD})
    /\ done = 0
    /\ in = IF defl THEN 0 ELSE << >>
    /\ flush = FALSE /\ held = 0
    /\ dest = IF defl THEN << >> ELSE 0
    /\ written = 0 /\ lost = FALSE
    /\ ret = "Z_OK" /\ loop = "start" /\ failed = FALSE /\ code = "none"

Return(c) == loop' = "returned" /\ code' = c

\* The arguments and the dictionary, and what zlib has against them.
Start ==
    /\ loop = "start"
    /\ \/ loop' = "read" /\ UNCHANGED code
       \/ \E c \in {"usage", "abort", "Z_MEM_ERROR", "Z_VERSION_ERROR", "Z_STREAM_ERROR"} :
             Return(c)
    /\ UNCHANGED << defl, source, done, in, flush, held, dest, written, ret, failed, lost >>

Total == IF defl THEN source ELSE Len(source)

\* fread() delivers a buffer's worth, or all that is left and the end of the
\* file.  At the end of a file that fills the buffer, feof() is false yet.
Fread ==
    LET count == Min({CHUNK, Total - done})
    IN  /\ done' = done + count
        /\ in' = IF defl THEN count ELSE SubSeq(source, done + 1, done + count)
        /\ flush' = (count < CHUNK)
        /\ UNCHANGED << defl, source, held, dest, written, ret, failed, lost >>

FreadFails ==
    /\ loop = "read"
    /\ failed' = TRUE
    /\ Return("Z_ERRNO")
    /\ UNCHANGED << defl, source, done, in, flush, held, dest, written, ret, lost >>

\* The stream is over, or the file is.
InfReturn == Return(IF ret = "Z_STREAM_END" THEN "Z_OK" ELSE "Z_DATA_ERROR")

\* Mutation: inf() does not look whether anything was read.
ReadOn ==
    /\ loop = "read"
    /\ Fread
    /\ loop' = "pump" /\ UNCHANGED code

Read ==
    /\ loop = "read"
    /\ Fread
    /\ IF ~ defl /\ in' = << >> THEN InfReturn ELSE loop' = "pump" /\ UNCHANGED code

-----------------------------------------------------------------------------

\* Mutation: an if in place of the inner loop.
TurnedOnce(full) ==
    IF ~ defl THEN IF ret' = "Z_STREAM_END" THEN Return("Z_OK") ELSE loop' = "read" /\ UNCHANGED code
    ELSE IF in' > 0 \/ (flush /\ ret' # "Z_STREAM_END") THEN loop' = "asserted" /\ UNCHANGED code
    ELSE IF flush THEN Return("Z_OK") ELSE loop' = "read" /\ UNCHANGED code

\* Where the inner loop goes on, and where it ends: in def(), with all of the
\* input used and after the last of it with a complete stream.
Turned(full) ==
    IF full THEN UNCHANGED << loop, code >>
    ELSE IF ~ defl THEN IF ret' = "Z_STREAM_END" THEN Return("Z_OK") ELSE loop' = "read" /\ UNCHANGED code
    ELSE IF in' > 0 \/ (flush /\ ret' # "Z_STREAM_END") THEN loop' = "asserted" /\ UNCHANGED code
    ELSE IF flush THEN Return("Z_OK") ELSE loop' = "read" /\ UNCHANGED code

\* The number of octets of what was written.
SizeOf(d) == IF defl THEN Len(d) ELSE d

\* fwrite() takes it all, and the loop turns, or less, when an octet cannot be
\* written.  How much it leaves in the buffer of stdio is stdio's choice.
WriteStream(octets, full) ==
    /\ \/ dest' = dest \o octets /\ Turned(full) /\ UNCHANGED failed
       \/ \E k \in 0 .. Len(octets) :
             dest' = dest \o SubSeq(octets, 1, k) /\ failed' = TRUE /\ Return("Z_ERRNO")
    /\ written' \in written .. SizeOf(dest')
    /\ UNCHANGED lost

WriteText(count, full) ==
    /\ \/ dest' = dest + count /\ Turned(full) /\ UNCHANGED failed
       \/ \E k \in 0 .. count : dest' = dest + k /\ failed' = TRUE /\ Return("Z_ERRNO")
    /\ written' \in written .. SizeOf(dest')
    /\ UNCHANGED lost

\* deflate() takes all that it is given, unless it fills the buffer, gives out
\* what it likes, and when it is told to finish all that it holds, and END.
\* Once it has finished it has no more to give.
DeflateTurn ==
    /\ defl /\ loop = "pump"
    /\ \E octets \in StreamsUpTo(CHUNK, Carrier \cup {END}), take \in 0 .. in :
          LET ends == END \in Range(octets)
              full == Len(octets) = CHUNK
          IN  /\ held' = held + take - Carried(octets) /\ held' >= 0
              /\ in' = in - take
              /\ ~ full => in' = 0
              /\ ends => flush /\ in' = 0 /\ held' = 0 /\ SelectInSeq(octets, LAMBDA o : o = END) = Len(octets)
              /\ (flush /\ ~ full) => ends \/ ret = "Z_STREAM_END"
              /\ ret = "Z_STREAM_END" => octets = << >>
              /\ ret' = IF ends THEN "Z_STREAM_END" ELSE ret
              /\ WriteStream(octets, full)
    /\ UNCHANGED << defl, source, done, flush >>

\* inflate() goes on until the buffer is full, the input is used, or there is
\* an octet that carries nothing.
InflateTurn ==
    /\ ~ defl /\ loop = "pump"
    /\ LET stops(j) == held + Carried(SubSeq(in, 1, j)) >= CHUNK \/ (j > 0 /\ in[j] \notin Carrier)
           used  == Min({j \in 0 .. Len(in) : stops(j)} \cup {Len(in)})
           holds == held + Carried(SubSeq(in, 1, used))
           count == Min({CHUNK, holds})
           last  == IF used > 0 THEN in[used] ELSE 1
       IN  /\ in' = SubSeq(in, used + 1, Len(in))
           /\ held' = holds - count
           /\ ret' = CASE last = BAD -> "Z_DATA_ERROR" [] last = END -> "Z_STREAM_END"
                       [] OTHER -> IF used + count > 0 THEN "Z_OK" ELSE "Z_BUF_ERROR"
           /\ IF last = BAD
              THEN Return(ret') /\ UNCHANGED << dest, written, failed, lost >>
              ELSE WriteText(count, count = CHUNK)
    /\ UNCHANGED << defl, source, done, flush >>

\* inflate() has no memory for its window.  (It asks for no dictionary in the
\* middle of a stream that has no header, as those of inflateInit2(-15).)
InflateFails ==
    /\ ~ defl /\ loop = "pump"
    /\ ret' = "Z_MEM_ERROR" /\ Return(ret')
    /\ UNCHANGED << defl, source, done, in, flush, held, dest, written, failed, lost >>

\* exit() writes what is in the buffer of stdout, and what main() returned is
\* the status all the same.
Exit ==
    /\ loop = "returned"
    /\ \/ written' = SizeOf(dest) /\ UNCHANGED lost
       \/ written' \in written .. SizeOf(dest) - 1 /\ lost' = TRUE
    /\ loop' = "exited"
    /\ UNCHANGED << defl, source, done, in, flush, held, dest, ret, failed, code >>

ZpipeStep == Start \/ Read \/ FreadFails \/ DeflateTurn \/ InflateTurn \/ InflateFails \/ Exit

ZpipeEnded == loop \in {"exited", "asserted"} /\ UNCHANGED zpipeVars

\* The loops run: nothing blocks them.
ZpipeSpec == ZpipeInit /\ [][ZpipeStep \/ ZpipeEnded]_zpipeVars /\ WF_zpipeVars(ZpipeStep)

-----------------------------------------------------------------------------

\* The stream up to its end, if it has one before anything else.
Complete(s) == \E k \in DOMAIN s : s[k] = END /\ \A j \in 1 .. k - 1 : s[j] \in Carrier
UpToEnd(s) == SubSeq(s, 1, SelectInSeq(s, LAMBDA o : o = END))

\* All of what was given is in this, and nothing else.
Whole(d) ==
    IF defl THEN Complete(d) /\ UpToEnd(d) = d /\ Carried(d) = source
    ELSE Complete(source) /\ d = Carried(UpToEnd(source))

\* What has come out of zpipe.
File == IF defl THEN SubSeq(dest, 1, written) ELSE written

\* main() returns success only when all that was given is in what fwrite() took,
\* as a whole stream, wherever the ends of the buffers fall; it is in the file
\* in the end unless the write at exit fails, which is not reported, whatever
\* the comments on def() and inf() promise.  A stream that is wrong or incomplete
\* is reported, and so is a failure of fread() or fwrite(), and only that.  The
\* assertions hold (zpipe.c:31-36, 74-85, 92-97, 137-158, 222-232).
OkMeansAll ==
    /\ loop # "asserted"
    /\ code = "Z_ERRNO" <=> failed
    /\ code = "Z_OK" => Whole(dest) /\ (loop = "exited" => lost \/ Whole(File))
    /\ code = "Z_DATA_ERROR" => ~ defl /\ ~ Complete(source)

\* The program ends, also with a stream that does not (zpipe.c:80, 84, 128,
\* 151, 154).
ZpipeEnds == <>(loop \in {"exited", "asserted"})
=============================================================================
