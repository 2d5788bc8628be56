------------------------------- MODULE Frames -------------------------------
(***************************************************************************)
(* h2unpack: an HTTP/2 connection in one direction.  A peer encodes the    *)
(* headers of each of its streams into header blocks, with one table for   *)
(* all of them, and writes frames; h2unpack reads the input until it ends, *)
(* anywhere, and shows the headers, each with its stream.                  *)
(*                                                                         *)
(* A peer may do what h2unpack does not handle, and pad or split a block;  *)
(* PriorityFrames adds priorities.  The names and numbers of frame types   *)
(* and flags are those of h2unpack.cc.                                     *)
(***************************************************************************)
EXTENDS StdEncoder, Wire

CONSTANTS
    Stream,        \* the streams of the connection
    OtherType,     \* the types of frames that h2unpack skips
    Opaque,        \* what is in them
    MaxFrameSize,  \* 16384
    MaxFrames      \* bound: the frames of a run

DATA == 0
HEADERS == 1
PUSH_PROMISE == 5
CONTINUATION == 9

END_STREAM == 1
END_HEADERS == 4
PADDED == 8
PRIORITY == 32

\* What << 8 multiplies by.
Shift8 == 2 * More

\* Every index fits an unsigned: an entry takes at least 32 bytes of the table.
ASSUME FrameAssumption ==
    /\ Stream \subseteq 1 .. Shift8 * Shift8 * Shift8 * Shift8 - 1
    /\ OtherType \subseteq Octet \ {HEADERS, PUSH_PROMISE, CONTINUATION}
    /\ Opaque \in Seq(Octet)
    /\ MaxFrameSize \in 1 .. Shift8 * Shift8 * Shift8 - 1
    /\ Len(StaticTable) + SizeLimit < UIntRange

VARIABLES
    block, opened, \* the octets of the header block to come, and its headers
    frames,        \* the frames written, and what they carry
    moments,       \* history variable, as hist in Session
    reading,       \* read_fully() has returned
    input,         \* what is left of what it returned
    truncated,     \* which was not all that was written
    target,        \* the stream of the last block fed to state
    shown          \* the lines written to stderr

framesVars ==
    << stdVars, wireVars, block, opened, frames, moments, reading, input, truncated, target, shown >>

FramesInit ==
    /\ StdInit /\ WireInit(SizeLimit)
    /\ block = << >> /\ opened = << >> /\ frames = << >>
    /\ moments = << [table |-> << >>, count |-> 0] >>
    /\ reading = FALSE /\ input = << >> /\ truncated = FALSE
    /\ target = 0 /\ shown = << >>

Tagged(stream, headers) == [i \in DOMAIN headers |-> [stream |-> stream, header |-> headers[i]]]

-----------------------------------------------------------------------------
(* The peer.                                                               *)

U16(v) == << v \div Shift8, v % Shift8 >>
U24(v) == U16(v \div Shift8) \o << v % Shift8 >>
U32(v) == U16(v \div (Shift8 * Shift8)) \o U16(v % (Shift8 * Shift8))

FrameHead(size, type, flags, stream) == U24(size) \o << type, flags >> \o U32(stream)

Frame(type, flags, stream, payload) ==
    FrameHead(Len(payload), type, flags, stream) \o payload

\* This peer does without the Huffman code; WireSession has one that does not.
PlainSpelling == [name |-> "plain", value |-> "plain", unpushed |-> "unindexed"]

Encode ==
    /\ StdNext
    /\ block' = block \o InstructionOctets(Last(out'), PlainSpelling)
    /\ opened' = opened \o SubSeq(sent', Len(sent) + 1, Len(sent'))
    /\ moments' = Append(moments, [table |-> stdTable', count |-> Len(sent')])
    /\ UNCHANGED frames

\* upto: the instructions encoded so far.
SendFrame(octets, stream, fed, headers, odd) ==
    /\ Len(frames) < MaxFrames
    /\ Len(octets) <= 9 + MaxFrameSize
    /\ frames' = Append(frames, [octets |-> octets, block |-> fed, odd |-> odd,
                                 stream |-> stream, headers |-> Tagged(stream, headers),
                                 upto |-> Len(out)])
    /\ UNCHANGED << stdVars, moments >>

SendBlock(octets, stream, odd) ==
    /\ block # << >>
    /\ SendFrame(octets, stream, block, opened, odd)
    /\ block' = << >> /\ opened' = << >>

\* Headers without a body.
SendHeaders(s) == SendBlock(Frame(HEADERS, END_HEADERS + END_STREAM, s, block), s, FALSE)

SendPromise(s) ==
    \E p \in Stream \ {s} :
        SendBlock(Frame(PUSH_PROMISE, END_HEADERS, s, U32(p) \o block), p, FALSE)

\* One octet of padding, and its length first.
SendPadded(s) ==
    SendBlock(Frame(HEADERS, END_HEADERS + PADDED, s, << 1 >> \o block \o << 0 >>), s, TRUE)

SendSplit(s) ==
    \E k \in 0 .. Len(block) :
        SendBlock(Frame(HEADERS, 0, s, SubSeq(block, 1, k))
                      \o Frame(CONTINUATION, END_HEADERS, s, SubSeq(block, k + 1, Len(block))),
                  s, TRUE)

\* No wire is lost by writing these before the next block is begun.
SendOther ==
    /\ block = << >>
    /\ \E type \in OtherType : SendFrame(Frame(type, 0, 0, Opaque), 0, << >>, << >>, FALSE)
    /\ UNCHANGED << block, opened >>

PeerStep ==
    /\ ~ reading
    /\ \/ Encode \/ SendOther
       \/ \E s \in Stream : SendHeaders(s) \/ SendPromise(s) \/ SendPadded(s) \/ SendSplit(s)
    /\ UNCHANGED << wireVars, reading, input, truncated, target, shown >>

-----------------------------------------------------------------------------
(* h2unpack.                                                               *)

Octets(from, to) == FlattenSeq([i \in 1 .. to - from + 1 |-> frames[from + i - 1].octets])

ReadStdin ==
    /\ ~ reading
    /\ reading' = TRUE
    /\ LET all == Octets(1, Len(frames))
       IN  \E k \in 0 .. Len(all) : input' = SubSeq(all, 1, k) /\ truncated' = (k < Len(all))
    /\ UNCHANGED << stdVars, wireVars, block, opened, frames, moments, target, shown >>

Drop(n, os) == SubSeq(os, n + 1, Len(os))

\* read_u8 to read_u32: zeros follow the end.
ReadU8(os)  == IF os = << >> THEN 0 ELSE Head(os)
ReadU16(os) == ReadU8(os) * Shift8 + ReadU8(Drop(1, os))
ReadU24(os) == ReadU16(os) * Shift8 + ReadU8(Drop(2, os))
ReadU32(os) == ReadU16(os) * (Shift8 * Shift8) + ReadU16(Drop(2, os))

Size      == ReadU24(input)
Type      == ReadU8(Drop(3, input))
Flags     == ReadU8(Drop(4, input))
Sender    == ReadU32(Drop(5, input))
Rest      == Drop(9, input)
Payload   == SubSeq(Rest, 1, Min({Size, Len(Rest)}))
Flag(f)   == (Flags \div f) % 2 = 1

\* Mutation: END_HEADERS is not asserted.
HandledUnended ==
    /\ Size <= MaxFrameSize
    /\ ~ Flag(PADDED)
    /\ Type # CONTINUATION

\* The assertions of read_frame.
Handled ==
    /\ Size <= MaxFrameSize
    /\ ~ Flag(PADDED)
    /\ Type \in {HEADERS, PUSH_PROMISE} => Flag(END_HEADERS)
    /\ Type # CONTINUATION

AtFrame == reading /\ ~ aborted /\ buffer = << >> /\ input # << >>

\* The part of read_frame that every type shares.
TakeFrame ==
    /\ AtFrame
    /\ Handled
    /\ input' = Drop(Size, Rest)
    /\ UNCHANGED << stdVars, block, opened, frames, moments, reading, truncated, shown, aborted >>

HandleHeaders(stream, payload) ==
    /\ target' = stream
    /\ Feed(payload)

ReadHeaders ==
    /\ TakeFrame
    /\ Type = HEADERS
    /\ HandleHeaders(Sender, IF Flag(PRIORITY) THEN Drop(1, Payload) ELSE Payload)

\* Mutation: the stream of the frame in place of the promised one.
ReadPromiseOfSender ==
    /\ TakeFrame
    /\ Type = PUSH_PROMISE
    /\ HandleHeaders(Sender, Drop(4, Payload))

\* Mutation: the promised stream is read as read_u24 reads.
ReadPromiseShort ==
    /\ TakeFrame
    /\ Type = PUSH_PROMISE
    /\ HandleHeaders(ReadU24(Payload), Drop(3, Payload))

\* Mutation: the promised stream is read from a copy.
ReadPromiseKept ==
    /\ TakeFrame
    /\ Type = PUSH_PROMISE
    /\ HandleHeaders(ReadU32(Payload), Payload)

ReadPromise ==
    /\ TakeFrame
    /\ Type = PUSH_PROMISE
    /\ HandleHeaders(ReadU32(Payload), Drop(4, Payload))

ReadOther ==
    /\ TakeFrame
    /\ Type \notin {HEADERS, PUSH_PROMISE}
    /\ UNCHANGED << target, unpackVars >>

\* An assertion fails.  Or the payload is not all there, and the line that is
\* logged takes three octets from where the next frame would be: undefined.
\* (Where the payload is there the string has room for what it held before.)
ReadFrameAborts ==
    /\ AtFrame
    /\ ~ Handled \/ Size > Len(Rest)
    /\ aborted' = TRUE
    /\ UNCHANGED << stdVars, unpackVars, block, opened, frames, moments,
                    reading, input, truncated, target, shown >>

\* A turn of unpack(), with the callback of handle_headers.
UnpackTurn ==
    /\ Turn
    /\ shown' = shown \o Tagged(target, SubSeq(decoded', Len(decoded) + 1, Len(decoded')))
    /\ UNCHANGED << stdVars, block, opened, frames, moments, reading, input, truncated, target >>

Exited ==
    /\ reading
    /\ aborted \/ (input = << >> /\ buffer = << >>)
    /\ UNCHANGED framesVars

FramesNext ==
    \/ PeerStep \/ ReadStdin
    \/ ReadHeaders \/ ReadPromise \/ ReadOther \/ ReadFrameAborts \/ UnpackTurn
    \/ Exited

FramesSpec == FramesInit /\ [][FramesNext]_framesVars

-----------------------------------------------------------------------------

\* Types; the stream of a line shown is one of the connection's, even at the
\* end of input that was cut short.
FramesTypeOK ==
    /\ block \in Seq(Octet) /\ input \in Seq(Octet) /\ buffer \in Seq(Octet)
    /\ decTable \in Table /\ maxDynamicSize \in UInt
    /\ target \in 0 .. Shift8 * Shift8 * Shift8 * Shift8 - 1
    /\ shown \in Seq([stream : Stream, header : Entry])

Carried(k) == FlattenSeq([i \in 1 .. k |-> frames[i].headers])

\* What h2unpack shows is what the peer sent, with the right streams and in
\* order, up to where it stops: at the end, or at a frame it does not handle.
\* At most the last line is wrong, when the input was cut short: no octets of
\* a frame are ever taken for those of another (h2unpack.cc:59-133).
ShownRight ==
    IsPrefix(IF truncated /\ ~ aborted /\ shown # << >> THEN Front(shown) ELSE shown,
             Carried(Len(frames)))

\* Between two frames the headers of those read are all shown, none of those
\* to come, and an assertion failed only if the next is one of those that are
\* not handled.  In particular the first part of a block that was split is
\* not shown, nor anything after it (h2unpack.cc:97, 102, 106, 116, 122).
\* This is said of blocks without Huffman code, in which unpack.h:46 may abort
\* as well (InStep of WireSession).
StepsByFrame ==
    (reading /\ ~ truncated) =>
        IF buffer # << >> THEN ~ aborted
        ELSE \E k \in 0 .. Len(frames) :
                /\ input = Octets(k + 1, Len(frames))
                /\ shown = Carried(k)
                /\ aborted => k < Len(frames) /\ frames[k + 1].odd

\* What unpack() still has to do is the end of a header block, as the peer
\* encoded it: the padding and the promised stream are no part of it, nor is
\* the weight, which is what the octet that PRIORITY announces is said to be
\* (h2unpack.cc:107-111, 117, 118).
FeedsBlocks ==
    (buffer # << >> /\ ~ truncated) => \E k \in DOMAIN frames : IsSuffix(buffer, frames[k].block)
=============================================================================
