--------------------------- MODULE PriorityFrames ---------------------------
(***************************************************************************)
(* A connection whose peer sets the priority of a stream.                  *)
(***************************************************************************)
EXTENDS Frames

\* The stream that this one depends on, and a weight of 16 (RFC 7540, 6.2).
SendPriority ==
    /\ ~ reading
    /\ \E s \in Stream :
          SendBlock(Frame(HEADERS, END_HEADERS + PRIORITY, s, U32(0) \o << 15 >> \o block),
                    s, FALSE)
    /\ UNCHANGED << wireVars, reading, input, truncated, target, shown >>

PrioritySpec == FramesInit /\ [][FramesNext \/ SendPriority]_framesVars
=============================================================================
