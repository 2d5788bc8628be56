----------------------------- MODULE MCFrames -----------------------------
EXTENDS PriorityFrames, MCWire

FrameHeader == { H("m", "yy"), H("x", "m") }
MCOpaque == << 63, 0 >>
=============================================================================
