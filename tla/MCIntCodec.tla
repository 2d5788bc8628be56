----------------------------- MODULE MCIntCodec -----------------------------
EXTENDS IntCodec
=============================================================================
