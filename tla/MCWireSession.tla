--------------------------- MODULE MCWireSession ---------------------------
EXTENDS WireSession, MCWire

\* All combinations for two strings, and each mark of what is not pushed.
MCWays ==
    { [name |-> n, value |-> v, unpushed |-> IF n = v THEN "unindexed" ELSE "never"] :
        n, v \in {"plain", "coded"} }

WireHeader == { H("m", "yy"), H("x", "m") }
=============================================================================
