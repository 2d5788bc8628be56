------------------------------ MODULE MCTables ------------------------------
(***************************************************************************)
(* A small instance of the header tables for TLC.                          *)
(*                                                                         *)
(* Like the real static table the small one has two entries of one name    *)
(* (":method"), and one name out of strcmp's order: "accept" stands after  *)
(* "accept-charset" (common.h:640-644), so that the binary search for it   *)
(* fails.  The lengths are chosen so that entry sizes and sums of sizes    *)
(* fall below, on and above the limits of the configurations.              *)
(***************************************************************************)
EXTENDS Integers, Sequences

Invalid == "invalid table index"

MCNameLen ==
    [n \in {":method", "accept", "accept-charset", "x", Invalid} |->
        CASE n = ":method"        -> 7
          [] n = "accept"         -> 6
          [] n = "accept-charset" -> 14
          [] n = "x"              -> 1
          [] n = Invalid          -> 19]

MCNameRank ==
    [n \in DOMAIN MCNameLen |->
        CASE n = ":method"        -> 1
          [] n = "accept"         -> 2
          [] n = "accept-charset" -> 3
          [] n = Invalid          -> 4
          [] n = "x"              -> 5]

\* A value is written as its length; two of them are not empty in the
\* static table.
MCValueLen ==
    [v \in {"", "GET", "POST", "v25", "v26", "v31", "v63", "v64", "v91", Invalid} |->
        CASE v = ""      -> 0
          [] v = "GET"   -> 3
          [] v = "POST"  -> 4
          [] v = "v25"   -> 25
          [] v = "v26"   -> 26
          [] v = "v31"   -> 31
          [] v = "v63"   -> 63
          [] v = "v64"   -> 64
          [] v = "v91"   -> 91
          [] v = Invalid -> 19]

MCName == DOMAIN MCNameLen
MCValue == DOMAIN MCValueLen

H(name, value) == [name |-> name, value |-> value]

MCStaticTable == << H(":method", "GET"), H(":method", "POST"),
                    H("accept-charset", ""), H("accept", "") >>

-----------------------------------------------------------------------------
(* With a budget of 128 bytes: 128/2 = 64 bytes are half of it, 96 are     *)
(* just not too large to be indexed and 97 are.                            *)

PipeHeader ==
    { H(":method", "POST"),             \* in the static table
      H(":method", "v25"),              \* its name is: 64 bytes
      H("accept", "v26"),               \* its name is, but is not found: 64
      H("x", "v31"), H("x", "v63"),     \* 64 and 96 bytes
      H("x", "v64"), H("accept", "v91") }   \* 97 and 129 bytes: oversized

SessionHeader ==
    { H(":method", "POST"), H("accept", "v26"), H("x", "v31"), H("x", "v64") }
=============================================================================
