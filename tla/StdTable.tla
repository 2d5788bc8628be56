------------------------------ MODULE StdTable ------------------------------
(***************************************************************************)
(* The dynamic table of the standard, by which every encoder keeps its     *)
(* own: the longest run of newest entries that fits.  Room is made before  *)
(* an entry is added, and an entry larger than the table empties it and is *)
(* not added.                                                              *)
(***************************************************************************)
EXTENDS HpackTable

Fitting(es, max) == {k \in 0 .. Len(es) : Ledger(es)[k] <= max}

Fit(es, max) == SubSeq(es, 1, Max(Fitting(es, max)))

Insert(es, e, max) ==
    IF EntrySize(e) <= max
    THEN << e >> \o Fit(es, max - EntrySize(e))
    ELSE << >>
=============================================================================
