--------------------------- MODULE MCTableSearch ---------------------------
(***************************************************************************)
(* The real tables.  The names are those of the static table and some that *)
(* fall between them, before and after.                                    *)
(***************************************************************************)
EXTENDS TableSearch

\* In the order of strcmp.
Names ==
    << "", ":authority", ":method", ":path", ":scheme", ":status",
    "accept", "accept-charset", "accept-encoding", "accept-language",
    "accept-ranges", "access-control-allow-origin", "age", "allow",
    "authorization", "cache-control", "connection", "content-disposition",
    "content-encoding", "content-language", "content-length",
    "content-location", "content-range", "content-type", "cookie", "date",
    "dnt", "etag", "expect", "expires", "from", "host", "if", "if-match",
    "if-modified-since", "if-none-match", "if-range",
    "if-unmodified-since", "invalid table index", "last-modified", "link",
    "location", "max-forwards", "proxy-authenticate",
    "proxy-authorization", "range", "referer", "refresh", "retry-after",
    "server", "set-cookie", "strict-transport-security", "te",
    "transfer-encoding", "user-agent", "vary", "via", "www-authenticate",
    "x-requested-with" >>

MCName == ToSet(Names)
MCValue == {static_table[i].value : i \in DOMAIN static_table} \cup {"?", "invalid table index"}
MCNameRank == [n \in MCName |-> CHOOSE r \in DOMAIN Names : Names[r] = n]

\* No lookup depends on a length.
MCNameLen == [n \in MCName |-> 0]
MCValueLen == [v \in MCValue |-> 0]

MCEntries == [name : MCName, value : {"?", "", "GET", "POST", "/index.html", "https", "200", "500"}]
MCSearched == 0 .. 255
=============================================================================
