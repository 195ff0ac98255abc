--------------------------- MODULE MCSnmpRequest ---------------------------
(***************************************************************************)
(* A small MIB and sets of requests for model checking SnmpRequest.        *)
(***************************************************************************)
EXTENDS SnmpRequest

Object == [type |-> "integer", lookup |-> "noError", readable |-> TRUE, writable |-> TRUE, size |-> 1,
           get |-> TRUE, test |-> "noError", set |-> TRUE]

\* 1 can neither be read nor written although it claims to, 3 is large, 4 is
\* read-only and has no answer in v1, 5 is not readable and refuses its value, the
\* node of 6 fails to look it up.
SmallMib == 1 :> [Object EXCEPT !.get = FALSE, !.set = FALSE]
         @@ 2 :> Object
         @@ 3 :> [Object EXCEPT !.type = "string", !.size = 2]
         @@ 4 :> [Object EXCEPT !.type = "counter64", !.writable = FALSE]
         @@ 5 :> [Object EXCEPT !.readable = FALSE, !.test = "wrongValue"]
         @@ 6 :> [Object EXCEPT !.lookup = "genErr"]

Request == [version |-> "v2c", type |-> "get", community |-> "public", errorIndex |-> 0,
            varbinds |-> <<>>, nonRepeaters |-> 0, maxRepetitions |-> 0]

Varbind(names, kinds) == [name : names, kind : kinds]
UpTo(n, S) == UNION {[1 .. k -> S] : k \in 0 .. n}

GetRequests ==
  {[Request EXCEPT !.version = v, !.type = t, !.varbinds = vbs] :
     v \in {"v1", "v2c"}, t \in {"get", "getNext"},
     vbs \in UpTo(2, Varbind(0 .. 6, {"null"}) \cup Varbind({3}, {"integer", "malformed"}))
             \cup [1 .. 3 -> Varbind({2, 3, 4}, {"null"})]}

BulkRequests ==
  {[Request EXCEPT !.version = v, !.type = "getBulk", !.varbinds = vbs,
                   !.nonRepeaters = n, !.maxRepetitions = m] :
     v \in {"v1", "v2c"}, n \in 0 .. 3, m \in 0 .. 4,
     vbs \in UpTo(2, Varbind({0, 1, 3, 4}, {"null"}) \cup Varbind({3}, {"tooLong", "malformed"}))}

SetRequests ==
  {[Request EXCEPT !.version = v, !.type = "set", !.community = c, !.varbinds = vbs] :
     v \in {"v1", "v2c"}, c \in {"public", "private", "none"},
     vbs \in UpTo(2, Varbind(1 .. 7, {"integer", "string"})
                     \cup Varbind({3}, {"tooLong", "malformed"}))}
  \cup
  {[Request EXCEPT !.version = v, !.type = "set", !.community = "private", !.varbinds = vbs] :
     v \in {"v1", "v2c"}, vbs \in [1 .. 3 -> Varbind({1, 2}, {"integer"}) \cup Varbind({3}, {"string"})]}

Informs ==
  {[Request EXCEPT !.type = "getResp", !.varbinds = vbs] :
     vbs \in UpTo(2, Varbind({1}, {"integer", "malformed"}))}

\* Requests whose error-index field is not 0; 200 does not fit into the response.
IndexedRequests ==
  {[Request EXCEPT !.type = t, !.errorIndex = e, !.varbinds = vbs,
                   !.community = IF t = "set" THEN "private" ELSE "public"] :
     t \in {"get", "set"}, e \in {1, 200},
     vbs \in UpTo(2, Varbind({1, 2}, {"null", "integer"}))}

\* Requests of as many varbinds as the index counts, and of one more; the last one
\* fails its test, its writing or its decoding, or nothing does.
LongRequests ==
  {[Request EXCEPT !.version = v, !.type = "set", !.community = "private",
                   !.varbinds = [i \in 1 .. n |-> [name |-> 2, kind |-> "integer"]] \o <<last>>] :
     v \in {"v1", "v2c"}, n \in {5, 6},
     last \in Varbind({1, 2, 5}, {"integer"}) \cup Varbind({3}, {"tooLong"})}

\* A few requests of every type, for when the MIB changes meanwhile.
Changed == [Request EXCEPT !.maxRepetitions = 2]
ChangingRequests ==
  {[Changed EXCEPT !.type = t, !.varbinds = vbs] :
     t \in {"get", "getNext"}, vbs \in UpTo(2, Varbind({1, 2, 3}, {"null"}))}
  \cup
  {[Changed EXCEPT !.type = "getBulk", !.varbinds = vbs] : vbs \in UpTo(2, Varbind({1, 3}, {"null"}))}
  \cup
  {[Changed EXCEPT !.version = v, !.type = "set", !.community = "private", !.varbinds = vbs] :
     v \in {"v1", "v2c"}, vbs \in UpTo(2, Varbind({1, 2}, {"integer"}) \cup Varbind({3}, {"string"}))}

AllRequests == UNION {GetRequests, BulkRequests, SetRequests, Informs, IndexedRequests,
                      LongRequests, ChangingRequests}
=============================================================================
