-------------------------- MODULE MCAgentMessages --------------------------
(***************************************************************************)
(* Notifications and requests at the sizes where an encoding changes, for  *)
(* model checking AgentMessages, and the codec on all small numbers.       *)
(***************************************************************************)
EXTENDS AgentMessages

SomeAddresses == {<<10, 0, 0, 1>>, <<10, 0, 0, 2>>}
Device == <<1, 3, 6, 1, 4, 1, 300>>
Public == <<112>>
Private == <<119>>

Bytes(n) == [i \in 1 .. n |-> i % 256]
Integer(v) == [oid |-> <<1, 3, 128, 0>>, type |-> INTEGER, value |-> v, raw |-> FALSE]
Octet(n) == [oid |-> <<1, 3, 16384>>, type |-> OCTET_STRING, value |-> Bytes(n), raw |-> FALSE]
Big == [oid |-> <<2, 5, 1>>, type |-> COUNTER, value |-> <<Word - 1>>, raw |-> FALSE]

Notice(eoid, generic, specific, list) ==
  [eoid |-> eoid, generic |-> generic, specific |-> specific, list |-> list, prev |-> "element"]
SomeNotices ==
  {Notice(NoOid, 6, -129, <<Integer(<<-129>>), Big>>),
   Notice(Snmp, 3, 3, <<Octet(128)>>),
   Notice(Bytes(10), 6, 1, <<Integer(<<127>>)>>),
   Notice(NoOid, 7, 300, <<Integer(<<128>>)>>),
   Notice(NoOid, 6, 1, <<Big, Integer(<<1, 2>>)>>)}

Ask(version, community, pdu, id, status, index, list) ==
  [version |-> version, community |-> community, pdu |-> pdu, id |-> id, status |-> status,
   index |-> index, list |-> list]
System(n) == <<1, 3, 6, 1, 2, 1, 1, n, 0>>
SomeRequests ==
  {Ask(0, Public, GetRequest, 1, 0, 0, <<System(1)>>),
   Ask(0, Public, GetNextRequest, -32769, 0, 0, <<System(1), System(2)>>),
   Ask(1, Public, GetBulkRequest, 128, 1, -1, <<System(1)>>),
   Ask(0, Public, GetBulkRequest, 128, 1, 5, <<System(1)>>),
   Ask(1, Private, SetRequest, 127, 0, 0, <<System(4)>>),
   Ask(1, Bytes(8), GetRequest, 2, 0, 0, <<System(4)>>),
   Ask(0, Public, GetRequest, 3, 0, 0, <<System(1), Bytes(13)>>),
   Ask(1, Public, GetRequest, 2, 0, 0, [i \in 1 .. 6 |-> System(i)])}
SomeReplies == {[type |-> INTEGER, value |-> <<-32768>>], [type |-> OCTET_STRING, value |-> Bytes(40)]}

\* Every number and length of a word of three two-bit bytes comes back from
\* the decoder, in the number of bytes counted for it.
Small == INSTANCE Asn1 WITH Base <- 4, WordBytes <- 3
SmallWords == 0 .. 63
ASSUME CodecOnSmallWords ==
  /\ \A v \in SmallWords :
       LET n == Small!U32Cnt(v)
           W == Small!EncU32(Small!Writer(9), n, v)
       IN  Len(W.out) = n /\ Small!DecU32(W.out, n) = Small!Decoded(v, <<>>)
  /\ \A v \in -32 .. 31 :
       LET n == Small!S32Cnt(v)
           W == Small!EncS32(Small!Writer(9), n, v)
       IN  Len(W.out) = n /\ Small!DecS32(W.out, n) = Small!Decoded(v, <<>>)
  /\ \A hi, lo \in {0, 1, 7, 8, 31, 32, 63} :
       LET n == Small!U64Cnt(<<hi, lo>>)
           W == Small!EncU64(Small!Writer(9), n, <<hi, lo>>)
       IN  Len(W.out) = n /\ Small!DecU64(W.out, n) = Small!Decoded(<<hi, lo>>, <<>>)
  /\ \A n \in 0 .. 14 :
       LET W == Small!EncTlv(Small!Writer(9), SEQUENCE, 0, n)
       IN  /\ Len(W.out) = 1 + Small!LengthCnt(n)
           /\ Small!DecTlv(W.out) = Small!Decoded([type |-> SEQUENCE, hdr |-> Len(W.out), len |-> n], <<>>)
=============================================================================
