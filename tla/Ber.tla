-------------------------------- MODULE Ber --------------------------------
(***************************************************************************)
(* How a manager reads a message: the basic encoding rules and the message *)
(* formats of SNMPv1 and v2c, independent of src/.  What the agent sends   *)
(* and accepts is compared with this (Frames, Notifications).              *)
(***************************************************************************)
EXTENDS Integers, Sequences, SequencesExt, FiniteSetsExt

CONSTANTS Base, WordBytes

Number(bytes) == FoldLeft(LAMBDA n, b : n * Base + b, 0, bytes)
SignedNumber(bytes) ==
  FoldLeft(LAMBDA n, b : n * Base + b, IF bytes[1] >= Base \div 2 THEN -1 ELSE 0, bytes)

Malformed == [type |-> -1, value |-> <<>>]

\* The elements bytes consists of, one after the other; the last one is
\* Malformed when something is missing at the end.
Elements(bytes) ==
  LET End == Len(bytes)
      more(p) == bytes[p + 2] - Base \div 2
      hdr(p) == IF more(p) <= 0 THEN 2 ELSE 2 + more(p)
      len(p) == IF more(p) < 0 THEN bytes[p + 2] ELSE Number(SubSeq(bytes, p + 3, p + hdr(p)))
      from[p \in 0 .. End] ==
        IF p = End THEN <<>>
        ELSE IF p + 2 > End THEN <<Malformed>>
        ELSE IF p + hdr(p) > End THEN <<Malformed>>
        ELSE IF p + hdr(p) + len(p) > End THEN <<Malformed>>
        ELSE <<[type |-> bytes[p + 1],
                value |-> SubSeq(bytes, p + hdr(p) + 1, p + hdr(p) + len(p))]>>
             \o from[p + hdr(p) + len(p)]
  IN  from[0]

\* Groups of bytes, each up to one that has no continuation bit.
OidNumber(bytes) ==
  LET half == Base \div 2
      step(acc, b) ==
        IF b >= half THEN [acc EXCEPT !.n = @ * half + b - half]
        ELSE [ids |-> Append(acc.ids, acc.n * half + b), n |-> 0]
      rest == FoldLeft(step, [ids |-> <<>>, n |-> 0], Tail(bytes)).ids
      first == Min({bytes[1] \div 40, 2})
  IN  IF bytes = <<>> THEN <<>> ELSE <<first, bytes[1] - 40 * first>> \o rest

\* The value of an element, a sequence of numbers.
ValueOf(e) ==
  IF e.value = <<>> THEN <<>>
  ELSE CASE e.type = 2 -> <<SignedNumber(e.value)>>
         [] e.type \in {65, 66, 67} -> <<Number(e.value)>>
         [] e.type = 6 -> OidNumber(e.value)
         [] OTHER -> e.value

\* The typed values of the elements of a constructed one; a varbind list is a
\* sequence of such pairs of a name and a value.
Typed(e) == <<e.type, ValueOf(e)>>
Varbinds(e) == [i \in DOMAIN Elements(e.value) |->
                 LET vb == Elements(e.value)[i]
                 IN  <<vb.type, [j \in DOMAIN Elements(vb.value) |-> Typed(Elements(vb.value)[j])]>>]

\* A message: its version, community, the type of its PDU, the PDU's fields
\* before the varbind list, and the varbinds.
Unreadable == [pdu |-> -1]
Message(bytes) ==
  LET outer == Elements(bytes)
      parts == Elements(outer[1].value)
      fields == Elements(parts[3].value)
      n == Len(fields)
  IN  IF Len(outer) # 1 THEN Unreadable
      ELSE IF outer[1].type # 48 \/ Len(parts) # 3 THEN Unreadable
      ELSE IF parts[1].type # 2 \/ parts[2].type # 4 \/ n = 0 THEN Unreadable
      ELSE IF fields[n].type # 48 THEN Unreadable
      ELSE [pdu |-> parts[3].type, version |-> ValueOf(parts[1])[1],
            community |-> parts[2].value,
            fields |-> [i \in 1 .. n - 1 |-> Typed(fields[i])],
            varbinds |-> Varbinds(fields[n])]

-----------------------------------------------------------------------------
(* How a manager writes one.                                               *)

LengthOctets(n) ==
  IF n < Base \div 2 THEN <<n>>
  ELSE IF n < Base THEN <<(Base \div 2) + 1, n>>
  ELSE <<(Base \div 2) + 2, n \div Base, n % Base>>
Element(type, value) == <<type>> \o LengthOctets(Len(value)) \o value

\* The shortest two's complement.
Integer(v) ==
  LET half(k) == Base^k \div 2
      k == Min({j \in 1 .. WordBytes : -half(j) <= v /\ v < half(j)})
  IN  Element(2, [i \in 1 .. k |-> (v \div Base^(k - i)) % Base])

\* An OID whose sub-identifiers take a byte each, and a request without values.
Name(oid) == Element(6, <<oid[1] * 40 + oid[2]>> \o SubSeq(oid, 3, Len(oid)))
Request(m) ==
  LET vbs == FlattenSeq([i \in DOMAIN m.list |-> Element(48, Name(m.list[i]) \o Element(5, <<>>))])
      pdu == Element(m.pdu, Integer(m.id) \o Integer(m.status) \o Integer(m.index) \o Element(48, vbs))
  IN  Integer(m.version) \o Element(4, m.community) \o pdu
=============================================================================
