------------------------------ MODULE Frames ------------------------------
(***************************************************************************)
(* The messages of src/snmp_msg.c as bytes: snmp_parse_inbound_frame(), the*)
(* frame of a response, and varbinds in both directions.  What is done with*)
(* the varbinds of a request between the two is SnmpRequest.               *)
(*                                                                         *)
(* A varbind is a record: oid, type, value and raw.  The value is what     *)
(* object_value points to, a sequence: one number for the integer types,   *)
(* a pair of words for a Counter64, the sub-identifiers of an OID, bytes   *)
(* otherwise; raw is the flag SNMP_GET_VALUE_RAW_DATA.                     *)
(***************************************************************************)
EXTENDS Asn1

CONSTANTS
  MaxOidLen,     \* SNMP_MAX_OBJ_ID_LEN
  MaxValue,      \* SNMP_MAX_VALUE_SIZE
  MaxCommunity,  \* SNMP_MAX_COMMUNITY_STR_LEN
  MaxResponse    \* the bytes of the pbuf for a response; 1472 in the code

GetRequest == 160
GetNextRequest == 161
GetResponse == 162
SetRequest == 163
GetBulkRequest == 165

SNMP_VERSION_1 == 0
SNMP_VERSION_2c == 1

TlvSize(len) == 1 + LengthCnt(len) + len
Built(W, X) == IF X.err = "OK" THEN X ELSE Fail(W, "ARG")   \* BUILD_EXEC

-----------------------------------------------------------------------------
(* Varbinds.                                                               *)

\* The number of bytes of the value of vb, a varbind of a fixed size: those of
\* its type, or -1 for one that cannot be.
FixedLength(vb, len) == IF Len(vb.value) = 1 THEN len ELSE -1

ValueLength(vb) ==
  CASE vb.value = <<>> -> 0
    [] vb.value # <<>> /\ (vb.raw \/ vb.type \in {OCTET_STRING, IPADDR, OPAQUE}) -> Len(vb.value)
    [] vb.value # <<>> /\ ~vb.raw /\ vb.type = INTEGER -> FixedLength(vb, S32Cnt(vb.value[1]))
    [] vb.value # <<>> /\ ~vb.raw /\ vb.type \in {COUNTER, GAUGE, TIMETICKS} ->
         FixedLength(vb, U32Cnt(vb.value[1]))
    [] vb.value # <<>> /\ ~vb.raw /\ vb.type = OBJECT_ID -> OidCnt(vb.value)
    [] vb.value # <<>> /\ ~vb.raw /\ vb.type = COUNTER64 -> U64Cnt(vb.value)
    [] OTHER -> -1

\* snmp_varbind_length(): the bytes of the name, of the value and of both.
VarbindLength(vb) ==
  LET lengths(oid, value) ==
        [err |-> IF value = -1 THEN "VAL" ELSE "OK", oid |-> oid, value |-> value,
         both |-> TlvSize(oid) + TlvSize(value)]
  IN  lengths(OidCnt(vb.oid), ValueLength(vb))

EncValue(W, vb, n) ==
  CASE n = 0 -> W
    [] n > 0 /\ (vb.raw \/ vb.type \in {OCTET_STRING, IPADDR, OPAQUE}) -> EncRaw(W, vb.value)
    [] n > 0 /\ ~vb.raw /\ vb.type = INTEGER -> EncS32(W, n, vb.value[1])
    [] n > 0 /\ ~vb.raw /\ vb.type \in {COUNTER, GAUGE, TIMETICKS} -> EncU32(W, n, vb.value[1])
    [] n > 0 /\ ~vb.raw /\ vb.type = OBJECT_ID -> EncOid(W, vb.value)
    [] OTHER -> EncU64(W, n, vb.value)

\* A varbind of these lengths.
EncName(W, oid, len) == EncOid(EncTlv(W, OBJECT_ID, LengthCnt(len), len), oid)
EncTyped(W, vb, len) == EncValue(EncTlv(W, vb.type, LengthCnt(len), len), vb, len)
EncVarbind(W, vb, len) ==
  EncTyped(EncName(EncTlv(W, SEQUENCE, LengthCnt(len.both), len.both), vb.oid, len.oid), vb, len.value)

\* snmp_append_outbound_varbind(): nothing is written when there is no room for
\* all of it.
AppendSized(W, vb, len) ==
  IF len.err # "OK" THEN Fail(W, len.err)
  ELSE IF TlvSize(len.both) > W.room THEN Fail(W, "BUF")
  ELSE Built(W, EncVarbind(W, vb, len))
AppendVarbind(W, vb) == IF W.err # "OK" THEN W ELSE AppendSized(W, vb, VarbindLength(vb))

DecValue(in, type, len) ==
  LET one(d) == IF d.err = "OK" THEN [d EXCEPT !.value = <<@>>] ELSE d
  IN  CASE type = INTEGER -> one(DecS32(in, len))
        [] type \in {COUNTER, GAUGE, TIMETICKS} -> one(DecU32(in, len))
        [] type \in {OCTET_STRING, OPAQUE} -> DecRaw(in, len, MaxValue)
        [] type = NULL_TYPE -> Decoded(<<>>, in)
        [] type = OBJECT_ID -> DecOid(in, len, MaxOidLen)
        [] type = IPADDR -> IF len = 4 THEN DecRaw(in, len, MaxValue) ELSE DecError("VAL")
        [] type = COUNTER64 -> DecU64(in, len)
        [] OTHER -> DecError("VAL")

TlvLength(tlv) == tlv.hdr + tlv.len

\* snmp_vb_enumerator_get_next() over the bytes left, the value decoded; EOVB is
\* the end of the varbinds.
NextVarbind(in) ==
  LET bad == DecError("ASN1ERROR")
      valued(oid, type, value) ==
        IF value.err = "MEM" THEN DecError("INVALIDLENGTH")
        ELSE IF value.err # "OK" THEN bad
        ELSE Decoded([oid |-> oid, type |-> type, value |-> value.value, raw |-> FALSE], value.rest)
      typed(len, oid, type) ==
        IF type.err # "OK" THEN bad
        ELSE IF TlvLength(type.value) # len \/ type.value.len > Len(type.rest) THEN bad
        ELSE valued(oid, type.value.type, DecValue(type.rest, type.value.type, type.value.len))
      named(len, oid) == IF oid.err # "OK" THEN bad ELSE typed(len, oid.value, DecTlv(oid.rest))
      inner(len, name) ==
        IF name.err # "OK" THEN bad
        ELSE IF \/ name.value.type # OBJECT_ID
                \/ TlvLength(name.value) >= len
                \/ name.value.len >= Len(name.rest) THEN bad
        ELSE named(len - TlvLength(name.value), DecOid(name.rest, name.value.len, MaxOidLen))
      outer(tlv) ==
        IF tlv.err # "OK" THEN bad
        ELSE IF tlv.value.type # SEQUENCE \/ tlv.value.len > Len(tlv.rest) THEN bad
        ELSE inner(tlv.value.len, DecTlv(tlv.rest))
  IN  IF in = <<>> THEN DecError("EOVB") ELSE outer(DecTlv(in))

-----------------------------------------------------------------------------
(* A request.  The parser P is the record snmp_parse_inbound_frame() fills *)
(* in, with the first error, what is left of the stream and of the         *)
(* container (parent_tlv_value_len) and the tlv read last.                 *)

Then(P, step(_)) == IF P.err = "OK" THEN step(P) ELSE P
Stop(P) == [P EXCEPT !.err = "ARG"]
Require(P, holds(_)) == Then(P, LAMBDA Q : IF holds(Q) THEN Q ELSE Stop(Q))

\* What the decoder d returned is kept in this field.
Filled(P, field, d) ==
  IF d.err # "OK" THEN Stop(P) ELSE [P EXCEPT !.in = d.rest, ![field] = d.value]

ReadTlv(P) == Then(P, LAMBDA Q : Filled(Q, "tlv", DecTlv(Q.in)))
Enter(P) == Then(P, LAMBDA Q : [Q EXCEPT !.left = Q.tlv.len])

\* A tlv of this type in a container in which something must follow.
ReadField(P, type) ==
  Then(ReadTlv(P), LAMBDA Q :
    IF Q.tlv.type # type \/ Q.left - TlvLength(Q.tlv) <= 0 THEN Stop(Q)
    ELSE [Q EXCEPT !.left = @ - TlvLength(Q.tlv)])

ReadInteger(P, field) ==
  Then(ReadField(P, INTEGER), LAMBDA Q : Filled(Q, field, DecS32(Q.in, Q.tlv.len)))

\* The community; one that is too long is skipped and counts as empty.
ReadCommunity(P) ==
  Then(ReadField(P, OCTET_STRING), LAMBDA Q :
    IF Q.tlv.len <= MaxCommunity THEN Filled(Q, "community", DecRaw(Q.in, Q.tlv.len, MaxCommunity))
    ELSE IF Q.tlv.len > Len(Q.in) THEN Q
    ELSE [Q EXCEPT !.in = Rest(@, Q.tlv.len)])

\* The bytes before the terminating zero, which strncmp() compares.
CString(bytes) == SelectInSeq(Append(bytes, 0), LAMBDA b : b = 0)
SameString(s, t) == SubSeq(s, 1, CString(s) - 1) = SubSeq(t, 1, CString(t) - 1)

\* Whether the community allows a request of this type.
CommunityFits(community, type, read, write) ==
  /\ community # <<>>
  /\ IF type = SetRequest THEN write = <<>> \/ SameString(write, community)
     ELSE SameString(read, community)

Accepted(type, version) ==
  \/ type \in {GetRequest, GetNextRequest, GetResponse, SetRequest}
  \/ type = GetBulkRequest /\ version >= SNMP_VERSION_2c

\* The message up to its PDU.
ReadHeader(P) ==
  LET outer(Q) == Q.tlv.type = SEQUENCE /\ Q.tlv.len = Len(Q.in)
      known(Q) == Q.version \in {SNMP_VERSION_1, SNMP_VERSION_2c}
      accepted(Q) == Q.tlv.len <= Len(Q.in) /\ Accepted(Q.tlv.type, Q.version)
      version == Require(ReadInteger(Enter(Require(ReadTlv(P), outer)), "version"), known)
  IN  Then(Enter(Require(ReadTlv(ReadCommunity(version)), accepted)), LAMBDA Q :
        [Q EXCEPT !.type = Q.tlv.type, !.padding = Len(Q.in) - Q.tlv.len])

\* The PDU up to its varbinds.  The error index of a request is kept: the
\* assertion on it looks at the error status.
ReadPdu(P) ==
  LET noError(Q) == Q.type = GetBulkRequest \/ Q.status = 0
      list(Q) == Q.tlv.type = SEQUENCE /\ Q.tlv.len <= Len(Q.in)
      status == Require(ReadInteger(ReadInteger(P, "request_id"), "status"), noError)
  IN  Require(ReadTlv(ReadInteger(status, "index")), list)

\* (Mutated: the padding behind the PDU counts as varbinds.)
InboundVarbindsPadded(rest, padding) == rest

\* The varbinds are what is left of the stream without the padding.
InboundVarbinds(rest, padding) == SubSeq(rest, 1, Len(rest) - padding)

\* snmp_parse_inbound_frame(), with the read and the write community.
ParseInboundFrame(in, read, write) ==
  LET start == [err |-> "OK", authfail |-> FALSE, in |-> in, left |-> 0,
                tlv |-> [type |-> 0, hdr |-> 0, len |-> 0], version |-> 0, community |-> <<>>,
                type |-> 0, padding |-> 0, request_id |-> 0, status |-> 0, index |-> 0]
      authorized(P) ==
        IF CommunityFits(P.community, P.type, read, write) THEN P
        ELSE [P EXCEPT !.err = "ARG", !.authfail = TRUE]
      parsed(P) ==
        IF P.err # "OK" THEN [err |-> P.err, authfail |-> P.authfail]
        ELSE [err |-> "OK", authfail |-> FALSE, version |-> P.version,
              community |-> P.community, type |-> P.type, request_id |-> P.request_id,
              readOnly |-> P.type = SetRequest /\ write = <<>>,
              non_repeaters |-> Max({P.status, 0}), max_repetitions |-> Max({P.index, 0}),
              error_index |-> IF P.type = GetBulkRequest THEN 0 ELSE P.index,
              varbinds |-> InboundVarbinds(P.in, P.padding)]
  IN  parsed(ReadPdu(Then(ReadHeader(start), authorized)))

-----------------------------------------------------------------------------
(* A response.                                                             *)

EncInteger(W, v) == EncS32(EncTlv(W, INTEGER, 0, S32Cnt(v)), S32Cnt(v), v)
EncReserved(W) == EncRaw(EncTlv(W, INTEGER, 0, 1), <<0>>)

\* snmp_prepare_outbound_frame(): the lengths that are not known yet take three
\* bytes, the error status and index one; where they are is remembered.
PrepareOutboundFrame(request) ==
  LET version == EncInteger(EncTlv(Writer(MaxResponse), SEQUENCE, 3, 0), request.version)
      n == Len(request.community)
      community == EncRaw(EncTlv(version, OCTET_STRING, 0, n), request.community)
      id == EncInteger(EncTlv(community, GetResponse, 3, 0), request.request_id)
      status == EncReserved(id)
      index == EncReserved(status)
      frame(W, pdu) == [W |-> W, pdu |-> pdu, status |-> Len(W.out) - 8, index |-> Len(W.out) - 5,
                        varbinds |-> Len(W.out)]
  IN  frame(Built(Writer(MaxResponse), EncTlv(index, SEQUENCE, 3, 0)), Len(community.out))

\* A part of the frame is written again.
Patched(bytes, offset, X) ==
  SubSeq(bytes, 1, offset) \o X.out \o Rest(bytes, offset + Len(X.out))

Header(type, len) == EncTlv(Writer(4), type, 3, len)
OneByte(v) == EncS32(Writer(1), 1, v)

\* (Mutated: the length of the message is not corrected for its own header.)
CompletedWithHeader(bytes, f) ==
  LET message == Patched(bytes, 0, Header(SEQUENCE, Len(bytes)))
      pdu == Patched(message, f.pdu, Header(GetResponse, Len(bytes) - f.pdu - 4))
  IN  Patched(pdu, f.varbinds - 4, Header(SEQUENCE, Len(bytes) - f.varbinds))

\* The three lengths that were missing.
Completed(bytes, f) ==
  LET message == Patched(bytes, 0, Header(SEQUENCE, Len(bytes) - 4))
      pdu == Patched(message, f.pdu, Header(GetResponse, Len(bytes) - f.pdu - 4))
  IN  Patched(pdu, f.varbinds - 4, Header(SEQUENCE, Len(bytes) - f.varbinds))

\* snmp_complete_outbound_frame() once the status is one of the version: with an
\* error, or to a SET, the varbinds of the request are the answer.
CompleteOutboundFrame(f, request, error_status, varbind_count) ==
  LET echoed == error_status # 0 \/ request.type = SetRequest
      room == MaxResponse - f.varbinds
      copy == SubSeq(request.varbinds, 1, Min({room, Len(request.varbinds)}))
      frame == IF echoed THEN SubSeq(f.W.out, 1, f.varbinds) \o copy ELSE f.W.out
      index == CASE error_status = 1 -> 0
                 [] error_status \notin {0, 1} /\ request.error_index = 0 -> varbind_count
                 [] OTHER -> request.error_index
      marked == Patched(Patched(frame, f.status, OneByte(error_status)), f.index, OneByte(index))
  IN  IF S32Cnt(error_status) # 1 THEN DecError("ARG")
      ELSE IF S32Cnt(index) # 1 THEN DecError("VAL")
      ELSE Decoded(Completed(marked, f), <<>>)
=============================================================================
