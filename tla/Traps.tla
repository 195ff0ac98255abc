------------------------------- MODULE Traps -------------------------------
(***************************************************************************)
(* Notifications: src/snmp_traps.c.  An action is a call of its interface; *)
(* the two passes over a message, the sums and the encoding, are operators *)
(* with the names of the functions.                                        *)
(***************************************************************************)
EXTENDS Frames, AgentSockets

CONSTANTS
  Destinations,   \* SNMP_TRAP_DESTINATIONS
  IpAddresses,    \* bound: the addresses destinations are set to
  DeviceOid,      \* snmp_get_device_enterprise_oid()
  Community,      \* snmp_community_trap
  FirstRequestId, \* 1 in the code
  MaxNotices,     \* bound: the notifications of a behaviour
  Clock,          \* bound: what sys_now() returns, milliseconds
  Notices         \* bound: what applications ask for: [eoid, generic, specific, list, prev]

AnyAddress == <<0, 0, 0, 0>>

ASSUME TrapsAssumption ==
  /\ Destinations \in Nat \ {0}
  /\ FirstRequestId + MaxNotices < Half(WordBytes)
  /\ \A t \in Clock : t \in 0 .. Word - 1
  /\ \A a \in IpAddresses : Len(a) = 4

VARIABLES
  trap_dst,                   \* [enable, dip] by index
  snmp_auth_traps_enabled,
  snmp_default_trap_version,
  req_id,
  call                        \* the last notification: what was asked and what came of it

trapVars == <<trap_dst, snmp_auth_traps_enabled, snmp_default_trap_version, req_id, call>>
settingVars == <<trap_dst, snmp_auth_traps_enabled, snmp_default_trap_version, req_id>>

SNMP_VERSION_3 == 3
EnterpriseSpecific == 6
AuthFailure == 4
TrapPdu == 164
InformPdu == 166
V2TrapPdu == 167
NoOid == <<>>               \* the pointer is NULL
Snmp == <<1, 3, 6, 1, 2, 1, 11>>
SysUpTime == <<1, 3, 6, 1, 2, 1, 1, 3, 0>>
SnmpTrapOid == <<1, 3, 6, 1, 6, 3, 1, 1, 4, 1, 0>>
SnmpTraps == <<1, 3, 6, 1, 6, 3, 1, 1, 5>>
NoCall == [made |-> FALSE]

TrapsInit ==
  /\ trap_dst = [i \in 1 .. Destinations |-> [enable |-> FALSE, dip |-> AnyAddress]]
  /\ snmp_auth_traps_enabled = FALSE
  /\ snmp_default_trap_version = SNMP_VERSION_1
  /\ req_id = FirstRequestId
  /\ call = NoCall

-----------------------------------------------------------------------------
(* The settings.                                                           *)

\* snmp_trap_dst_enable() and snmp_trap_dst_ip_set().
TrapDstEnable ==
  /\ \E i \in 1 .. Destinations, enable \in BOOLEAN :
       trap_dst' = [trap_dst EXCEPT ![i].enable = enable]
  /\ call' = NoCall
  /\ UNCHANGED <<snmp_auth_traps_enabled, snmp_default_trap_version, req_id>>

TrapDstIpSet ==
  /\ \E i \in 1 .. Destinations, dst \in IpAddresses :
       trap_dst' = [trap_dst EXCEPT ![i].dip = dst]
  /\ call' = NoCall
  /\ UNCHANGED <<snmp_auth_traps_enabled, snmp_default_trap_version, req_id>>

\* snmp_set_auth_traps_enabled()
SetAuthTrapsEnabled ==
  /\ \E enable \in BOOLEAN : snmp_auth_traps_enabled' = enable
  /\ call' = NoCall
  /\ UNCHANGED <<trap_dst, snmp_default_trap_version, req_id>>

\* snmp_set_default_trap_version(), with the three values its comment lists.
SetDefaultTrapVersion ==
  /\ snmp_default_trap_version' \in {SNMP_VERSION_1, SNMP_VERSION_2c, SNMP_VERSION_3}
  /\ call' = NoCall
  /\ UNCHANGED <<trap_dst, snmp_auth_traps_enabled, req_id>>

\* snmp_prepare_trap_test() of src/snmp_zephyr.c.
PrepareTrapTest ==
  /\ snmp_default_trap_version' = SNMP_VERSION_2c
  /\ \E dst \in IpAddresses : trap_dst' = [trap_dst EXCEPT ![1] = [enable |-> TRUE, dip |-> dst]]
  /\ call' = NoCall
  /\ UNCHANGED <<snmp_auth_traps_enabled, req_id>>

-----------------------------------------------------------------------------
(* A message m: version, inform, enterprise, sip, generic, specific, ts    *)
(* and id.                                                                 *)

\* snmp_prepare_trap_oid(): a generic trap is numbered by specific_trap too.
PrepareTrapOid(eoid, generic, specific) ==
  LET base == IF eoid = NoOid THEN DeviceOid ELSE eoid
  IN  CASE generic = EnterpriseSpecific ->
             IF Len(base) + 2 < MaxOidLen
             THEN [err |-> "OK", oid |-> Append(base, specific % Word)]
             ELSE [err |-> "MEM", oid |-> base]
        [] generic \in 0 .. EnterpriseSpecific - 1 ->
             [err |-> "OK", oid |-> Append(SnmpTraps, (specific + 1) % Word)]
        [] OTHER -> [err |-> "VAL", oid |-> <<>>]

\* snmp_prepare_necessary_msg_fields(); MIB2_COPY_SYSUPTIME_TO counts in 10 ms.
PrepareFields(m, now) ==
  IF m.version # SNMP_VERSION_1 THEN m
  ELSE [m EXCEPT !.enterprise = IF @ = NoOid THEN DeviceOid ELSE @,
                 !.specific = IF m.generic = EnterpriseSpecific THEN @ ELSE 0,
                 !.ts = now \div 10]

\* The two varbinds snmpTrapOID and sysUpTime put before those of a v2c message.
SpecialVarbinds(oid, now) ==
  <<[oid |-> SysUpTime, type |-> TIMETICKS, value |-> <<now \div 10>>, raw |-> FALSE],
    [oid |-> SnmpTrapOid, type |-> OBJECT_ID, value |-> oid, raw |-> FALSE]>>

\* snmp_trap_varbind_sum(): the length of the varbinds; one whose length cannot
\* be computed counts as none.
VarbindSum(list) ==
  LET size(len) == IF len.err = "OK" THEN TlvSize(len.both) ELSE 0
  IN  FoldSeq(LAMBDA vb, sum : sum + size(VarbindLength(vb)), 0, list) % Base^2

\* snmp_trap_header_sum_v1_specific()
HeaderSumV1(m) ==
  TlvSize(U32Cnt(m.ts)) + TlvSize(S32Cnt(m.specific)) + TlvSize(S32Cnt(m.generic))
  + TlvSize(Len(m.sip)) + TlvSize(OidCnt(m.enterprise))

\* (Mutated: the error index is forgotten.)
HeaderSumV2cWithoutIndex(m) == TlvSize(U32Cnt(m.id)) + TlvSize(U32Cnt(0))

\* snmp_trap_header_sum_v2c_specific(): the request id, error status and index
\* are counted unsigned.
HeaderSumV2c(m) == TlvSize(U32Cnt(m.id)) + TlvSize(U32Cnt(0)) + TlvSize(U32Cnt(0))

\* snmp_trap_header_sum(): the lengths of the varbinds, the PDU and the message
\* inside, and the total.
HeaderSum(m, vbseqlen) ==
  LET specific == CASE m.version = SNMP_VERSION_1 -> HeaderSumV1(m)
                    [] m.version = SNMP_VERSION_2c -> HeaderSumV2c(m)
                    [] OTHER -> 0
      pdulen == (TlvSize(vbseqlen) + specific) % Base^2
      seqlen == (TlvSize(pdulen) + TlvSize(Len(Community)) + TlvSize(S32Cnt(m.version))) % Base^2
  IN  [vbs |-> vbseqlen, pdu |-> pdulen, seq |-> seqlen, total |-> TlvSize(seqlen) % Base^2]

\* snmp_trap_header_enc_pdu()
HeaderEncPdu(W, m, pdulen) ==
  CASE m.version = SNMP_VERSION_1 -> EncTlv(W, TrapPdu, 0, pdulen)
    [] m.version = SNMP_VERSION_2c -> EncTlv(W, IF m.inform THEN InformPdu ELSE V2TrapPdu, 0, pdulen)
    [] OTHER -> W

EncSigned(W, type, v) == EncS32(EncTlv(W, type, 0, S32Cnt(v)), S32Cnt(v), v)

\* snmp_trap_header_enc_v1_specific(): the time is counted and written signed.
HeaderEncV1(W, m) ==
  LET enterprise == EncOid(EncTlv(W, OBJECT_ID, 0, OidCnt(m.enterprise)), m.enterprise)
      sip == EncRaw(EncTlv(enterprise, IPADDR, 0, Len(m.sip)), m.sip)
      generic == EncSigned(sip, INTEGER, m.generic)
      specific == EncSigned(generic, INTEGER, m.specific)
  IN  EncSigned(specific, TIMETICKS, m.ts)

\* snmp_trap_header_enc_v2c_specific()
HeaderEncV2c(W, m) == EncInteger(EncInteger(EncInteger(W, m.id), 0), 0)

\* snmp_trap_header_enc()
HeaderEnc(W, m, lens) ==
  LET version == EncInteger(EncTlv(W, SEQUENCE, 0, lens.seq), m.version)
      community == EncRaw(EncTlv(version, OCTET_STRING, 0, Len(Community)), Community)
      pdu == HeaderEncPdu(community, m, lens.pdu)
  IN  CASE m.version = SNMP_VERSION_1 -> HeaderEncV1(pdu, m)
        [] m.version = SNMP_VERSION_2c -> HeaderEncV2c(pdu, m)
        [] OTHER -> pdu

\* snmp_trap_varbind_enc()
VarbindEnc(W, list, vbseqlen) ==
  FoldLeft(AppendVarbind, EncTlv(W, SEQUENCE, 0, vbseqlen), list)

Sending(err, sent, leaked, len) == [err |-> err, sent |-> sent, leaked |-> leaked, len |-> len]

\* What was not written of the pbuf is whatever was there, here 0.
Datagram(m, W) ==
  [by |-> sockets[snmp_traps_handle], to |-> m.sip, bytes |-> W.out \o [i \in 1 .. W.room |-> 0]]

\* A message that cannot be encoded is returned from without pbuf_free().
SendEncoded(m, W, len, accepted) ==
  IF W.err # "OK" THEN Sending("ARG", <<>>, 1, len)
  ELSE Sending(IF SendTo(snmp_traps_handle, len, accepted) <= 0 THEN "CONN" ELSE "OK",
               IF snmp_traps_handle \in DOMAIN sockets /\ accepted THEN <<Datagram(m, W)>> ELSE <<>>,
               0, len)

\* snmp_send_msg() with the lengths of HeaderSum.
SendSized(m, list, lens, memory, accepted) ==
  IF ~memory THEN Sending("MEM", <<>>, 0, lens.total)
  ELSE SendEncoded(m, VarbindEnc(HeaderEnc(Writer(lens.total), m, lens), list, lens.vbs),
                   lens.total, accepted)
SendMsg(m, list, memory, accepted) ==
  SendSized(m, list, HeaderSum(m, VarbindSum(list)), memory, accepted)

-----------------------------------------------------------------------------
(* A notification.                                                         *)

Enabled(i) == trap_dst[i].enable /\ trap_dst[i].dip # AnyAddress

AfterSend(st, r) ==
  [err |-> r.err, sent |-> st.sent \o r.sent, leaked |-> st.leaked + r.leaked, len |-> r.len]

\* (Mutated: a destination that fails does not end the loop.)
TurnOn(st, i, m, list, outcome) ==
  IF ~Enabled(i) THEN st
  ELSE AfterSend(st, SendMsg([m EXCEPT !.sip = trap_dst[i].dip], list, outcome # "memory", outcome # "refused"))

\* One turn of the loop over the destinations; snmp_get_local_ip_for_dst() gives
\* the address of the destination as the agent's own.
Turn(st, i, m, list, outcome) ==
  IF st.err # "OK" \/ ~Enabled(i) THEN st
  ELSE AfterSend(st, SendMsg([m EXCEPT !.sip = trap_dst[i].dip], list, outcome # "memory", outcome # "refused"))

\* The prev of the caller's first varbind after the call: it is saved only when
\* the OID could be made, and restored in any case.
PrevAfter(notice, version, oid) ==
  IF version = SNMP_VERSION_2c /\ notice.list # <<>> /\ oid.err # "OK" THEN "NULL" ELSE notice.prev

\* The loop over the destinations.
Loop(m, list, start, outcome) ==
  LET after[i \in 0 .. Destinations] ==
        IF i = 0 THEN start ELSE Turn(after[i - 1], i, m, list, outcome[i])
  IN  after[Destinations]

\* The record of a call that ended like this.
Called(version, inform, notice, now, outcome, oid, end) ==
  [made |-> TRUE, version |-> version, inform |-> inform, notice |-> notice, id |-> req_id,
   now |-> now, outcome |-> outcome, err |-> end.err, sent |-> end.sent,
   leaked |-> end.leaked, len |-> end.len, prev |-> PrevAfter(notice, version, oid)]

\* snmp_send_trap_or_notification_or_inform_generic() when sys_now() is now and
\* sending to the destinations comes out like this.
Notified(version, inform, notice, now, outcome, oid) ==
  LET v2c == version = SNMP_VERSION_2c
      m == [version |-> version, inform |-> inform, enterprise |-> notice.eoid, sip |-> AnyAddress,
            generic |-> notice.generic, specific |-> notice.specific, ts |-> 0, id |-> req_id]
      list == IF v2c THEN SpecialVarbinds(oid.oid, now) \o notice.list ELSE notice.list
      start == Sending(IF v2c THEN oid.err ELSE "OK", <<>>, 0, 0)
  IN  Called(version, inform, notice, now, outcome, oid,
             Loop(PrepareFields(m, now), list, start, outcome))

Send(version, inform, notice) ==
  /\ \E now \in Clock, outcome \in [1 .. Destinations -> {"ok", "memory", "refused"}] :
       /\ \A i \in 1 .. Destinations : Enabled(i) \/ outcome[i] = "ok"
       /\ call' = Notified(version, inform, notice, now, outcome,
                           PrepareTrapOid(notice.eoid, notice.generic, notice.specific))
  /\ req_id' = req_id + 1
  /\ UNCHANGED <<trap_dst, snmp_auth_traps_enabled, snmp_default_trap_version>>

Generic(eoid, generic) ==
  [eoid |-> eoid, generic |-> generic, specific |-> 0, list |-> <<>>, prev |-> "NULL"]

\* snmp_send_trap()
SendTrap == \E notice \in Notices : Send(snmp_default_trap_version, FALSE, notice)

\* snmp_send_trap_specific(): the device's OID.
SendTrapSpecific ==
  \E notice \in Notices :
    /\ notice.eoid = NoOid /\ notice.generic = EnterpriseSpecific
    /\ Send(snmp_default_trap_version, FALSE, notice)

\* snmp_send_trap_generic(): ERR_VAL for version 3.
SendTrapGeneric(generic) ==
  CASE snmp_default_trap_version = SNMP_VERSION_1 ->
         Send(SNMP_VERSION_1, FALSE, Generic(Snmp, generic))
    [] snmp_default_trap_version = SNMP_VERSION_2c ->
         Send(SNMP_VERSION_2c, FALSE, Generic(NoOid, generic))
    [] OTHER -> call' = NoCall /\ UNCHANGED settingVars

\* snmp_coldstart_trap()
ColdstartTrap == SendTrapGeneric(0)

\* snmp_authfail_trap()
AuthfailTrap ==
  IF snmp_auth_traps_enabled THEN SendTrapGeneric(AuthFailure)
  ELSE call' = NoCall /\ UNCHANGED settingVars

\* snmp_send_inform(), and snmp_send_inform_generic() and _specific() with some
\* of its arguments fixed.
SendInform == \E notice \in Notices : Send(SNMP_VERSION_2c, TRUE, notice)

Settings ==
  \/ TrapDstEnable \/ TrapDstIpSet \/ SetAuthTrapsEnabled \/ SetDefaultTrapVersion
  \/ PrepareTrapTest

Notify == SendTrap \/ SendTrapSpecific \/ ColdstartTrap \/ SendInform
=============================================================================
