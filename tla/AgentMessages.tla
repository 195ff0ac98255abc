--------------------------- MODULE AgentMessages ---------------------------
(***************************************************************************)
(* The agent as seen on the network: the notifications it sends, and the   *)
(* bytes of the requests it receives and of its responses, over the        *)
(* sockets it has opened.  A manager reads and writes them with Ber.       *)
(***************************************************************************)
EXTENDS Traps

CONSTANTS
  snmp_community,        \* of GET requests
  snmp_community_write,  \* of SET requests; empty: no object is writable
  MaxDatagram,           \* MAX_BUF_LEN: recvfrom() cuts what is longer
  Requests,  \* bound: what managers ask: [version, community, pdu, id, status, index, list]
  Forms,     \* bound: how the request arrives: whole, with bytes behind the PDU, cut
  Replies    \* bound: types and values of the objects

ASSUME MessagesAssumption ==
  /\ MaxDatagram \in Nat \ {0}
  /\ Forms \subseteq {"whole", "padded", "cut"}

VARIABLE exchange  \* the last request and the response

vars == <<socketVars, trapVars, exchange>>

Manager == INSTANCE Ber

NoExchange == [made |-> FALSE]

Init == SocketsInit /\ TrapsInit /\ exchange = NoExchange

-----------------------------------------------------------------------------
(* A request arrives.                                                      *)

\* The bytes of a request in this form; the length of the whole is right unless
\* it is cut.
Sent(request, form) ==
  LET parts == Manager!Request(request)
      bytes == Manager!Element(SEQUENCE, IF form = "padded" THEN parts \o <<0, 0, 0>> ELSE parts)
  IN  IF form = "cut" THEN Front(bytes) ELSE bytes

Received(bytes) == SubSeq(bytes, 1, Min({MaxDatagram, Len(bytes)}))

\* The varbinds of a request, up to the first error.
Enumerated(in) ==
  LET turn(st, i) ==
        IF st.next.err # "OK" THEN st
        ELSE [list |-> Append(st.list, st.next.value), next |-> NextVarbind(st.next.rest)]
  IN  FoldLeft(turn, [list |-> <<>>, next |-> NextVarbind(in)], in)

\* Without room the status is tooBig, which v1 answers as genErr.
TooBig(version) == IF version = SNMP_VERSION_1 THEN 5 ELSE 1

\* The response when the objects' value is reply or processing ends with status
\* at the varbind of this number.
Response(request, list, reply, status, count) ==
  LET answered == [i \in DOMAIN list |-> [list[i] EXCEPT !.type = reply.type, !.value = reply.value]]
      error_status(W) == CASE status # 0 -> status
                           [] status = 0 /\ W.err = "BUF" -> TooBig(request.version)
                           [] status = 0 /\ W.err \notin {"OK", "BUF"} -> 5
                           [] OTHER -> 0
      completed(f, W) == CompleteOutboundFrame([f EXCEPT !.W = W], request, error_status(W), count)
      filled(f) == completed(f, FoldLeft(AppendVarbind, f.W, answered))
  IN  filled(PrepareOutboundFrame(request))

\* handle_snmp_packet() and snmp_receive() for a request of one or more objects,
\* seen from outside: a request with a wrong community may cause a trap.
ReceiveRequest ==
  /\ has_sockets
  /\ \E request \in Requests, form \in Forms :
       \E p \in {ParseInboundFrame(Received(Sent(request, form)), snmp_community, snmp_community_write)} :
         LET received == [made |-> TRUE, request |-> request, form |-> form, parsed |-> p]
         IN  \/ /\ p.err = "OK"
                /\ \E enumerated \in {Enumerated(p.varbinds)} :
                     IF enumerated.next.err # "EOVB" THEN exchange' = received
                     ELSE \E reply \in Replies, status \in {0, 2, 5}, count \in 1 .. Len(enumerated.list) :
                            exchange' = received @@
                              [reply |-> reply, status |-> status, count |-> count,
                               response |-> Response(p, enumerated.list, reply, status, count)]
                /\ call' = NoCall /\ UNCHANGED settingVars
             \/ p.err # "OK" /\ p.authfail /\ exchange' = received /\ AuthfailTrap
             \/ /\ p.err # "OK" /\ ~p.authfail /\ exchange' = received
                /\ call' = NoCall /\ UNCHANGED settingVars
  /\ UNCHANGED socketVars

\* The records of the last call and exchange are history, which no handler reads:
\* a bound is that another step clears them before the next of these.
Cleared == ~call.made /\ ~exchange.made

SettingsChange == Settings /\ exchange' = NoExchange /\ UNCHANGED socketVars
Notification == Cleared /\ Notify /\ exchange' = NoExchange /\ UNCHANGED socketVars
\* A request that does not fail to authenticate neither reads nor changes the
\* settings of the traps: a bound is that they are the initial ones then.
Request ==
  /\ Cleared /\ ReceiveRequest
  /\ ~exchange'.parsed.authfail => TrapsInit
SocketsChange ==
  /\ ZephyrInit \/ OtherOpens \/ OtherCloses
  /\ call' = NoCall /\ exchange' = NoExchange /\ UNCHANGED settingVars

\* Behaviours end with notification number MaxNotices.
Next ==
  /\ req_id < FirstRequestId + MaxNotices
  /\ SettingsChange \/ Notification \/ Request \/ SocketsChange

Spec == Init /\ [][Next]_vars

-----------------------------------------------------------------------------
(* Properties.                                                             *)

\* The agent runs with both its sockets open or with none, whatever other programs
\* open and close: a start that fails halfway leaves no socket behind, and while the
\* agent runs the handle of the traps is its own socket (src/src/snmp_zephyr.c:297-313).
\* After a failed start the handle keeps its number, which another program may get.
SocketsAllOrNone ==
  IF has_sockets
  THEN /\ sockets[socket_set.server] = "agent" /\ sockets[socket_set.traps] = "agent"
       /\ snmp_traps_handle = socket_set.traps
  ELSE "agent" \notin Range(sockets)

Trap == 0 .. EnterpriseSpecific - 1
TypedVarbind(vb) == <<48, <<<<6, vb.oid>>, <<vb.type, vb.value>>>>>>

\* What the manager is to read of notification c, sent at address to.
Expected(c, to) ==
  LET n == c.notice
      base == IF n.eoid = NoOid THEN DeviceOid ELSE n.eoid
      enterpriseSpecific == n.generic = EnterpriseSpecific
      ticks == c.now \div 10
      list == [i \in DOMAIN n.list |-> TypedVarbind(n.list[i])]
      trapOid == IF enterpriseSpecific THEN Append(base, n.specific % Word)
                 ELSE Append(SnmpTraps, n.generic + 1)
      v2c == <<<<48, <<<<6, SysUpTime>>, <<TIMETICKS, <<ticks>>>>>>>>,
               <<48, <<<<6, SnmpTrapOid>>, <<6, trapOid>>>>>>>>
  IN  IF c.version = SNMP_VERSION_1
      THEN [pdu |-> TrapPdu, version |-> 0, community |-> Community,
            fields |-> <<<<6, base>>, <<IPADDR, to>>, <<2, <<n.generic>>>>,
                         <<2, <<IF enterpriseSpecific THEN n.specific ELSE 0>>>>,
                         <<TIMETICKS, <<ticks>>>>>>,
            varbinds |-> list]
      ELSE [pdu |-> IF c.inform THEN InformPdu ELSE V2TrapPdu, version |-> 1,
            community |-> Community,
            fields |-> <<<<2, <<c.id>>>>, <<2, <<0>>>>, <<2, <<0>>>>>>, varbinds |-> v2c \o list]

\* A generic trap of v2c whose code and specific_trap differ: snmp_prepare_trap_oid()
\* makes its OID from the wrong one (src/src/snmp_traps.c:260).
Misnamed(c) ==
  /\ c.version = SNMP_VERSION_2c
  /\ c.notice.generic # EnterpriseSpecific /\ c.notice.generic # c.notice.specific

Arrive(c) ==
  \A i \in DOMAIN c.sent : Manager!Message(c.sent[i].bytes) = Expected(c, c.sent[i].to)


\* "Send generic SNMP trap, @param generic_trap is the trap code", "Send
\* authentication failure trap" (src/src/snmp_traps.c:474-475, :525): a generic
\* trap arrives as the one it is, in v2c as in v1.
GenericTrapsNamed ==
  call.made /\ call.notice.generic \in Trap /\ call.version # SNMP_VERSION_3 => Arrive(call)

\* The destinations that are enabled, in the order of the table.
Targets ==
  LET upTo[i \in 0 .. Destinations] ==
        IF i = 0 THEN <<>>
        ELSE IF trap_dst[i].enable /\ trap_dst[i].dip # AnyAddress THEN Append(upTo[i - 1], i)
        ELSE upTo[i - 1]
  IN  upTo[Destinations]

\* The system did not take a message, or there was no socket to send it with.
NotTaken(c) ==
  \/ \E i \in DOMAIN c.outcome : c.outcome[i] = "refused"
  \/ snmp_traps_handle \notin DOMAIN sockets

\* snmp_sendto() returned a number of bytes that is no positive s8_t.
LengthIsNoErr(c) == Err(c.len) <= 0

\* The result of a call tells what happened: with ERR_OK each enabled
\* destination got the notification once, in the order of the table, and
\* otherwise the first ones did, by the agent's own socket while it runs; ERR_CONN
\* is for a message the system did not take, but for those SuccessIsOk is about
\* (src/src/snmp_traps.c:421-438).
DestinationsTold ==
  call.made =>
    /\ has_sockets => \A i \in DOMAIN call.sent : call.sent[i].by = "agent"
    /\ \A i \in DOMAIN call.sent : call.sent[i].to = trap_dst[Targets[i]].dip
    /\ call.err = "OK" => Len(call.sent) = Len(Targets)
    /\ call.err = "CONN" => LengthIsNoErr(call) \/ NotTaken(call)
    /\ Targets = <<>> => call.err \in {"OK", "MEM", "VAL"}

\* "@return ERR_OK if sending was successful" (src/src/snmp_traps.c:301): no error
\* of the connection is reported when the system took every message.
SuccessIsOk == call.made /\ call.err = "CONN" => NotTaken(call)

\* Varbinds that have an encoding: a name of two arcs or more, a value of its type.
Encodable(vb) ==
  /\ Len(vb.oid) > 1
  /\ vb.type \in {INTEGER, COUNTER, GAUGE, TIMETICKS} => Len(vb.value) <= 1

\* A call leaves nothing behind: whatever has an encoding fits the pbuf made for
\* it and the pbufs are freed (one with a varbind that has none is lost), and the
\* caller's list is linked as before, unless the OID of a v2c notification could
\* not be made: then prev of its first varbind is overwritten with NULL
\* (src/src/snmp_traps.c:316, :441).
CallLeavesNothing ==
  call.made =>
    /\ call.leaked = IF call.err = "ARG" THEN 1 ELSE 0
    /\ call.err = "ARG" => \E i \in DOMAIN call.notice.list : ~Encodable(call.notice.list[i])
    /\ call.prev = call.notice.prev \/ (call.version = SNMP_VERSION_2c /\ call.err \in {"MEM", "VAL"})

MayAsk(request) ==
  /\ \/ request.pdu \in {GetRequest, GetNextRequest, SetRequest}
     \/ request.pdu = GetBulkRequest /\ request.version = SNMP_VERSION_2c
  /\ request.community =
       IF request.pdu = SetRequest /\ snmp_community_write # <<>> THEN snmp_community_write
       ELSE snmp_community

\* The agent accepts the requests of managers that know the community, whatever
\* follows the PDU, and reads what they wrote, but for a name that is too long; it
\* answers no request that was cut on its way, by recvfrom() or before
\* (src/src/snmp_msg.c:854-1373, :1972-2061).
RequestsReadAsMeant ==
  LET meant(r, p) ==
        <<p.version, p.community, p.type, p.request_id>> = <<r.version, r.community, r.pdu, r.id>>
      bulk(r, p) ==
        r.pdu = GetBulkRequest =>
          <<p.non_repeaters, p.max_repetitions>> = <<Max({r.status, 0}), Max({r.index, 0})>>
      list(r) == [i \in DOMAIN r.list |->
                   [oid |-> r.list[i], type |-> NULL_TYPE, value |-> <<>>, raw |-> FALSE]]
      read(r, p, enumerated) ==
        /\ meant(r, p) /\ bulk(r, p)
        /\ IF \A i \in DOMAIN r.list : Len(r.list[i]) <= MaxOidLen
           THEN enumerated.next.err = "EOVB" /\ enumerated.list = list(r)
           ELSE enumerated.next.err = "ASN1ERROR"
      whole(r, form) == form # "cut" /\ Len(Sent(r, form)) <= MaxDatagram
      holds(r, p, form) ==
        /\ (p.err = "OK") = (whole(r, form) /\ MayAsk(r))
        /\ p.err = "OK" => read(r, p, Enumerated(p.varbinds))
  IN  exchange.made => holds(exchange.request, exchange.parsed, exchange.form)

\* A manager can read the response: the lengths written last fit what the frame
\* has come to hold, the request id, community and version are those of the
\* request, and the varbinds are the values, or with an error the request's
\* own; tooBig, or genErr in v1, takes the place of values that do not fit
\* (src/src/snmp_msg.c:1382-1575, :1772-1893).
AnswersReadBack ==
  LET index(status) == IF status \in {0, 1} THEN 0 ELSE exchange.count
      value(r, status) == IF status # 0 \/ r.pdu = SetRequest THEN <<5, <<>>>>
                          ELSE <<exchange.reply.type, exchange.reply.value>>
      expected(r, status) ==
        [pdu |-> GetResponse, version |-> r.version, community |-> r.community,
         fields |-> <<<<2, <<r.id>>>>, <<2, <<status>>>>, <<2, <<index(status)>>>>>>,
         varbinds |-> [i \in DOMAIN r.list |-> <<48, <<<<6, r.list[i]>>, value(r, status)>>>>]]
      reads(answer) ==
        /\ answer # Manager!Unreadable
        /\ \E status \in {exchange.status}
                          \cup (IF exchange.status = 0 THEN {TooBig(exchange.request.version)} ELSE {}) :
             answer = expected(exchange.request, status)
  IN  exchange.made /\ "response" \in DOMAIN exchange =>
        /\ exchange.response.err = "OK"
        /\ Len(exchange.response.value) <= MaxResponse
        /\ reads(Manager!Message(exchange.response.value))
=============================================================================
