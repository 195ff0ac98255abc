------------------------------ MODULE NextOid ------------------------------
(***************************************************************************)
(* The helpers of src/snmp_core.c tables are written with: the search for  *)
(* the next row among rows that are enumerated in any order, the range     *)
(* check, and addresses as parts of OIDs.  Addresses are IPv4 (LWIP_IPV6   *)
(* is not defined), the four octets as they are in memory.                 *)
(***************************************************************************)
EXTENDS Naturals, Sequences, FiniteSets, SequencesExt

AnyAddress == <<0, 0, 0, 0>>
NoReference == <<>>
MaxPort == 65535

\* snmp_oid_compare(s, t) < 0
OidLess(s, t) ==
  \/ IsStrictPrefix(s, t)
  \/ \E i \in DOMAIN s \cap DOMAIN t :
       s[i] < t[i] /\ \A j \in 1 .. i - 1 : s[j] = t[j]
OidAtMost(s, t) == s = t \/ OidLess(s, t)

\* snmp_next_oid_init()
NextOidInit(start, max) ==
  [start |-> start, max |-> max, next |-> <<>>, status |-> "noMatch",
   reference |-> NoReference]

Closer(state, oid) == state.status = "noMatch" \/ OidLess(oid, state.next)

\* snmp_next_oid_precheck(): whether an OID that begins so may be the next.
NextOidPrecheck(state, begin) ==
  LET start == SubSeq(state.start, 1, Len(begin))
  IN  /\ state.status # "bufTooSmall"
      /\ OidAtMost(IF Len(begin) < Len(state.start) THEN start ELSE state.start, begin)
      /\ Closer(state, begin)

\* snmp_next_oid_check(): of rows with the same OID the first one is kept.
NextOidCheck(state, oid, reference) ==
  IF state.status = "bufTooSmall" \/ ~OidLess(state.start, oid) \/ ~Closer(state, oid)
  THEN state
  ELSE IF Len(oid) > state.max THEN [state EXCEPT !.status = "bufTooSmall"]
  ELSE [state EXCEPT !.status = "success", !.next = oid, !.reference = reference]

\* snmp_oid_in_range(): ranges are <<min, max>> by arc.
OidInRange(oid, ranges) ==
  /\ Len(oid) = Len(ranges)
  /\ \A i \in DOMAIN oid : oid[i] \in ranges[i][1] .. ranges[i][2]

Octets(n) == [i \in 1 .. n |-> <<0, 255>>]

\* snmp_oid_to_ip(), of the arcs from an index on: how many it has read (0 when
\* they are no address) and the address.
ReadNothing == [read |-> 0, ip |-> AnyAddress]
OidToIp(oid) ==
  IF Len(oid) >= 2 /\ oid[1] = 0 /\ oid[2] = 0
  THEN [read |-> 2, ip |-> AnyAddress]
  ELSE IF /\ Len(oid) >= 6 /\ oid[1] = 1 /\ oid[2] = 4
          /\ OidInRange(SubSeq(oid, 3, 6), Octets(4))
  THEN [read |-> 6, ip |-> SubSeq(oid, 3, 6)]
  ELSE ReadNothing

\* snmp_oid_to_ip_port()
PortBehind(oid, at) ==
  IF at.read = 0 \/ Len(oid) < at.read + 1 \/ oid[at.read + 1] > MaxPort
  THEN [read |-> 0, ip |-> at.ip, port |-> 0]
  ELSE [read |-> at.read + 1, ip |-> at.ip, port |-> oid[at.read + 1]]
OidToIpPort(oid) == PortBehind(oid, OidToIp(oid))

\* snmp_ip_to_oid() and snmp_ip_port_to_oid()
IpToOid(ip) == <<1, 4>> \o ip
IpPortToOid(ip, port) == IpToOid(ip) \o <<port>>
=============================================================================
