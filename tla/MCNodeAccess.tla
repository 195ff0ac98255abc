---------------------------- MODULE MCNodeAccess ----------------------------
(* The instance of NodeAccess TLC checks.                                   *)
EXTENDS NodeAccess, Textual, TLC

CONSTANTS s1, s2, e1, e2, e3, e4

\* Two interfaces in one network, and one without an address.
Netif(num, ip, mask) == [num |-> num, ip |-> ip, mask |-> mask, gw |-> <<10, 0, 0, 9>>]
MCNetifs ==
  {Netif(2, <<10, 0, 0, 1>>, <<255, 255, 255, 0>>),
   Netif(1, <<10, 0, 0, 2>>, <<255, 255, 255, 0>>),
   Netif(0, <<0, 0, 0, 0>>, <<0, 0, 0, 0>>)}

\* Control blocks that share local ends, one of them without a port.
Pcb(lp, rp) ==
  [local_ip |-> <<0, 0, 0, 0>>, local_port |-> lp, remote_ip |-> <<10, 0, 0, 7>>, remote_port |-> rp]
MCPcbs == {Pcb(161, 0), Pcb(161, 7), Pcb(0, 0)}

MCWalkStarts ==
  {<<"interfaces", <<>>>>, <<"interfaces", <<1, 7, 2>>>>, <<"interfaces", <<1, 22, 1>>>>,
   <<"ipAddr", <<1, 4, 10, 0>>>>, <<"ipRoute", <<1, 1>>>>, <<"ipRoute", <<1, 13>>>>,
   <<"udp", <<>>>>, <<"udp", <<0, 2>>>>, <<"udpEndpoint", <<>>>>}

MCProbes ==
  {<<"interfaces", <<1, 1, 2>>>>, <<"interfaces", <<1, 23, 2>>>>, <<"ipAddr", <<1, 1, 10, 0, 0, 1>>>>,
   <<"ipAddr", <<1, 1, 10, 0, 0, 256>>>>, <<"ipRoute", <<1, 1, 0, 0, 0, 0>>>>,
   <<"ipRoute", <<1, 2, 10, 0, 0, 0>>>>, <<"udp", <<1, 2, 0, 0, 0, 0, 161>>>>,
   <<"udpEndpoint", <<1, 8, 1, 4, 0, 0, 0, 0, 161, 0>>>>,
   <<"udpEndpoint", <<1, 8, 0, 0, 161, 1, 4, 10, 0, 0, 7, 0, 0, 7>>>>,
   <<"udpEndpoint", <<1, 8, 1, 4, 0, 0, 0, 0, 161, 1, 4, 10, 0, 0, 7, 70000, 0>>>>,
   <<"udpEndpoint", <<1, 8, 1, 4, 0, 0, 0, 0>>>>}

MCTexts == {<<>>, <<1>>, <<1, 0, 2>>, <<1, 2, 3>>}
MCDefaultText == <<7, 7, 7>>

\* A node with all methods, one with some, and the one whose arc is not its target's
\* (ip_ReasmFails_synced).
SyncNode(oid, target, found, methods) ==
  [oid |-> oid, target |-> target, found |-> found, methods |-> methods]
MCSyncNodes ==
  {SyncNode(1, 1, {1, 2}, {"get_value", "set_value", "release_instance"}),
   SyncNode(2, 2, {2}, {"get_value"}),
   SyncNode(15, 16, {2}, {"get_value"})}
MCMaxCalls == s1 :> 3 @@ s2 :> 1

MCPrefixOf == e1 :> <<"1", ".", "1">> @@ e2 :> <<"1", ".", "1", "0">>
           @@ e3 :> <<"1", ".", "2", ".", "*">> @@ e4 :> <<"1", ".", "1">>
MCRequested ==
  {<<"1", ".", "1">>, <<"1", ".", "1", "0">>, <<"1", ".", "2", ".", "3">>, <<"1", ".", "2">>,
   <<"2">>}

-----------------------------------------------------------------------------
\* snmp_next_oid_precheck() never rules out a row snmp_next_oid_check() would take.
SmallOids == UNION {[1 .. n -> 0 .. 1] : n \in 0 .. 3}
ASSUME PrecheckIsNecessary ==
  \A start, first, oid \in SmallOids :
    \A state \in {NextOidCheck(NextOidInit(start, 3), first, 1)} :
      NextOidCheck(state, oid, 2) # state =>
        \A n \in 0 .. Len(oid) : NextOidPrecheck(state, SubSeq(oid, 1, n))

\* An address and a port are read back from an OID, whatever is behind them.
ASSUME EndsReadBack ==
  \A ip \in {AnyAddress, <<10, 0, 255, 7>>}, port \in {0, 65535}, rest \in SmallOids :
    OidToIpPort(IpPortToOid(ip, port) \o rest) = [read |-> 7, ip |-> ip, port |-> port]

\* Every counter of the groups is the counter of one arc, or of its 64-bit one.
Arcs == {"snmp"} \X SnmpNodes \cup {"ip"} \X IpNodes \cup {"icmp"} \X IcmpNodes
          \cup {"udp"} \X UdpNodes
ASSUME CountersAreDistinct ==
  \A o, p \in Arcs : o # p /\ Counter(o) = Counter(p) =>
    Counter(o) = <<0>> \/ {o, p} \in {{<<"udp", 1>>, <<"udp", 8>>}, {<<"udp", 4>>, <<"udp", 9>>}}

\* BITS values are read back while there are no more octets than the counter of
\* snmp_decode_bits() counts, on octets of two bits, values of four and a counter to 8.
ASSUME BitsReadBack ==
  /\ \A bits \in SUBSET (0 .. 3), count \in 0 .. 8, room \in 2 .. 4 :
       DecodeBits(EncodeBits(room, bits, count)) = [err |-> "ERR_OK", bits |-> bits]
  /\ \A string \in [1 .. 8 -> BOOLEAN] :
       (DecodeBits(string).err = "ERR_OK") <=> \A i \in 5 .. 8 : ~string[i]
  /\ \A b \in BOOLEAN : DecodeTruthValue(EncodeTruthValue(b)).value = b
=============================================================================
