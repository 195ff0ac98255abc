----------------------------- MODULE Mib2Tables -----------------------------
(***************************************************************************)
(* The tables of MIB-2: interfaces (src/snmp_mib2_interfaces.c), ipAddr    *)
(* and ipRoute (src/snmp_mib2_ip.c), udp and udpEndpoint                   *)
(* (src/snmp_mib2_udp.c), over the two node types of src/snmp_table.c.     *)
(* They read the lists of interfaces and of UDP control blocks, which      *)
(* nothing under src/ fills in: the stack below does, in any order.        *)
(*                                                                         *)
(* A manager asks for one instance after the other, each time for the one  *)
(* behind the last answer, or for any instance.                            *)
(***************************************************************************)
EXTENDS NextOid

CONSTANTS
  Netifs,       \* bound: the interfaces there may be: [num, ip, mask, gw]
  Pcbs,         \* bound: the control blocks: [local_ip, local_port, remote_ip, remote_port]
  WalkStarts,   \* bound: <<table, oid>> a walk starts with
  Probes,       \* bound: <<table, oid>> asked for that need not be there
  MaxChanges,   \* bound: changes of the lists in a behaviour
  MaxWalk       \* bound: answers of a walk

Tables == {"interfaces", "ipAddr", "ipRoute", "udp", "udpEndpoint"}
Addresses4 == [1 .. 4 -> 0 .. 255]
Ports == 0 .. MaxPort
NetifNumbers == 0 .. 254
NoNetif == [num |-> 0]

\* netif_add() numbers the interfaces, each by itself.
ASSUME NetifsAssumption ==
  \A n \in Netifs : /\ n # NoNetif
                    /\ n.num \in NetifNumbers /\ \A m \in Netifs : m.num = n.num => m = n
                    /\ n.ip \in Addresses4 /\ n.mask \in Addresses4 /\ n.gw \in Addresses4
                    /\ \A i \in 1 .. 4 : n.mask[i] \in {0, 255}
ASSUME PcbsAssumption ==
  \A p \in Pcbs : /\ p.local_ip \in Addresses4 /\ p.local_port \in Ports
                  /\ p.remote_ip \in Addresses4 /\ p.remote_port \in Ports
ASSUME AskedAssumption ==
  \A s \in WalkStarts \cup Probes : s[1] \in Tables /\ s[2] \in Seq(Nat)

VARIABLES
  netif_list,      \* [netif, up, link]: the interfaces, in the order of the list
  netif_default,   \* an interface or NoNetif
  udp_pcbs,
  changes,         \* number of changes of these
  walk,            \* the table walked through, the last instance, those answered
                   \* so far, and the rows the table has had since the start
  held,            \* the instance snmp_table_get_(next_)instance() has found, whose
                   \* value interfaces_Table_get_value() has not read yet
  answer           \* the last answer

stackVars == <<netif_list, netif_default, udp_pcbs>>
tableVars == <<stackVars, changes, walk, held, answer>>

NoAnswer == [op |-> "none"]
NotHeld == [holds |-> FALSE]
NoInstance == <<>>
Number(n) == <<n>>          \* values are sequences: octets, arcs or one number
Anything == <<>>            \* no value a cell has

\* netif_to_num()
NetifToNum(n) == n.num + 1
\* ip4_addr_get_network(), for masks that end between octets.
Network(n) == [i \in 1 .. 4 |-> IF n.mask[i] = 255 THEN n.ip[i] ELSE 0]

-----------------------------------------------------------------------------
(* The rows of the tables in the order the code goes through them, with    *)
(* what it remembers of each: the interface or control block, and whether  *)
(* the row is the default route.                                           *)

RowOf(oid, of, default) == [oid |-> oid, of |-> of, default |-> default]

InterfaceRows ==
  [i \in DOMAIN netif_list |-> RowOf(<<NetifToNum(netif_list[i].netif)>>, netif_list[i], FALSE)]

AddrRows == [i \in DOMAIN netif_list |-> RowOf(netif_list[i].netif.ip, netif_list[i], FALSE)]

NetworkRows == [i \in DOMAIN netif_list |->
                  RowOf(Network(netif_list[i].netif), netif_list[i], FALSE)]
\* The default route first, of the default interface as it is in the list; the networks
\* without address are gone through and not offered.
DefaultRow ==
  IF netif_default = NoNetif THEN <<>>
  ELSE <<RowOf(AnyAddress, CHOOSE n \in ToSet(netif_list) : n.netif = netif_default, TRUE)>>
RouteRows == DefaultRow \o NetworkRows
Skipped(table, row) == table = "ipRoute" /\ ~row.default /\ row.oid = AnyAddress

UdpRows == [i \in DOMAIN udp_pcbs |->
              RowOf(udp_pcbs[i].local_ip \o <<udp_pcbs[i].local_port>>, udp_pcbs[i], FALSE)]

EndpointOid(p) ==
  IpPortToOid(p.local_ip, p.local_port) \o IpPortToOid(p.remote_ip, p.remote_port) \o <<0>>
EndpointRows == [i \in DOMAIN udp_pcbs |-> RowOf(EndpointOid(udp_pcbs[i]), udp_pcbs[i], FALSE)]

Rows(table) ==
  CASE table = "interfaces" -> InterfaceRows
    [] table = "ipAddr" -> AddrRows
    [] table = "ipRoute" -> RouteRows
    [] table = "udp" -> UdpRows
    [] table = "udpEndpoint" -> EndpointRows

\* The columns of the tables, and the longest row next_oid has room for.
InterfacesColumns == 1 .. 22
AddrColumns == 1 .. 5
RouteColumns == 1 .. 13
UdpColumns == 1 .. 2
EndpointColumns == {8}
Columns(table) ==
  CASE table = "interfaces" -> InterfacesColumns
    [] table = "ipAddr" -> AddrColumns
    [] table = "ipRoute" -> RouteColumns
    [] table = "udp" -> UdpColumns
    [] table = "udpEndpoint" -> EndpointColumns
RowRoom(table) ==
  CASE table = "interfaces" -> 1
    [] table \in {"ipAddr", "ipRoute"} -> 4
    [] table = "udp" -> 5
    [] table = "udpEndpoint" -> 39

-----------------------------------------------------------------------------
(* The value of a cell.                                                    *)

\* interfaces_Table_get_value(); the other columns are fields of the interface.
InterfaceCell(n, column) ==
  CASE column = 1 -> Number(NetifToNum(n.netif))
    [] column = 7 -> Number(IF n.up THEN 1 ELSE 2)
    [] column = 8 -> Number(IF n.up /\ n.link THEN 1 ELSE IF n.up THEN 7 ELSE 2)
    [] column = 21 -> Number(0)
    [] column = 22 -> <<0, 0>>
    [] OTHER -> <<NetifToNum(n.netif), column>>

\* ip_AddrTable_get_cell_value_core()
AddrCell(n, column) ==
  CASE column = 1 -> n.netif.ip
    [] column = 2 -> Number(NetifToNum(n.netif))
    [] column = 3 -> n.netif.mask
    [] column = 4 -> Number(1)
    [] column = 5 -> Number(0)

\* ip_RouteTable_get_cell_value_core(); -1 is <<"none">>
RouteCell(n, default, column) ==
  CASE column = 1 -> IF default THEN AnyAddress ELSE Network(n.netif)
    [] column = 2 -> Number(NetifToNum(n.netif))
    [] column = 3 -> Number(IF default THEN 1 ELSE 0)
    [] column \in {4, 5, 6, 12} -> <<"none">>
    [] column = 7 -> IF default THEN n.netif.gw ELSE n.netif.ip
    [] column = 8 -> Number(IF default THEN 4 ELSE 3)
    [] column = 9 -> Number(2)
    [] column = 10 -> Number(0)
    [] column = 11 -> IF default THEN AnyAddress ELSE n.netif.mask
    [] column = 13 -> <<0, 0>>

\* udp_Table_get_cell_value_core()
UdpCell(p, column) == IF column = 1 THEN p.local_ip ELSE Number(p.local_port)

\* udp_endpointTable_get_cell_value_core()
EndpointCell == Number(0)

Cell(table, row, column) ==
  CASE table = "interfaces" -> InterfaceCell(row.of, column)
    [] table = "ipAddr" -> AddrCell(row.of, column)
    [] table = "ipRoute" -> RouteCell(row.of, row.default, column)
    [] table = "udp" -> UdpCell(row.of, column)
    [] table = "udpEndpoint" -> EndpointCell

-----------------------------------------------------------------------------
(* GET: the first row in the list that fits the OID, or none.              *)

FirstFit(rows, Fits(_)) ==
  LET fitting == {i \in DOMAIN rows : Fits(rows[i])}
  IN  IF fitting = {} THEN <<>> ELSE <<rows[CHOOSE i \in fitting : \A j \in fitting : i <= j]>>
RowWithOid(rows, oid) == FirstFit(rows, LAMBDA r : r.oid = oid)

\* interfaces_Table_oid_ranges and the port of udp_Table_oid_ranges
NumberRange == <<1, 255>>
PortRange == <<1, MaxPort>>

\* interfaces_Table_get_cell_instance()
InterfaceFor(oid) ==
  IF OidInRange(oid, <<NumberRange>>) THEN RowWithOid(InterfaceRows, oid) ELSE <<>>

\* ip_AddrTable_get_cell_value()
AddrFor(oid) == IF OidInRange(oid, Octets(4)) THEN RowWithOid(AddrRows, oid) ELSE <<>>

\* ip_RouteTable_get_cell_value()
\* (Mutated: the default route as any other.)
RouteForWithoutDefault(oid) ==
  IF ~OidInRange(oid, Octets(4)) THEN <<>> ELSE RowWithOid(NetworkRows, oid)
RouteFor(oid) ==
  IF ~OidInRange(oid, Octets(4)) THEN <<>>
  ELSE IF oid = AnyAddress /\ netif_default # NoNetif THEN DefaultRow
  ELSE RowWithOid(NetworkRows, oid)

\* udp_Table_get_cell_value()
UdpFor(oid) ==
  IF OidInRange(oid, Octets(4) \o <<PortRange>>) THEN RowWithOid(UdpRows, oid) ELSE <<>>

\* udp_endpointTable_get_cell_value(): both ends as they are read.  When the second
\* one cannot be read, the search is for what the variables happen to hold.
Unread(oid) ==
  {[ip |-> p.remote_ip, port |-> p.remote_port] :
     p \in {q \in ToSet(udp_pcbs) : Len(oid) >= 2 /\ oid[2] = 0 => q.remote_ip = AnyAddress}}
EndpointWith(local, remote) ==
  FirstFit(EndpointRows, LAMBDA r : /\ r.of.local_ip = local.ip
                                    /\ r.of.local_port = local.port
                                    /\ r.of.remote_ip = remote.ip
                                    /\ r.of.remote_port = remote.port)
EndpointsBetween(oid, local, remote) ==
  LET idx == local.read + remote.read
  IN  IF local.read = 0 \/ Len(oid) < idx + 1 THEN {<<>>}
      ELSE IF oid[idx + 1] # 0 THEN {<<>>}
      ELSE IF remote.read > 0 THEN {EndpointWith(local, remote)}
      ELSE {<<>>} \cup {EndpointWith(local, r) : r \in Unread(SubSeq(oid, idx + 1, Len(oid)))}
EndpointsFor(oid) ==
  LET local == OidToIpPort(oid)
  IN  EndpointsBetween(oid, local, OidToIpPort(SubSeq(oid, local.read + 1, Len(oid))))

Lookups(table, oid) ==
  CASE table = "interfaces" -> {InterfaceFor(oid)}
    [] table = "ipAddr" -> {AddrFor(oid)}
    [] table = "ipRoute" -> {RouteFor(oid)}
    [] table = "udp" -> {UdpFor(oid)}
    [] table = "udpEndpoint" -> EndpointsFor(oid)

\* snmp_table_simple_get_instance() and snmp_table_get_instance(): the rows GET may
\* find, a sequence of one or none.
GetInstance(table, oid) ==
  IF Len(oid) >= 3 /\ oid[1] = 1 /\ oid[2] \in Columns(table)
  THEN Lookups(table, SubSeq(oid, 3, Len(oid)))
  ELSE {<<>>}

-----------------------------------------------------------------------------
(* GETNEXT: the next row by snmp_next_oid_check() over all of them.        *)

Offered(table, state, row) ==
  IF Skipped(table, row) THEN state ELSE NextOidCheck(state, row.oid, row)
SearchRow(table, after) ==
  LET rows == Rows(table)
      upTo[i \in 0 .. Len(rows)] ==
        IF i = 0 THEN NextOidInit(after, RowRoom(table))
        ELSE Offered(table, upTo[i - 1], rows[i])
  IN  upTo[Len(rows)]
Instance(column, row) == <<1, column>> \o row
FoundInColumn(column, state) ==
  [oid |-> Instance(column, state.next), row |-> state.reference]
NothingFound == [oid |-> NoInstance]

\* snmp_table_simple_get_next_instance() and snmp_table_get_next_instance(): the row
\* behind the one asked for in the first column not before the one asked for, then
\* the first row of the next column.
\* (Mutated: the next column is searched behind the same row.)
NextInColumnsKeepingRow(table, columns, row) ==
  LET here == SearchRow(table, row)
  IN  IF columns = {} \/ here.status # "success" THEN NothingFound
      ELSE FoundInColumn(CHOOSE c \in columns : \A d \in columns : c <= d, here)
NextInColumns(table, columns, row) ==
  LET here == SearchRow(table, row)
      top == SearchRow(table, <<>>)
      first == CHOOSE c \in columns : \A d \in columns : c <= d
      later == columns \ {first}
  IN  IF columns = {} THEN NothingFound
      ELSE IF here.status = "success" THEN FoundInColumn(first, here)
      ELSE IF later # {} /\ top.status = "success"
      THEN FoundInColumn(CHOOSE c \in later : \A d \in later : c <= d, top)
      ELSE NothingFound

GetNextInstance(table, oid) ==
  IF Len(oid) > 0 /\ oid[1] > 1 THEN NothingFound
  ELSE NextInColumns(table,
         {c \in Columns(table) : c >= IF Len(oid) > 1 THEN oid[2] ELSE 0},
         SubSeq(oid, 3, Len(oid)))

-----------------------------------------------------------------------------
TablesInit ==
  /\ netif_list = <<>> /\ netif_default = NoNetif /\ udp_pcbs = <<>>
  /\ changes = 0
  /\ walk \in {[table |-> s[1], start |-> s[2], at |-> s[2], seen |-> <<>>, ended |-> FALSE,
                stable |-> {}] : s \in WalkStarts}
  /\ held = NotHeld
  /\ answer = NoAnswer

RowOids(table) == {r.oid : r \in {q \in ToSet(Rows(table)) : ~Skipped(table, q)}}

(* The stack below: interfaces and control blocks come in front of their   *)
(* list and go from anywhere.                                              *)
StackChanges ==
  /\ changes < MaxChanges
  /\ changes' = changes + 1
  /\ answer' = NoAnswer
  /\ \E t \in {walk.table} : walk' = [walk EXCEPT !.stable = @ \cap RowOids(t)']
  /\ UNCHANGED held

ListedNetifs == {n.netif : n \in ToSet(netif_list)}

NetifAdd(n) ==
  /\ n \notin ListedNetifs
  /\ netif_list' = <<[netif |-> n, up |-> TRUE, link |-> TRUE]>> \o netif_list
  /\ UNCHANGED <<netif_default, udp_pcbs>>
  /\ StackChanges

NetifRemove(i) ==
  /\ netif_list' = RemoveAt(netif_list, i)
  /\ netif_default' = IF netif_default = netif_list[i].netif THEN NoNetif ELSE netif_default
  /\ UNCHANGED udp_pcbs
  /\ StackChanges

NetifSetDefault(n) ==
  /\ n \in ListedNetifs /\ n # netif_default
  /\ netif_default' = n
  /\ UNCHANGED <<netif_list, udp_pcbs>>
  /\ StackChanges

NetifSetLink(i, up, link) ==
  /\ netif_list' = [netif_list EXCEPT ![i].up = up, ![i].link = link]
  /\ UNCHANGED <<netif_default, udp_pcbs>>
  /\ StackChanges

UdpBind(p) ==
  /\ p \notin ToSet(udp_pcbs)
  /\ udp_pcbs' = <<p>> \o udp_pcbs
  /\ UNCHANGED <<netif_list, netif_default>>
  /\ StackChanges

UdpRemove(i) ==
  /\ udp_pcbs' = RemoveAt(udp_pcbs, i)
  /\ UNCHANGED <<netif_list, netif_default>>
  /\ StackChanges

StackStep ==
  \/ /\ walk.table \in {"interfaces", "ipAddr", "ipRoute"}
     /\ \/ \E n \in Netifs : NetifAdd(n)
        \/ \E i \in DOMAIN netif_list : NetifRemove(i)
        \/ walk.table = "ipRoute" /\ \E n \in Netifs : NetifSetDefault(n)
        \/ /\ walk.table = "interfaces"
           /\ \E i \in DOMAIN netif_list, up, link \in BOOLEAN : NetifSetLink(i, up, link)
  \/ /\ walk.table \in {"udp", "udpEndpoint"}
     /\ \/ \E p \in Pcbs : UdpBind(p)
        \/ \E i \in DOMAIN udp_pcbs : UdpRemove(i)

-----------------------------------------------------------------------------
(* The agent.  A simple table reads the value when it finds the instance;  *)
(* interfacesTable keeps the interface and reads the value later.          *)

\* The instance is found: `row' is what the code has kept of it.
Answered(op, asked, oid, row) ==
  IF walk.table = "interfaces"
  THEN /\ held' = [holds |-> TRUE, op |-> op, asked |-> asked, oid |-> oid, row |-> row,
                   changes |-> changes]
       /\ answer' = NoAnswer
  ELSE /\ answer' = [op |-> op, asked |-> asked, oid |-> oid, late |-> FALSE,
                     value |-> Cell(walk.table, row, oid[2])]
       /\ UNCHANGED held
NotAnswered(op, asked) ==
  /\ answer' = [op |-> op, asked |-> asked, oid |-> NoInstance, late |-> FALSE]
  /\ UNCHANGED held

\* The rows the table has had since the walk began.
Stable == IF walk.seen = <<>> THEN RowOids(walk.table) ELSE walk.stable
Found(instance) ==
  /\ Answered("next", walk.at, instance.oid, instance.row)
  /\ walk' = [walk EXCEPT !.at = instance.oid, !.seen = Append(@, instance.oid),
                          !.stable = Stable]
NotFound ==
  /\ NotAnswered("next", walk.at)
  /\ walk' = [walk EXCEPT !.ended = TRUE, !.stable = Stable]

GetNext ==
  /\ ~held.holds /\ ~walk.ended /\ Len(walk.seen) < MaxWalk
  /\ \E instance \in {GetNextInstance(walk.table, walk.at)} :
       IF instance.oid = NoInstance THEN NotFound ELSE Found(instance)
  /\ UNCHANGED <<stackVars, changes>>

Get(oid) ==
  /\ ~held.holds
  /\ \E found \in GetInstance(walk.table, oid) :
       IF found = <<>> THEN NotAnswered("get", oid)
       ELSE Answered("get", oid, oid, found[1])
  /\ UNCHANGED <<stackVars, changes, walk>>

\* interfaces_Table_get_value() through the pointer: of the interface as it is now, or
\* of whatever is where it was.
ValuesRead(column) ==
  LET now == {n \in ToSet(netif_list) : n.netif = held.row.of.netif}
  IN  IF now = {} THEN {InterfaceCell(held.row.of, column), Anything}
      ELSE {InterfaceCell(n, column) : n \in now}
ReadValue ==
  /\ held.holds
  /\ \E value \in ValuesRead(held.oid[2]) :
       answer' = [op |-> held.op, asked |-> held.asked, oid |-> held.oid,
                  late |-> held.changes # changes, value |-> value]
  /\ held' = NotHeld
  /\ UNCHANGED <<stackVars, changes, walk>>

Asked == ToSet(walk.seen) \cup {p[2] : p \in {q \in Probes : q[1] = walk.table}}
TablesStep == GetNext \/ ReadValue \/ \E oid \in Asked : Get(oid)

-----------------------------------------------------------------------------
Instances(table) == {Instance(c, r) : c \in Columns(table), r \in RowOids(table)}
Value(table, oid) ==
  Cell(table, RowWithOid(Rows(table), SubSeq(oid, 3, Len(oid)))[1], oid[2])

\* Rows of udpTable with port 0: their range check begins with port 1.
Unfit(oid) == walk.table = "udp" /\ Last(oid) = 0
\* Instances GET finds although no walk comes by: any OID that reads as a row of
\* udpEndpointTable, and 0.0.0.0 for an interface without an address.
Alias(oid) ==
  \/ walk.table = "udpEndpoint"
  \/ walk.table = "ipRoute" /\ netif_default = NoNetif /\ SubSeq(oid, 3, 6) = AnyAddress

\* The OID has a row but names no column of the table, or has 0 in the place of the row
\* entry: the search starts in the middle of a later column.
RowWithoutColumn(oid) ==
  Len(oid) > 1 /\ (oid[1] = 0 \/ (Len(oid) > 2 /\ oid[2] \notin Columns(walk.table)))

NextAnswered(behind) ==
  IF behind = {} THEN answer.oid = NoInstance
  ELSE /\ answer.oid \in behind
       /\ \A i \in behind : OidAtMost(answer.oid, i)
       /\ answer.value = Value(walk.table, answer.oid)

\* GET and GETNEXT agree on a table: GETNEXT returns the least instance behind the one
\* asked for, GET finds the same instances, and of rows that share an OID both return
\* the values of the same one, whatever the order of the list; an answer read after a
\* change has the value of its row if that is still there
\* (get_cell_value() and get_next_cell_instance_and_value() of the tables).
AnswersMatchTable ==
  /\ answer.op = "next" /\ ~answer.late /\ ~RowWithoutColumn(answer.asked) =>
       NextAnswered({i \in Instances(walk.table) : OidLess(answer.asked, i)})
  /\ answer.op = "get" /\ ~answer.late =>
       IF answer.asked \in Instances(walk.table) /\ ~Unfit(answer.asked)
       THEN answer.oid = answer.asked
       ELSE answer.oid = NoInstance \/ Alias(answer.oid)
  /\ answer.op # "none" =>
       (answer.oid \in Instances(walk.table) => answer.value = Value(walk.table, answer.oid))

\* A walk comes by every row the table has had since its start, in every column it has
\* passed, and never turns back, however interfaces and control blocks come and go
\* (snmp_next_oid_check(), snmp_table_simple_get_next_instance()).
StableRowsVisited ==
  LET from == walk.seen
      passed(oid) == /\ OidLess(walk.start, oid)
                     /\ walk.ended \/ (from # <<>> /\ OidAtMost(oid, walk.at))
  IN  /\ \A i \in 1 .. Len(from) - 1 : OidLess(from[i], from[i + 1])
      /\ ~RowWithoutColumn(walk.start) => \A c \in Columns(walk.table), r \in walk.stable :
           passed(Instance(c, r)) => Instance(c, r) \in ToSet(from)
=============================================================================
