--------------------------- MODULE PacketHandoff ---------------------------
(***************************************************************************)
(* The hand-over of received UDP datagrams from Zephyr's socket-service    *)
(* thread to the application's SNMP thread (src/snmp_zephyr.c).            *)
(*                                                                         *)
(* The two threads share the array recvPackets and nothing else: no lock   *)
(* protects it.  udp_service_handler() receives into slot packet_id, calls *)
(* the application's handler with the slot number and moves on to the next *)
(* slot; the application forwards the number to its SNMP thread, which     *)
(* calls snmp_recv_packet().                                               *)
(*                                                                         *)
(* Datagrams are numbered in the order recvfrom() returns them.  A field   *)
(* of a slot, and of the pbuf built from it, holds the number of the       *)
(* datagram its content comes from; 0 stands for "cleared" or "not from a  *)
(* datagram with data".  One step is one access to the shared slot.        *)
(***************************************************************************)
EXTENDS Naturals, Sequences

CONSTANTS
  NSlots,      \* ARRAY_SIZE(recvPackets); the code has 2
  Windows,     \* how many datagrams the peers leave unfinished at the agent: the loads
  QueueLen,    \* capacity of the application's queue of slot numbers
  MaxPackets   \* bound: number of datagrams received in a behaviour

ASSUME ConstantsAssumption ==
  /\ NSlots \in Nat \ {0}
  /\ Windows \subseteq Nat \ {0}
  /\ QueueLen \in Nat \ {0}
  /\ MaxPackets \in Nat

VARIABLES
  recvPackets, \* the shared slots
  packet_id,   \* slot the service thread receives into next
  svcPc,       \* next statement of udp_service_handler
  queue,       \* slot numbers the application forwards to its SNMP thread
  snmpPc,      \* next statement of snmp_recv_packet / handle_snmp_packet
  curId,       \* the packet_id argument of snmp_recv_packet
  pbuf,        \* the pbuf being filled, with the sender read along with it
  request,     \* the last pbuf handed to snmp_receive
  window,      \* the load of this behaviour
  rcvd,        \* number of datagrams received
  finished,    \* number of datagrams the agent is done with
  nomem        \* how many of those pbuf_alloc failed for

svcVars == <<packet_id, svcPc>>
peerVars == <<window, rcvd>>
snmpVars == <<snmpPc, curId, pbuf, request, finished, nomem>>
vars == <<recvPackets, svcVars, queue, snmpVars, peerVars>>

Slots == 0 .. NSlots - 1
SvcPc == {"idle", "recvBuf", "setLen", "setFd", "notify", "advance", "clearNext"}
SnmpPc == {"idle", "readLen", "alloc", "copy", "setLen", "sender", "receive", "clear"}

SRecvPacket == [buf : Nat, len : Nat, fd : Nat, addr : Nat]
EmptySlot == [buf |-> 0, len |-> 0, fd |-> 0, addr |-> 0]
FullSlot(d) == [buf |-> d, len |-> d, fd |-> d, addr |-> d]

\* A pbuf: size allocated, bytes and number of bytes copied, len/tot_len, and
\* the sender (address, port and socket) handed to snmp_receive with it.
Pbuf == [size : Nat, data : Nat, copied : Nat, len : Nat, addr : Nat, fd : Nat]
NoPbuf == [size |-> 0, data |-> 0, copied |-> 0, len |-> 0, addr |-> 0, fd |-> 0]
Whole(d) == [size |-> d, data |-> d, copied |-> d, len |-> d, addr |-> d, fd |-> d]

\* (Mutated: without wrapping around; without moving on; wrapping too early.)
NextSlotUnwrapped(s) == s + 1
NextSlotSame(s) == s
NextSlotTooEarly(s) == IF s + 2 >= NSlots THEN 0 ELSE s + 1
NextSlot(s) == IF s + 1 >= NSlots THEN 0 ELSE s + 1

\* The state snmp_zephyr_init() leaves when it succeeded.
Init ==
  /\ recvPackets = [s \in Slots |-> EmptySlot]
  /\ packet_id = 0
  /\ svcPc = "idle"
  /\ queue = <<>>
  /\ snmpPc = "idle"
  /\ curId = 0
  /\ pbuf = NoPbuf
  /\ request = NoPbuf
  /\ window \in Windows
  /\ rcvd = 0
  /\ finished = 0
  /\ nomem = 0

-----------------------------------------------------------------------------
(* The socket-service thread: udp_service_handler().                       *)

SvcGoto(from, to) == svcPc = from /\ svcPc' = to

\* recvfrom() takes the next datagram and stores the address of its sender ...
SvcRecvAddr ==
  /\ SvcGoto("idle", "recvBuf")
  /\ rcvd < MaxPackets
  /\ rcvd < finished + window
  /\ rcvd' = rcvd + 1
  /\ recvPackets' = [recvPackets EXCEPT ![packet_id].addr = rcvd + 1]
  /\ UNCHANGED <<packet_id, queue, snmpVars, window>>

\* ... and its payload.
SvcRecvBuf ==
  /\ SvcGoto("recvBuf", "setLen")
  /\ recvPackets' = [recvPackets EXCEPT ![packet_id].buf = rcvd]
  /\ UNCHANGED <<packet_id, queue, snmpVars, peerVars>>

\* A datagram without payload: recvfrom() stores the sender and returns 0, and
\* the handler does nothing more.
SvcRecvEmpty ==
  /\ svcPc = "idle"
  /\ recvPackets' = [recvPackets EXCEPT ![packet_id].addr = 0]
  /\ UNCHANGED <<svcVars, queue, snmpVars, peerVars>>

SvcSetLen ==
  /\ SvcGoto("setLen", "setFd")
  /\ recvPackets' = [recvPackets EXCEPT ![packet_id].len = rcvd]
  /\ UNCHANGED <<packet_id, queue, snmpVars, peerVars>>

SvcSetFd ==
  /\ SvcGoto("setFd", "notify")
  /\ recvPackets' = [recvPackets EXCEPT ![packet_id].fd = rcvd]
  /\ UNCHANGED <<packet_id, queue, snmpVars, peerVars>>

\* (Mutated: one notification for all the datagrams that wait.)
SvcNotifyCoalesced ==
  /\ SvcGoto("notify", "advance")
  /\ queue' = IF queue = <<>> THEN Append(queue, packet_id) ELSE queue
  /\ UNCHANGED <<recvPackets, packet_id, snmpVars, peerVars>>

\* user_recv_packet_handler(packet_id): the application queues the slot number
\* without waiting.  When its queue is full the notification is lost.
SvcNotify ==
  /\ SvcGoto("notify", "advance")
  /\ \/ /\ Len(queue) < QueueLen
        /\ queue' = Append(queue, packet_id)
        /\ UNCHANGED finished
     \/ /\ Len(queue) >= QueueLen
        /\ finished' = finished + 1
        /\ UNCHANGED queue
  /\ UNCHANGED <<recvPackets, packet_id, snmpPc, curId, pbuf, request, nomem, peerVars>>

SvcAdvance ==
  /\ SvcGoto("advance", "clearNext")
  /\ packet_id' = NextSlot(packet_id)
  /\ UNCHANGED <<recvPackets, queue, snmpVars, peerVars>>

\* recvPackets[packet_id].len = 0, on the slot the next datagram will use.
SvcClearNext ==
  /\ SvcGoto("clearNext", "idle")
  /\ recvPackets' = [recvPackets EXCEPT ![packet_id].len = 0]
  /\ UNCHANGED <<packet_id, queue, snmpVars, peerVars>>

SvcHandle == \/ SvcRecvBuf \/ SvcSetLen \/ SvcSetFd
             \/ SvcNotify \/ SvcAdvance \/ SvcClearNext
Svc == SvcRecvAddr \/ SvcRecvEmpty \/ SvcHandle

-----------------------------------------------------------------------------
(* The SNMP thread: snmp_recv_packet() and handle_snmp_packet().           *)

SnmpGoto(from, to) == snmpPc = from /\ snmpPc' = to

\* (Mutated: the newest notification first.)
SnmpDequeueNewest ==
  /\ SnmpGoto("idle", "readLen")
  /\ queue # <<>>
  /\ curId' = queue[Len(queue)]
  /\ queue' = SubSeq(queue, 1, Len(queue) - 1)
  /\ UNCHANGED <<recvPackets, svcVars, pbuf, request, peerVars, finished, nomem>>

\* The application's SNMP thread takes a slot number and calls snmp_recv_packet.
SnmpDequeue ==
  /\ SnmpGoto("idle", "readLen")
  /\ queue # <<>>
  /\ curId' = Head(queue)
  /\ queue' = Tail(queue)
  /\ UNCHANGED <<recvPackets, svcVars, pbuf, request, peerVars, finished, nomem>>

\* len = recv->len; a slot with len 0 is ignored.
SnmpReadLen ==
  /\ snmpPc = "readLen"
  /\ \/ /\ recvPackets[curId].len > 0
        /\ snmpPc' = "alloc"
        /\ UNCHANGED finished
     \/ /\ recvPackets[curId].len = 0
        /\ snmpPc' = "idle"
        /\ finished' = finished + 1
  /\ UNCHANGED <<recvPackets, svcVars, queue, curId, pbuf, request, nomem, peerVars>>

\* pbuf_alloc(recv->len): recv->len is read again.  It may fail.
SnmpAlloc ==
  /\ snmpPc = "alloc"
  /\ \/ /\ snmpPc' = "copy"
        /\ pbuf' = [NoPbuf EXCEPT !.size = recvPackets[curId].len]
        /\ UNCHANGED <<finished, nomem>>
     \/ /\ snmpPc' = "clear"
        /\ finished' = finished + 1
        /\ nomem' = nomem + 1
        /\ UNCHANGED pbuf
  /\ UNCHANGED <<recvPackets, svcVars, queue, curId, request, peerVars>>

\* memcpy(pbuf->payload, recv->buf, recv->len)
SnmpCopy ==
  /\ SnmpGoto("copy", "setLen")
  /\ pbuf' = [pbuf EXCEPT !.data = recvPackets[curId].buf,
                          !.copied = recvPackets[curId].len]
  /\ UNCHANGED <<recvPackets, svcVars, queue, curId, request, peerVars, finished, nomem>>

\* pbuf->tot_len = recv->len; pbuf->len = recv->len
SnmpSetLen ==
  /\ SnmpGoto("setLen", "sender")
  /\ pbuf' = [pbuf EXCEPT !.len = recvPackets[curId].len]
  /\ UNCHANGED <<recvPackets, svcVars, queue, curId, request, peerVars, finished, nomem>>

\* (Mutated: the sender of the datagram received last.)
SnmpReadLatestSender ==
  /\ SnmpGoto("sender", "receive")
  /\ pbuf' = [pbuf EXCEPT !.addr = recvPackets[packet_id].addr,
                          !.fd = recvPackets[packet_id].fd]
  /\ UNCHANGED <<recvPackets, svcVars, queue, curId, request, peerVars, finished, nomem>>

\* The address, port and socket the reply will use.
SnmpReadSender ==
  /\ SnmpGoto("sender", "receive")
  /\ pbuf' = [pbuf EXCEPT !.addr = recvPackets[curId].addr,
                          !.fd = recvPackets[curId].fd]
  /\ UNCHANGED <<recvPackets, svcVars, queue, curId, request, peerVars, finished, nomem>>

\* snmp_receive() handles the request and answers it; pbuf_free() follows.
SnmpReceive ==
  /\ SnmpGoto("receive", "clear")
  /\ request' = pbuf
  /\ finished' = finished + 1
  /\ pbuf' = NoPbuf
  /\ UNCHANGED <<recvPackets, svcVars, queue, curId, peerVars, nomem>>

\* recvPackets[packet_id].len = 0
SnmpClear ==
  /\ SnmpGoto("clear", "idle")
  /\ recvPackets' = [recvPackets EXCEPT ![curId].len = 0]
  /\ UNCHANGED <<svcVars, queue, curId, pbuf, request, peerVars, finished, nomem>>

Snmp == \/ SnmpDequeue \/ SnmpReadLen \/ SnmpAlloc \/ SnmpCopy
        \/ SnmpSetLen \/ SnmpReadSender \/ SnmpReceive \/ SnmpClear

Next == Svc \/ Snmp

\* Zephyr schedules both threads whenever they are ready to run; nothing makes
\* a datagram arrive.
Fairness == WF_vars(SvcHandle) /\ WF_vars(Snmp)

Spec == Init /\ [][Next]_vars
FairSpec == Spec /\ Fairness

-----------------------------------------------------------------------------
(* Properties.  Most are promised to peers that leave the agent room: there *)
(* are more slots than unfinished datagrams and the application's queue    *)
(* can hold them all.                                                      *)

Roomy == window < NSlots /\ window <= QueueLen

\* The types of the variables.
TypeOK ==
  /\ recvPackets \in [Slots -> SRecvPacket]
  /\ packet_id \in Slots
  /\ svcPc \in SvcPc
  /\ queue \in Seq(Slots)
  /\ snmpPc \in SnmpPc
  /\ curId \in Slots
  /\ pbuf \in Pbuf
  /\ request \in Pbuf
  /\ window \in Windows
  /\ rcvd \in Nat
  /\ finished \in Nat
  /\ nomem \in Nat

\* What handle_snmp_packet() hands to snmp_receive() is exactly the oldest
\* datagram not yet finished: allocated, copied and delimited by its own
\* length, with its own payload, sender and socket.  No request is torn, lost,
\* repeated or answered to somebody else, although the slot is read six times.
RequestIntact == Roomy /\ snmpPc = "receive" => pbuf = Whole(finished + 1)

\* When snmp_recv_packet() looks at the slot it was told about, the datagram
\* is still there: neither the service thread's clearing of the next slot nor
\* the SNMP thread's own clearing of an earlier one has erased it.
NotifiedPacketPresent ==
  Roomy /\ snmpPc = "readLen" => recvPackets[curId] = FullSlot(finished + 1)

\* The program points of the SNMP thread that read the slot curId, and the
\* slot the service thread is about to write.
SnmpReads == {"readLen", "alloc", "copy", "setLen", "sender"}
SvcWrites == {"idle", "recvBuf", "setLen", "setFd", "clearNext"}

\* The service thread has not notified the newest datagram.
SvcFilling == {"recvBuf", "setLen", "setFd", "notify"}

\* recvPackets has no lock, yet the service thread is never about to write a slot
\* the SNMP thread is about to read, nor receiving into one the SNMP thread is about
\* to clear.  Two clearings may meet at a slot: both store the length 0.
NoDataRace ==
  packet_id = curId =>
    /\ ~ (snmpPc \in SnmpReads /\ svcPc \in SvcWrites)
    /\ ~ (snmpPc = "clear" /\ svcPc \in SvcFilling)

\* With room for every datagram the two threads need no lock.
RoomyRunsDoNotRace == Roomy => NoDataRace

\* After snmp_receive() has answered a request, its peer may send the next one: what
\* snmp_recv_packet() then clears is the datagram it has just handled, or a slot
\* cleared already, and never a datagram nobody has looked at.
ClearsOnlyItsOwn ==
  Roomy /\ snmpPc = "clear" => recvPackets[curId].len \in {0, finished}

\* Even when datagrams arrive faster than the SNMP thread takes them, so that slots
\* are overwritten and notifications lost, each one is eventually dealt with or given
\* up: no notification is left in the queue and neither thread gets stuck on a slot
\* the other one has changed.
EveryPacketFinished ==
  \A d \in 1 .. MaxPackets : (rcvd >= d) ~> (finished >= d)

\* The hand-over implements ReliableHandoff: the only datagrams that do not
\* reach snmp_receive(), whole and in order, are those pbuf_alloc() refused.  Nothing
\* is promised of a behaviour that is not Roomy: it maps to one in which nothing
\* arrives.
IfRoomy(x, none) == IF Roomy THEN x ELSE none

Abstract == INSTANCE ReliableHandoff WITH
  accepted <- IfRoomy(rcvd, 0), finished <- IfRoomy(finished, 0), nomem <- IfRoomy(nomem, 0),
  request <- IfRoomy(request, NoPbuf), Request <- Whole, NoRequest <- NoPbuf

ImplementsReliableHandoff == Abstract!Spec

-----------------------------------------------------------------------------
(* The inductive invariant behind RequestIntact, NotifiedPacketPresent,    *)
(* RoomyRunsDoNotRace and ClearsOnlyItsOwn, of a behaviour that is Roomy.  *)

\* The slot j steps before slot p in the cyclic order.
Back(p, j) == IF j <= p THEN p - j ELSE p + NSlots - j

\* The service thread has not left the newest datagram.
SvcAtNewest == SvcFilling \cup {"advance"}

\* The slot of datagram d, counted back from the service thread's position.
SlotOf(d) == Back(packet_id, IF svcPc \in SvcAtNewest THEN rcvd - d ELSE rcvd + 1 - d)

Notified == IF svcPc \in SvcFilling THEN rcvd - 1 ELSE rcvd

\* The SNMP thread is at work on datagram finished + 1.
Busy == snmpPc \in SnmpReads \cup {"receive"}
Taken == IF Busy THEN finished + 1 ELSE finished

CountsInv ==
  /\ rcvd <= finished + window
  /\ svcPc \in SvcAtNewest => rcvd > 0
  /\ Taken <= Notified

QueueInv ==
  /\ Len(queue) = Notified - Taken
  /\ \A i \in 1 .. Len(queue) : queue[i] = SlotOf(Taken + i)

CurIdInv == snmpPc # "idle" => curId = SlotOf(Taken)

StoredInv == \A d \in finished + 1 .. Notified : recvPackets[SlotOf(d)] = FullSlot(d)

FillingInv ==
  LET s == recvPackets[packet_id]
  IN  /\ svcPc \in SvcFilling => s.addr = rcvd
      /\ svcPc \in SvcFilling \ {"recvBuf"} => s.buf = rcvd
      /\ svcPc \in {"setFd", "notify"} => s.len = rcvd
      /\ svcPc = "notify" => s.fd = rcvd

PbufInv ==
  LET d == finished + 1
      sized == [NoPbuf EXCEPT !.size = d]
      copied == [sized EXCEPT !.data = d, !.copied = d]
  IN  /\ snmpPc = "copy" => pbuf = sized
      /\ snmpPc = "setLen" => pbuf = copied
      /\ snmpPc = "sender" => pbuf = [copied EXCEPT !.len = d]
      /\ snmpPc = "receive" => pbuf = Whole(d)

IInv == /\ TypeOK /\ CountsInv /\ QueueInv /\ CurIdInv
        /\ StoredInv /\ FillingInv /\ PbufInv
=============================================================================
