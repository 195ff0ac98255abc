----------------------- MODULE PacketHandoff_proofs ------------------------
(***************************************************************************)
(* Proofs about PacketHandoff, for every number of slots, every queue and  *)
(* every number of datagrams.                                              *)
(***************************************************************************)
EXTENDS PacketHandoff, SequenceTheorems, TLAPS

USE DEF peerVars

-----------------------------------------------------------------------------
(* Lemmas about the operators.                                             *)

\* Moving on to the next slot increases every distance by one.
LEMMA BackNextSlot ==
  ASSUME NEW p \in Slots, NEW j \in 0 .. NSlots - 1
  PROVE  /\ NextSlot(p) \in Slots
         /\ Back(NextSlot(p), j + 1) = Back(p, j)
BY ConstantsAssumption DEF Slots, NextSlot, Back

\* A distance of at most NSlots leads to a slot.
LEMMA BackInSlots ==
  ASSUME NEW p \in Slots, NEW j \in 0 .. NSlots
  PROVE  Back(p, j) \in Slots
BY ConstantsAssumption DEF Slots, Back

\* Distances less than NSlots apart lead to different slots.
LEMMA BackDistinct ==
  ASSUME NEW p \in Slots, NEW i \in 0 .. NSlots, NEW j \in 0 .. NSlots,
         i < j, j - i < NSlots
  PROVE  Back(p, i) # Back(p, j)
BY ConstantsAssumption DEF Slots, Back

\* The slot the handler works on is at distance 0.
LEMMA BackZero ==
  ASSUME NEW p \in Slots
  PROVE  Back(p, 0) = p
BY ConstantsAssumption DEF Slots, Back

-----------------------------------------------------------------------------
(* Type correctness.                                                       *)

\* Every step keeps the types.
LEMMA TypeOKStep == TypeOK /\ [Next]_vars => TypeOK'
<1> SUFFICES ASSUME TypeOK, [Next]_vars
             PROVE  TypeOK'
  OBVIOUS
<1> USE DEF TypeOK
<1>0. /\ recvPackets[curId] \in SRecvPacket
      /\ NoPbuf \in Pbuf
  BY DEF NoPbuf, Pbuf
<1>1. CASE SvcRecvAddr
  <2>1. rcvd + 1 \in Nat
    OBVIOUS
  <2>2. recvPackets' \in [Slots -> SRecvPacket]
    BY <1>1, <2>1 DEF SvcRecvAddr, SRecvPacket
  <2>3. QED
    BY <1>1, <2>2 DEF SvcRecvAddr, SvcGoto, snmpVars, SvcPc
<1>2. CASE SvcRecvBuf
  BY <1>2 DEF SvcRecvBuf, SvcGoto, snmpVars, SvcPc, SRecvPacket
<1>3. CASE SvcRecvEmpty
  BY <1>3 DEF SvcRecvEmpty, svcVars, snmpVars, SvcPc, SRecvPacket
<1>4. CASE SvcSetLen
  BY <1>4 DEF SvcSetLen, SvcGoto, snmpVars, SvcPc, SRecvPacket
<1>5. CASE SvcSetFd
  BY <1>5 DEF SvcSetFd, SvcGoto, snmpVars, SvcPc, SRecvPacket
<1>6. CASE SvcNotify
  BY <1>6 DEF SvcNotify, SvcGoto, SvcPc
<1>7. CASE SvcAdvance
  BY <1>7, BackNextSlot, ConstantsAssumption
  DEF SvcAdvance, SvcGoto, snmpVars, SvcPc, NextSlot, Slots
<1>8. CASE SvcClearNext
  BY <1>8 DEF SvcClearNext, SvcGoto, snmpVars, SvcPc, SRecvPacket
<1>9. CASE SnmpDequeue
  BY <1>9 DEF SnmpDequeue, SnmpGoto, svcVars, SnmpPc
<1>10. CASE SnmpReadLen
  BY <1>10 DEF SnmpReadLen, svcVars, SnmpPc
<1>11. CASE SnmpAlloc
  <2>1. recvPackets[curId].len \in Nat
    BY <1>0 DEF SRecvPacket
  <2>2. [NoPbuf EXCEPT !.size = recvPackets[curId].len] \in Pbuf
    BY <1>0, <2>1 DEF Pbuf
  <2>3. pbuf' \in Pbuf
    BY <1>11, <2>2 DEF SnmpAlloc
  <2>4. QED
    BY <1>11, <2>3 DEF SnmpAlloc, svcVars, SnmpPc
<1>12. CASE SnmpCopy
  <2>1. recvPackets[curId].buf \in Nat /\ recvPackets[curId].len \in Nat
    BY <1>0 DEF SRecvPacket
  <2>2. pbuf' \in Pbuf
    BY <1>12, <2>1 DEF SnmpCopy, Pbuf
  <2>3. QED
    BY <1>12, <2>2 DEF SnmpCopy, SnmpGoto, svcVars, SnmpPc
<1>13. CASE SnmpSetLen
  <2>1. recvPackets[curId].len \in Nat
    BY <1>0 DEF SRecvPacket
  <2>2. pbuf' \in Pbuf
    BY <1>13, <2>1 DEF SnmpSetLen, Pbuf
  <2>3. QED
    BY <1>13, <2>2 DEF SnmpSetLen, SnmpGoto, svcVars, SnmpPc
<1>14. CASE SnmpReadSender
  <2>1. recvPackets[curId].addr \in Nat /\ recvPackets[curId].fd \in Nat
    BY <1>0 DEF SRecvPacket
  <2>2. pbuf' \in Pbuf
    BY <1>14, <2>1 DEF SnmpReadSender, Pbuf
  <2>3. QED
    BY <1>14, <2>2 DEF SnmpReadSender, SnmpGoto, svcVars, SnmpPc
<1>15. CASE SnmpReceive
  BY <1>0, <1>15 DEF SnmpReceive, SnmpGoto, svcVars, SnmpPc
<1>16. CASE SnmpClear
  BY <1>16 DEF SnmpClear, SnmpGoto, svcVars, SnmpPc, SRecvPacket
<1>17. CASE UNCHANGED vars
  BY <1>17 DEF vars, svcVars, snmpVars
<1>18. QED
  BY <1>1, <1>2, <1>3, <1>4, <1>5, <1>6, <1>7, <1>8, <1>9, <1>10, <1>11,
     <1>12, <1>13, <1>14, <1>15, <1>16, <1>17
  DEF Next, Svc, SvcHandle, Snmp

\* Every variable keeps its type, with or without room in recvPackets: slot
\* numbers stay inside the array whatever the threads do.
THEOREM TypeCorrect == Spec => []TypeOK
<1>1. Init => TypeOK
  BY ConstantsAssumption
  DEF Init, TypeOK, Slots, SRecvPacket, EmptySlot, SvcPc, SnmpPc, Pbuf, NoPbuf
<1>2. QED
  BY <1>1, TypeOKStep, PTL DEF Spec

-----------------------------------------------------------------------------
(* The inductive invariant.                                                *)

\* Datagrams finished .. rcvd, the last one finished and those in flight, are
\* in different slots.
LEMMA SlotOfDistinct ==
  ASSUME Roomy, TypeOK, CountsInv,
         NEW d \in finished .. rcvd, NEW e \in finished .. rcvd, d # e
  PROVE  SlotOf(d) \in Slots /\ SlotOf(d) # SlotOf(e)
<1> DEFINE Dist(c) == IF svcPc \in SvcAtNewest THEN rcvd - c ELSE rcvd + 1 - c
<1>1. /\ Dist(d) \in 0 .. NSlots
      /\ Dist(e) \in 0 .. NSlots
      /\ Dist(d) # Dist(e)
      /\ Dist(d) - Dist(e) < NSlots
      /\ Dist(e) - Dist(d) < NSlots
  BY ConstantsAssumption DEF Roomy, TypeOK, CountsInv
<1>2. SlotOf(d) = Back(packet_id, Dist(d)) /\ SlotOf(e) = Back(packet_id, Dist(e))
  BY DEF SlotOf
<1>3. packet_id \in Slots
  BY DEF TypeOK
<1> HIDE DEF Dist
<1>4. CASE Dist(d) < Dist(e)
  BY <1>1, <1>2, <1>3, <1>4, BackInSlots, BackDistinct
<1>5. CASE Dist(e) < Dist(d)
  BY <1>1, <1>2, <1>3, <1>5, BackInSlots, BackDistinct
<1>6. QED
  BY <1>1, <1>4, <1>5

\* The slot the service thread writes is not that of a datagram in flight, but
\* for the one it is receiving.
LEMMA WrittenSlot ==
  ASSUME Roomy, TypeOK, CountsInv
  PROVE  /\ svcPc \in SvcAtNewest => packet_id = SlotOf(rcvd)
         /\ svcPc \notin SvcAtNewest =>
              \A d \in finished + 1 .. rcvd : SlotOf(d) # packet_id
<1>1. packet_id \in Slots /\ rcvd \in Nat /\ finished \in Nat /\ window \in Nat
  BY ConstantsAssumption DEF TypeOK
<1>2. CASE svcPc \in SvcAtNewest
  <2>1. SlotOf(rcvd) = Back(packet_id, 0)
    BY <1>1, <1>2 DEF SlotOf
  <2>2. QED
    BY <1>1, <1>2, <2>1, BackZero
<1>3. ASSUME svcPc \notin SvcAtNewest, NEW d \in finished + 1 .. rcvd
      PROVE  SlotOf(d) # packet_id
  <2>1. rcvd + 1 - d \in 1 .. NSlots - 1
    BY <1>1, ConstantsAssumption DEF Roomy, CountsInv
  <2>2. Back(packet_id, 0) # Back(packet_id, rcvd + 1 - d)
    BY <1>1, <2>1, BackDistinct, ConstantsAssumption
  <2>3. QED
    BY <1>1, <1>3, <2>2, BackZero DEF SlotOf
<1>4. QED
  BY <1>2, <1>3

\* The SNMP thread moves neither the service thread nor the slots' numbering.
LEMMA SnmpKeepsSlots ==
  ASSUME Snmp
  PROVE  /\ rcvd' = rcvd /\ window' = window /\ svcPc' = svcPc /\ packet_id' = packet_id
         /\ Notified' = Notified
         /\ \A d : SlotOf(d)' = SlotOf(d)
<1>1. rcvd' = rcvd /\ window' = window /\ svcPc' = svcPc /\ packet_id' = packet_id
  BY DEF Snmp, SnmpDequeue, SnmpReadLen, SnmpAlloc, SnmpCopy, SnmpSetLen,
         SnmpReadSender, SnmpReceive, SnmpClear, svcVars
<1>2. QED
  BY <1>1 DEF Notified, SlotOf, Back

\* The datagram the SNMP thread works on is whole in its slot.
LEMMA CurrentPacket ==
  ASSUME IInv, Busy
  PROVE  /\ finished + 1 \in finished + 1 .. Notified
         /\ curId = SlotOf(finished + 1)
         /\ recvPackets[curId] = FullSlot(finished + 1)
<1>1. finished \in Nat /\ Notified \in Int
  BY DEF IInv, TypeOK, Notified
<1>2. Taken = finished + 1 /\ snmpPc # "idle"
  BY DEF Busy, SnmpReads, Taken
<1>3. finished + 1 \in finished + 1 .. Notified
  BY <1>1, <1>2 DEF IInv, CountsInv
<1>4. QED
  BY <1>2, <1>3 DEF IInv, CurIdInv, StoredInv

\* The slot the SNMP thread is about to clear is not the one the service thread fills.
LEMMA ClearedSlot ==
  ASSUME Roomy, IInv, snmpPc = "clear", svcPc \in SvcFilling
  PROVE  packet_id # curId
<1>1. finished \in Nat /\ rcvd \in Nat
  BY DEF IInv, TypeOK
<1>2. Taken = finished /\ curId = SlotOf(finished)
  BY DEF IInv, CurIdInv, Taken, Busy, SnmpReads
<1>3. packet_id = SlotOf(rcvd) /\ finished <= rcvd - 1
  BY <1>2, WrittenSlot DEF IInv, CountsInv, Notified, SvcAtNewest
<1>4. finished \in finished .. rcvd /\ rcvd \in finished .. rcvd /\ finished # rcvd
  BY <1>1, <1>3
<1>5. QED
  BY <1>2, <1>3, <1>4, SlotOfDistinct DEF IInv

\* snmp_recv_packet() takes over the oldest notification.
LEMMA DequeueStep ==
  ASSUME Roomy, IInv, TypeOK', SnmpDequeue
  PROVE  IInv'
<1> USE DEF IInv
<1>1. /\ rcvd' = rcvd /\ window' = window /\ svcPc' = svcPc /\ packet_id' = packet_id
      /\ Notified' = Notified
      /\ \A d : SlotOf(d)' = SlotOf(d)
  BY SnmpKeepsSlots DEF Snmp
<1>2. /\ recvPackets' = recvPackets /\ finished' = finished /\ pbuf' = pbuf
      /\ queue # <<>> /\ queue' = Tail(queue) /\ curId' = Head(queue)
      /\ snmpPc = "idle" /\ snmpPc' = "readLen"
  BY DEF SnmpDequeue, SnmpGoto, svcVars
<1>3. Taken = finished /\ Taken' = finished + 1
  BY <1>2 DEF Taken, Busy, SnmpReads
<1>4. finished \in Nat /\ Notified \in Int /\ queue \in Seq(Slots)
  BY DEF TypeOK, Notified
<1>5. /\ Len(queue) >= 1 /\ Len(queue') = Len(queue) - 1
      /\ \A i \in 1 .. Len(queue') : queue'[i] = queue[i + 1]
      /\ curId' = queue[1]
  BY <1>2, <1>4
<1>6. CountsInv'
  BY <1>1, <1>2, <1>3, <1>4, <1>5 DEF CountsInv, QueueInv
<1>7. QueueInv'
  <2>1. Len(queue') = Notified' - Taken'
    BY <1>1, <1>3, <1>4, <1>5 DEF QueueInv
  <2>2. ASSUME NEW i \in 1 .. Len(queue')
        PROVE  queue'[i] = SlotOf(Taken + i)'
    <3>1. queue'[i] = queue[i + 1] /\ i + 1 \in 1 .. Len(queue)
      BY <1>4, <1>5
    <3>2. queue[i + 1] = SlotOf(finished + (i + 1))
      BY <1>3, <3>1 DEF QueueInv
    <3>3. Taken' + i = finished + (i + 1)
      BY <1>3, <1>4
    <3>4. SlotOf(Taken + i)' = SlotOf(finished + (i + 1))
      BY <1>1, <3>3 DEF SlotOf, Back
    <3>5. QED
      BY <3>1, <3>2, <3>4
  <2>3. QED
    BY <2>1, <2>2 DEF QueueInv
<1>8. CurIdInv'
  <2>1. curId' = SlotOf(finished + 1)
    BY <1>3, <1>4, <1>5 DEF QueueInv
  <2>2. QED
    BY <1>1, <1>3, <2>1 DEF CurIdInv
<1>9. StoredInv' /\ FillingInv' /\ PbufInv'
  BY <1>1, <1>2 DEF StoredInv, FillingInv, PbufInv
<1>10. QED
  BY <1>6, <1>7, <1>8, <1>9

\* Steps of the SNMP thread that keep it on the datagram it has taken and
\* change neither the slots nor the queue.
LEMMA WorkStep ==
  ASSUME IInv, TypeOK', Snmp, Busy, Busy', PbufInv',
         UNCHANGED <<recvPackets, queue, curId, finished>>
  PROVE  IInv'
<1> USE DEF IInv
<1>1. /\ rcvd' = rcvd /\ window' = window /\ svcPc' = svcPc /\ packet_id' = packet_id
      /\ Notified' = Notified
      /\ \A d : SlotOf(d)' = SlotOf(d)
  BY SnmpKeepsSlots
<1>2. Taken = finished + 1 /\ Taken' = finished + 1
  BY DEF Taken
<1>3. CountsInv' /\ QueueInv'
  BY <1>1, <1>2 DEF CountsInv, QueueInv
<1>4. CurIdInv'
  BY <1>1, <1>2 DEF CurIdInv, Busy, SnmpReads
<1>5. StoredInv' /\ FillingInv'
  BY <1>1 DEF StoredInv, FillingInv
<1>6. QED
  BY <1>3, <1>4, <1>5

\* Steps that finish the datagram: snmp_receive(), and pbuf_alloc() failing.
LEMMA FinishStep ==
  ASSUME IInv, TypeOK', Snmp, Busy, snmpPc' = "clear", finished' = finished + 1,
         UNCHANGED <<recvPackets, queue, curId>>
  PROVE  IInv'
<1> USE DEF IInv
<1>1. /\ rcvd' = rcvd /\ window' = window /\ svcPc' = svcPc /\ packet_id' = packet_id
      /\ Notified' = Notified
      /\ \A d : SlotOf(d)' = SlotOf(d)
  BY SnmpKeepsSlots
<1>2. Taken = finished + 1 /\ Taken' = finished + 1
  BY DEF Taken, Busy, SnmpReads
<1>3. finished \in Nat /\ rcvd \in Nat /\ window \in Nat
  BY ConstantsAssumption DEF TypeOK
<1>4. CountsInv' /\ QueueInv'
  BY <1>1, <1>2, <1>3 DEF CountsInv, QueueInv
<1>5. CurIdInv'
  BY <1>1, <1>2 DEF CurIdInv, Busy, SnmpReads
<1>6. StoredInv'
  BY <1>1, <1>3 DEF StoredInv
<1>7. FillingInv' /\ PbufInv'
  BY <1>1 DEF FillingInv, PbufInv
<1>8. QED
  BY <1>4, <1>5, <1>6, <1>7

\* Clearing the slot of the finished datagram leaves those in flight alone.
LEMMA ClearStep ==
  ASSUME Roomy, IInv, TypeOK', SnmpClear
  PROVE  IInv'
<1> USE DEF IInv
<1>1. /\ rcvd' = rcvd /\ window' = window /\ svcPc' = svcPc /\ packet_id' = packet_id
      /\ Notified' = Notified
      /\ \A d : SlotOf(d)' = SlotOf(d)
  BY SnmpKeepsSlots DEF Snmp
<1>2. /\ finished' = finished /\ queue' = queue
      /\ snmpPc = "clear" /\ snmpPc' = "idle"
      /\ \A s \in Slots \ {curId} : recvPackets'[s] = recvPackets[s]
  BY DEF SnmpClear, SnmpGoto, svcVars, TypeOK
<1>3. Taken = finished /\ Taken' = finished
  BY <1>2 DEF Taken, Busy, SnmpReads
<1>4. finished \in Nat /\ rcvd \in Nat /\ Notified \in Int /\ Notified <= rcvd
  BY DEF TypeOK, Notified
<1>5. curId = SlotOf(finished) /\ finished <= Notified
  BY <1>2, <1>3 DEF CurIdInv, CountsInv
<1>6. ASSUME NEW d \in finished + 1 .. rcvd
      PROVE  SlotOf(d) \in Slots \ {curId}
  BY <1>4, <1>5, SlotOfDistinct
<1>7. CountsInv' /\ QueueInv'
  BY <1>1, <1>2, <1>3 DEF CountsInv, QueueInv
<1>8. CurIdInv' /\ PbufInv'
  BY <1>2 DEF CurIdInv, PbufInv
<1>9. StoredInv'
  BY <1>1, <1>2, <1>4, <1>6 DEF StoredInv
<1>10. FillingInv'
  <2>1. CASE svcPc \in SvcFilling
    <3>1. packet_id = SlotOf(rcvd)
      BY <2>1, WrittenSlot DEF SvcAtNewest
    <3>2. rcvd \in finished + 1 .. rcvd
      BY <1>4, <1>5, <2>1 DEF Notified
    <3>3. recvPackets'[packet_id] = recvPackets[packet_id]
      BY <1>2, <1>6, <3>1, <3>2
    <3>4. QED
      BY <1>1, <3>3 DEF FillingInv
  <2>2. CASE svcPc \notin SvcFilling
    BY <1>1, <2>2 DEF FillingInv, SvcFilling
  <2>3. QED
    BY <2>1, <2>2
<1>11. QED
  BY <1>7, <1>8, <1>9, <1>10

\* recvfrom() stores the next datagram's sender in the slot of nothing in flight.
LEMMA RecvAddrStep ==
  ASSUME Roomy, IInv, TypeOK', SvcRecvAddr
  PROVE  IInv'
<1> USE DEF IInv
<1>1. /\ svcPc = "idle" /\ svcPc' = "recvBuf"
      /\ rcvd < finished + window /\ rcvd' = rcvd + 1 /\ window' = window
      /\ packet_id' = packet_id /\ queue' = queue /\ finished' = finished
      /\ snmpPc' = snmpPc /\ curId' = curId /\ pbuf' = pbuf
      /\ recvPackets' = [recvPackets EXCEPT ![packet_id].addr = rcvd + 1]
  BY DEF SvcRecvAddr, SvcGoto, snmpVars
<1>2. rcvd \in Nat /\ finished \in Nat /\ window \in Nat /\ packet_id \in Slots
  BY ConstantsAssumption DEF TypeOK
<1>3. /\ Notified = rcvd /\ Notified' = rcvd
      /\ Taken' = Taken
      /\ \A d \in Int : SlotOf(d)' = SlotOf(d)
  BY <1>1, <1>2 DEF Notified, SvcFilling, SvcAtNewest, Taken, Busy, SlotOf, Back
<1>4. Taken \in Nat
  BY <1>2 DEF Taken
<1>5. CountsInv'
  BY <1>1, <1>2, <1>3 DEF CountsInv
<1>6. QueueInv' /\ CurIdInv'
  BY <1>1, <1>2, <1>3, <1>4 DEF QueueInv, CurIdInv, TypeOK
<1>7. ASSUME NEW d \in finished + 1 .. rcvd
      PROVE  recvPackets'[SlotOf(d)] = recvPackets[SlotOf(d)]
  <2>1. SlotOf(d) # packet_id
    BY <1>1, WrittenSlot DEF SvcAtNewest, SvcFilling
  <2>2. SlotOf(d) \in Slots
    <3>1. d \in finished .. rcvd /\ finished \in finished .. rcvd /\ d # finished
      BY <1>2
    <3>2. QED
      BY <3>1, SlotOfDistinct
  <2>3. QED
    BY <1>1, <2>1, <2>2 DEF TypeOK
<1>8. StoredInv'
  BY <1>1, <1>2, <1>3, <1>7 DEF StoredInv
<1>9. FillingInv'
  <2>1. recvPackets[packet_id] \in SRecvPacket
    BY <1>2 DEF TypeOK
  <2>2. recvPackets'[packet_id].addr = rcvd + 1
    BY <1>1, <1>2, <2>1 DEF TypeOK, SRecvPacket
  <2>3. QED
    BY <1>1, <2>2 DEF FillingInv, SvcFilling
<1>10. PbufInv'
  BY <1>1 DEF PbufInv
<1>11. QED
  BY <1>5, <1>6, <1>8, <1>9, <1>10

\* Filling the slot of the newest datagram leaves the others in flight alone.
LEMMA FillStep ==
  ASSUME Roomy, IInv, TypeOK', svcPc \in SvcFilling, svcPc' \in SvcFilling,
         UNCHANGED <<packet_id, queue, snmpVars, peerVars>>,
         \A s \in Slots \ {packet_id} : recvPackets'[s] = recvPackets[s],
         FillingInv'
  PROVE  IInv'
<1> USE DEF IInv
<1>1. rcvd \in Nat /\ finished \in Nat
  BY DEF TypeOK
<1>2. /\ Notified = rcvd - 1 /\ Notified' = rcvd - 1
      /\ Taken' = Taken
      /\ \A d : SlotOf(d)' = SlotOf(d)
  BY DEF Notified, SvcAtNewest, Taken, Busy, SlotOf, Back, snmpVars
<1>3. CountsInv' /\ QueueInv' /\ CurIdInv' /\ PbufInv'
  BY <1>2 DEF CountsInv, QueueInv, CurIdInv, PbufInv, SvcAtNewest, snmpVars
<1>4. StoredInv'
  <2>1. ASSUME NEW d \in finished + 1 .. rcvd - 1
        PROVE  recvPackets'[SlotOf(d)] = recvPackets[SlotOf(d)]
    <3>1. packet_id = SlotOf(rcvd)
      BY WrittenSlot DEF SvcAtNewest
    <3>2. d \in finished .. rcvd /\ rcvd \in finished .. rcvd /\ d # rcvd
      BY <1>1
    <3>3. SlotOf(d) \in Slots /\ SlotOf(d) # packet_id
      BY <3>1, <3>2, SlotOfDistinct
    <3>4. QED
      BY <3>3
  <2>2. QED
    BY <1>2, <2>1 DEF StoredInv, snmpVars
<1>5. QED
  BY <1>3, <1>4

\* The notification of the newest datagram finds room in the queue.
LEMMA NotifyRoom ==
  ASSUME Roomy, IInv, svcPc = "notify"
  PROVE  Len(queue) = rcvd - 1 - Taken /\ Len(queue) < QueueLen
<1>1. /\ rcvd \in Nat /\ finished \in Nat /\ window \in Nat /\ QueueLen \in Nat
      /\ Taken \in {finished, finished + 1} /\ Notified = rcvd - 1
  BY ConstantsAssumption DEF IInv, TypeOK, Taken, Notified, SvcFilling
<1>2. QED
  BY <1>1 DEF IInv, Roomy, CountsInv, QueueInv

\* Notifying appends the newest datagram's slot to the queue.
LEMMA NotifyStep ==
  ASSUME Roomy, IInv, TypeOK', SvcNotify
  PROVE  IInv'
<1> USE DEF IInv
<1>1. /\ svcPc = "notify" /\ svcPc' = "advance"
      /\ rcvd' = rcvd /\ window' = window /\ packet_id' = packet_id /\ recvPackets' = recvPackets
      /\ snmpPc' = snmpPc /\ curId' = curId /\ pbuf' = pbuf
  BY DEF SvcNotify, SvcGoto
<1>2. /\ rcvd \in Nat /\ finished \in Nat /\ window \in Nat /\ QueueLen \in Nat
      /\ Taken \in {finished, finished + 1} /\ queue \in Seq(Slots)
      /\ packet_id \in Slots
  BY ConstantsAssumption DEF TypeOK, Taken
<1>3. /\ Notified = rcvd - 1 /\ Notified' = rcvd
      /\ \A d : SlotOf(d)' = SlotOf(d)
  BY <1>1 DEF Notified, SvcFilling, SvcAtNewest, SlotOf, Back
<1>4. Len(queue) = rcvd - 1 - Taken /\ Len(queue) < QueueLen
  BY <1>1, NotifyRoom
<1>5. queue' = Append(queue, packet_id) /\ finished' = finished
  BY <1>2, <1>4 DEF SvcNotify
<1>6. Taken' = Taken
  BY <1>1, <1>5 DEF Taken, Busy
<1>7. /\ Len(queue') = Len(queue) + 1
      /\ \A i \in 1 .. Len(queue) : queue'[i] = queue[i]
      /\ queue'[Len(queue) + 1] = packet_id
  BY <1>2, <1>5
<1>8. packet_id = SlotOf(rcvd)
  BY <1>1, WrittenSlot DEF SvcAtNewest, SvcFilling
<1>9. CountsInv'
  BY <1>1, <1>2, <1>3, <1>5, <1>6 DEF CountsInv, SvcFilling, SvcAtNewest
<1>10. QueueInv'
  <2>1. ASSUME NEW i \in 1 .. Len(queue')
        PROVE  queue'[i] = SlotOf(Taken + i)
    <3>1. CASE i \in 1 .. Len(queue)
      BY <1>7, <3>1 DEF QueueInv
    <3>2. CASE i = Len(queue) + 1
      <4>1. Taken + i = rcvd
        BY <1>2, <1>4, <3>2
      <4>2. QED
        BY <1>7, <1>8, <3>2, <4>1
    <3>3. QED
      BY <1>2, <1>4, <1>7, <3>1, <3>2
  <2>2. \A i \in 1 .. Len(queue') : queue'[i] = SlotOf(Taken + i)'
    BY <1>3, <1>6, <2>1
  <2>3. Len(queue') = Notified' - Taken'
    BY <1>2, <1>3, <1>4, <1>6, <1>7
  <2>4. QED
    BY <2>2, <2>3 DEF QueueInv
<1>11. CurIdInv' /\ PbufInv'
  BY <1>1, <1>3, <1>5, <1>6 DEF CurIdInv, PbufInv
<1>12. StoredInv'
  <2>1. recvPackets[packet_id] \in SRecvPacket
    BY <1>2 DEF TypeOK
  <2>2. recvPackets[SlotOf(rcvd)] = FullSlot(rcvd)
    BY <1>1, <1>8, <2>1 DEF FillingInv, SvcFilling, FullSlot, SRecvPacket
  <2>3. QED
    BY <1>1, <1>2, <1>3, <1>5, <2>2 DEF StoredInv
<1>13. FillingInv'
  BY <1>1 DEF FillingInv, SvcFilling
<1>14. QED
  BY <1>9, <1>10, <1>11, <1>12, <1>13

\* ++packet_id renumbers the slots along with the service thread's position.
LEMMA AdvanceStep ==
  ASSUME Roomy, IInv, TypeOK', SvcAdvance
  PROVE  IInv'
<1> USE DEF IInv
<1>1. /\ svcPc = "advance" /\ svcPc' = "clearNext"
      /\ packet_id' = NextSlot(packet_id)
      /\ rcvd' = rcvd /\ window' = window /\ recvPackets' = recvPackets /\ queue' = queue
      /\ finished' = finished /\ snmpPc' = snmpPc /\ curId' = curId /\ pbuf' = pbuf
  BY DEF SvcAdvance, SvcGoto, snmpVars
<1>2. /\ rcvd \in Nat /\ finished \in Nat /\ window \in Nat /\ packet_id \in Slots
      /\ Taken \in {finished, finished + 1}
  BY ConstantsAssumption DEF TypeOK, Taken
<1>3. Notified = rcvd /\ Notified' = rcvd /\ Taken' = Taken
  BY <1>1 DEF Notified, SvcFilling, Taken, Busy
<1>4. ASSUME NEW d \in finished .. rcvd
      PROVE  SlotOf(d)' = SlotOf(d)
  <2>1. rcvd - d \in 0 .. NSlots - 1
    BY <1>2, ConstantsAssumption DEF Roomy, CountsInv
  <2>2. SlotOf(d) = Back(packet_id, rcvd - d)
    BY <1>1 DEF SlotOf, SvcAtNewest
  <2>3. SlotOf(d)' = Back(NextSlot(packet_id), (rcvd - d) + 1)
    BY <1>1, <1>2, ConstantsAssumption DEF SlotOf, SvcAtNewest, SvcFilling, Back
  <2>4. QED
    BY <1>2, <2>1, <2>2, <2>3, BackNextSlot
<1>5. CountsInv'
  BY <1>1, <1>2, <1>3 DEF CountsInv, SvcAtNewest, SvcFilling
<1>6. QueueInv'
  <2>1. ASSUME NEW i \in 1 .. Len(queue)
        PROVE  Taken + i \in finished .. rcvd
    BY <1>2, <1>3, <2>1 DEF QueueInv
  <2>2. QED
    BY <1>1, <1>3, <1>4, <2>1 DEF QueueInv
<1>7. CurIdInv'
  BY <1>1, <1>2, <1>3, <1>4 DEF CurIdInv, CountsInv
<1>8. StoredInv'
  BY <1>1, <1>2, <1>3, <1>4 DEF StoredInv
<1>9. FillingInv' /\ PbufInv'
  BY <1>1 DEF FillingInv, PbufInv, SvcFilling
<1>10. QED
  BY <1>5, <1>6, <1>7, <1>8, <1>9

\* Writes of the service thread to the slot it will receive into: no datagram
\* in flight is there.
LEMMA FreeSlotStep ==
  ASSUME Roomy, IInv, TypeOK', svcPc \notin SvcAtNewest, svcPc' = "idle",
         UNCHANGED <<packet_id, queue, snmpVars, peerVars>>,
         \A s \in Slots \ {packet_id} : recvPackets'[s] = recvPackets[s]
  PROVE  IInv'
<1> USE DEF IInv
<1>1. rcvd \in Nat /\ finished \in Nat
  BY DEF TypeOK
<1>2. /\ Notified = rcvd /\ Notified' = rcvd
      /\ Taken' = Taken
      /\ \A d : SlotOf(d)' = SlotOf(d)
  BY DEF Notified, SvcFilling, SvcAtNewest, Taken, Busy, SlotOf, Back, snmpVars
<1>3. CountsInv' /\ QueueInv' /\ CurIdInv' /\ PbufInv' /\ FillingInv'
  BY <1>2 DEF CountsInv, QueueInv, CurIdInv, PbufInv, FillingInv, SvcFilling,
              SvcAtNewest, snmpVars
<1>4. StoredInv'
  <2>1. ASSUME NEW d \in finished + 1 .. rcvd
        PROVE  recvPackets'[SlotOf(d)] = recvPackets[SlotOf(d)]
    <3>1. d \in finished .. rcvd /\ finished \in finished .. rcvd /\ d # finished
      BY <1>1
    <3>2. SlotOf(d) \in Slots /\ SlotOf(d) # packet_id
      BY <3>1, SlotOfDistinct, WrittenSlot
    <3>3. QED
      BY <3>2
  <2>2. QED
    BY <1>2, <2>1 DEF StoredInv, snmpVars
<1>5. QED
  BY <1>3, <1>4

\* Every step preserves the inductive invariant.
LEMMA IInvStep ==
  ASSUME Roomy, IInv, [Next]_vars
  PROVE  IInv'
<1>0. TypeOK /\ TypeOK'
  BY TypeOKStep DEF IInv
<1>1. CASE SvcRecvAddr
  BY <1>0, <1>1, RecvAddrStep
<1>2. CASE SvcRecvBuf
  <2>1. FillingInv'
    BY <1>0, <1>2
    DEF SvcRecvBuf, SvcGoto, IInv, FillingInv, SvcFilling, TypeOK, SRecvPacket
  <2>2. QED
    BY <1>0, <1>2, <2>1, FillStep DEF SvcRecvBuf, SvcGoto, SvcFilling, TypeOK
<1>3. CASE SvcRecvEmpty
  BY <1>0, <1>3, FreeSlotStep
  DEF SvcRecvEmpty, svcVars, SvcFilling, SvcAtNewest, TypeOK
<1>4. CASE SvcSetLen
  <2>1. FillingInv'
    BY <1>0, <1>4
    DEF SvcSetLen, SvcGoto, IInv, FillingInv, SvcFilling, TypeOK, SRecvPacket
  <2>2. QED
    BY <1>0, <1>4, <2>1, FillStep DEF SvcSetLen, SvcGoto, SvcFilling, TypeOK
<1>5. CASE SvcSetFd
  <2>1. FillingInv'
    BY <1>0, <1>5
    DEF SvcSetFd, SvcGoto, IInv, FillingInv, SvcFilling, TypeOK, SRecvPacket
  <2>2. QED
    BY <1>0, <1>5, <2>1, FillStep DEF SvcSetFd, SvcGoto, SvcFilling, TypeOK
<1>6. CASE SvcNotify
  BY <1>0, <1>6, NotifyStep
<1>7. CASE SvcAdvance
  BY <1>0, <1>7, AdvanceStep
<1>8. CASE SvcClearNext
  BY <1>0, <1>8, FreeSlotStep
  DEF SvcClearNext, SvcGoto, SvcFilling, SvcAtNewest, TypeOK
<1>9. CASE SnmpDequeue
  BY <1>0, <1>9, DequeueStep
<1>10. CASE SnmpReadLen
  <2>1. Busy /\ recvPackets[curId].len > 0
    BY <1>0, <1>10, CurrentPacket
    DEF SnmpReadLen, Busy, SnmpReads, FullSlot, TypeOK
  <2>2. snmpPc' = "alloc" /\ finished' = finished
    BY <1>0, <1>10, <2>1 DEF SnmpReadLen
  <2>3. Busy' /\ PbufInv'
    BY <2>2 DEF Busy, SnmpReads, PbufInv
  <2>4. QED
    BY <1>0, <1>10, <2>1, <2>2, <2>3, WorkStep DEF SnmpReadLen, Snmp
<1>11. CASE SnmpAlloc
  <2>1. Busy /\ recvPackets[curId] = FullSlot(finished + 1)
    BY <1>11, CurrentPacket DEF SnmpAlloc, Busy, SnmpReads
  <2>2. CASE snmpPc' = "copy"
    <3>1. /\ pbuf' = [NoPbuf EXCEPT !.size = recvPackets[curId].len]
          /\ finished' = finished
      BY <1>11, <2>2 DEF SnmpAlloc
    <3>2. Busy' /\ PbufInv'
      BY <2>1, <2>2, <3>1 DEF Busy, SnmpReads, PbufInv, FullSlot
    <3>3. QED
      BY <1>0, <1>11, <2>1, <3>1, <3>2, WorkStep DEF SnmpAlloc, Snmp
  <2>3. CASE snmpPc' # "copy"
    BY <1>0, <1>11, <2>1, <2>3, FinishStep DEF SnmpAlloc, Snmp
  <2>4. QED
    BY <2>2, <2>3
<1>12. CASE SnmpCopy
  <2>1. Busy /\ recvPackets[curId] = FullSlot(finished + 1)
    BY <1>12, CurrentPacket DEF SnmpCopy, SnmpGoto, Busy, SnmpReads
  <2>2. pbuf' = [pbuf EXCEPT !.data = finished + 1, !.copied = finished + 1]
    BY <1>12, <2>1 DEF SnmpCopy, FullSlot
  <2>3. pbuf = [NoPbuf EXCEPT !.size = finished + 1] /\ finished' = finished
    BY <1>12 DEF SnmpCopy, SnmpGoto, IInv, PbufInv
  <2>4. Busy' /\ PbufInv'
    BY <1>12, <2>2, <2>3 DEF SnmpCopy, SnmpGoto, Busy, SnmpReads, PbufInv
  <2>5. QED
    BY <1>0, <1>12, <2>1, <2>4, WorkStep DEF SnmpCopy, Snmp
<1>13. CASE SnmpSetLen
  <2>1. Busy /\ recvPackets[curId] = FullSlot(finished + 1)
    BY <1>13, CurrentPacket DEF SnmpSetLen, SnmpGoto, Busy, SnmpReads
  <2>2. Busy' /\ PbufInv'
    BY <1>13, <2>1
    DEF SnmpSetLen, SnmpGoto, Busy, SnmpReads, PbufInv, FullSlot, IInv, NoPbuf
  <2>3. QED
    BY <1>0, <1>13, <2>1, <2>2, WorkStep DEF SnmpSetLen, Snmp
<1>14. CASE SnmpReadSender
  <2>1. Busy /\ recvPackets[curId] = FullSlot(finished + 1)
    BY <1>14, CurrentPacket DEF SnmpReadSender, SnmpGoto, Busy, SnmpReads
  <2>2. pbuf' = Whole(finished + 1)
    <3>1. pbuf = [size |-> finished + 1, data |-> finished + 1,
                  copied |-> finished + 1, len |-> finished + 1,
                  addr |-> 0, fd |-> 0]
      BY <1>14 DEF SnmpReadSender, SnmpGoto, IInv, PbufInv, NoPbuf
    <3>2. pbuf' = [pbuf EXCEPT !.addr = finished + 1, !.fd = finished + 1]
      BY <1>14, <2>1 DEF SnmpReadSender, FullSlot
    <3>3. QED
      BY <3>1, <3>2 DEF Whole
  <2>3. Busy' /\ PbufInv'
    BY <1>14, <2>2
    DEF SnmpReadSender, SnmpGoto, Busy, SnmpReads, PbufInv
  <2>4. QED
    BY <1>0, <1>14, <2>1, <2>3, WorkStep DEF SnmpReadSender, Snmp
<1>15. CASE SnmpReceive
  BY <1>0, <1>15, FinishStep DEF SnmpReceive, SnmpGoto, Snmp, Busy, SnmpReads
<1>16. CASE SnmpClear
  BY <1>0, <1>16, ClearStep
<1>17. CASE UNCHANGED vars
  BY <1>17
  DEF vars, svcVars, snmpVars, IInv, TypeOK, CountsInv, QueueInv, CurIdInv,
      StoredInv, FillingInv, PbufInv, Notified, Taken, Busy, SlotOf, Back
<1>18. QED
  BY <1>1, <1>2, <1>3, <1>4, <1>5, <1>6, <1>7, <1>8, <1>9, <1>10, <1>11,
     <1>12, <1>13, <1>14, <1>15, <1>16, <1>17
  DEF Next, Svc, SvcHandle, Snmp

\* No step changes the load.
LEMMA RoomStays ==
  ASSUME [Next]_vars
  PROVE  window' = window /\ Roomy' = Roomy
<1>1. window' = window
  BY DEF Next, Svc, SvcHandle, Snmp, SvcRecvAddr, SvcRecvBuf, SvcRecvEmpty, SvcSetLen, SvcSetFd,
         SvcNotify, SvcAdvance, SvcClearNext, SnmpDequeue, SnmpReadLen, SnmpAlloc, SnmpCopy,
         SnmpSetLen, SnmpReadSender, SnmpReceive, SnmpClear, vars
<1>2. QED
  BY <1>1 DEF Roomy

\* The inductive invariant holds of every behaviour in which there are more
\* slots than datagrams in flight.
THEOREM InductiveInvariant == Spec => [](Roomy => IInv)
<1>1. Init => IInv
  BY ConstantsAssumption
  DEF Init, IInv, TypeOK, CountsInv, QueueInv, CurIdInv, StoredInv, FillingInv,
      PbufInv, Notified, Taken, Busy, SnmpReads, SvcFilling, SvcAtNewest, Slots,
      SRecvPacket, EmptySlot, SvcPc, SnmpPc, Pbuf, NoPbuf
<1>2. (Roomy => IInv) /\ [Next]_vars => (Roomy => IInv)'
  BY IInvStep, RoomStays
<1>3. QED
  BY <1>1, <1>2, PTL DEF Spec

-----------------------------------------------------------------------------
(* What the users of the hand-over rely on.                                *)

\* With more slots than datagrams in flight -- the code's two slots and peers
\* that wait for their answers -- every request given to snmp_receive() is
\* exactly the oldest unfinished datagram.
THEOREM RequestsIntact == Spec => []RequestIntact
<1>1. (Roomy => IInv) => RequestIntact
  BY DEF IInv, PbufInv, RequestIntact
<1>2. QED
  BY <1>1, InductiveInvariant, PTL

\* Under the same condition no notification ever finds its datagram erased or
\* overwritten.
THEOREM NotifiedPacketsPresent == Spec => []NotifiedPacketPresent
<1>1. (Roomy => IInv) => NotifiedPacketPresent
  BY CurrentPacket DEF NotifiedPacketPresent, Busy, SnmpReads
<1>2. QED
  BY <1>1, InductiveInvariant, PTL

\* Under the same condition the service thread is never about to write a slot the SNMP
\* thread is about to read, nor receiving into one the SNMP thread is about to clear,
\* although no lock protects recvPackets; only their two clearings may meet.
THEOREM NoDataRaces == Spec => []RoomyRunsDoNotRace
<1>1. Roomy /\ IInv => NoDataRace
  <2>1. ASSUME Roomy, IInv, snmpPc \in SnmpReads, svcPc \in SvcWrites
        PROVE  packet_id # curId
    <3>1. /\ finished \in Nat /\ rcvd \in Nat
          /\ curId = SlotOf(finished + 1) /\ finished + 1 <= Notified
      BY <2>1, CurrentPacket DEF Busy, IInv, TypeOK
    <3>2. CASE svcPc \in SvcAtNewest
      <4>1. svcPc \in SvcFilling /\ packet_id = SlotOf(rcvd)
        BY <2>1, <3>2, WrittenSlot DEF SvcWrites, SvcAtNewest, SvcFilling, IInv
      <4>2. /\ finished + 1 \in finished .. rcvd /\ rcvd \in finished .. rcvd
            /\ finished + 1 # rcvd
        BY <3>1, <4>1 DEF Notified
      <4>3. QED
        BY <2>1, <3>1, <4>1, <4>2, SlotOfDistinct DEF IInv
    <3>3. CASE svcPc \notin SvcAtNewest
      <4>1. finished + 1 \in finished + 1 .. rcvd
        BY <3>1, <3>3 DEF Notified, SvcAtNewest
      <4>2. QED
        BY <2>1, <3>1, <3>3, <4>1, WrittenSlot DEF IInv
    <3>4. QED
      BY <3>2, <3>3
  <2>2. ASSUME Roomy, IInv, snmpPc = "clear", svcPc \in SvcFilling
        PROVE  packet_id # curId
    BY <2>2, ClearedSlot
  <2>3. QED
    BY <2>1, <2>2 DEF NoDataRace
<1>2. (Roomy => IInv) => RoomyRunsDoNotRace
  BY <1>1 DEF RoomyRunsDoNotRace
<1>3. QED
  BY <1>2, InductiveInvariant, PTL

\* Every step keeps it so that the SNMP thread clears only what it has handled.
LEMMA ClearsOnlyItsOwnStep ==
  ASSUME Roomy, IInv, ClearsOnlyItsOwn, [Next]_vars
  PROVE  ClearsOnlyItsOwn'
<1> SUFFICES ASSUME snmpPc' = "clear"
             PROVE  recvPackets'[curId'].len \in {0, finished'}
  BY DEF ClearsOnlyItsOwn
<1>1. /\ finished \in Nat /\ curId \in Slots /\ packet_id \in Slots
      /\ recvPackets \in [Slots -> SRecvPacket]
  BY DEF IInv, TypeOK
<1>2. CASE SnmpReceive \/ SnmpAlloc
  <2>1. recvPackets[curId] = FullSlot(finished + 1)
    BY <1>2, CurrentPacket DEF SnmpReceive, SnmpAlloc, SnmpGoto, Busy, SnmpReads
  <2>2. recvPackets' = recvPackets /\ curId' = curId /\ finished' = finished + 1
    BY <1>2 DEF SnmpReceive, SnmpAlloc
  <2>3. QED
    BY <2>1, <2>2 DEF FullSlot
<1>3. CASE SvcSetLen
  <2>1. snmpPc = "clear" /\ curId' = curId /\ finished' = finished
    BY <1>3 DEF SvcSetLen, snmpVars
  <2>2. curId # packet_id
    BY <1>3, <2>1, ClearedSlot DEF SvcSetLen, SvcGoto, SvcFilling
  <2>3. recvPackets'[curId] = recvPackets[curId]
    BY <1>1, <1>3, <2>2 DEF SvcSetLen
  <2>4. QED
    BY <2>1, <2>3 DEF ClearsOnlyItsOwn
<1>4. CASE SvcNotify
  <2>1. finished' = finished
    BY <1>4, NotifyRoom, ConstantsAssumption DEF SvcNotify, SvcGoto, IInv, TypeOK
  <2>2. QED
    BY <1>4, <2>1 DEF SvcNotify, ClearsOnlyItsOwn
<1>5. CASE SvcRecvAddr \/ SvcRecvEmpty \/ SvcRecvBuf \/ SvcSetFd \/ SvcClearNext
  <2>1. snmpPc = "clear" /\ curId' = curId /\ finished' = finished
    BY <1>5 DEF SvcRecvAddr, SvcRecvEmpty, SvcRecvBuf, SvcSetFd, SvcClearNext, snmpVars
  <2>2. recvPackets'[curId].len \in {0, recvPackets[curId].len}
    BY <1>1, <1>5
    DEF SvcRecvAddr, SvcRecvEmpty, SvcRecvBuf, SvcSetFd, SvcClearNext, SRecvPacket
  <2>3. QED
    BY <2>1, <2>2 DEF ClearsOnlyItsOwn
<1>6. CASE UNCHANGED <<snmpPc, recvPackets, curId, finished>>
  BY <1>6 DEF ClearsOnlyItsOwn
<1>7. CASE SnmpDequeue \/ SnmpReadLen \/ SnmpCopy \/ SnmpSetLen \/ SnmpReadSender \/ SnmpClear
  BY <1>7
  DEF SnmpDequeue, SnmpReadLen, SnmpCopy, SnmpSetLen, SnmpReadSender, SnmpClear, SnmpGoto
<1>8. QED
  BY <1>2, <1>3, <1>4, <1>5, <1>6, <1>7
  DEF Next, Svc, SvcHandle, Snmp, SvcAdvance, vars, snmpVars

\* Under the same condition the clearing that follows the answer of a request erases no
\* datagram but the one that was answered, although the peer may have sent the next one.
THEOREM ClearsAreItsOwn == Spec => []ClearsOnlyItsOwn
<1>1. Init => ClearsOnlyItsOwn
  BY DEF Init, ClearsOnlyItsOwn
<1>2. (Roomy => IInv) /\ ClearsOnlyItsOwn /\ [Next]_vars => ClearsOnlyItsOwn'
  <2>1. ASSUME ~Roomy, [Next]_vars
        PROVE  ClearsOnlyItsOwn'
    BY <2>1, RoomStays DEF ClearsOnlyItsOwn
  <2>2. QED
    BY <2>1, ClearsOnlyItsOwnStep
<1>3. QED
  BY <1>1, <1>2, InductiveInvariant, PTL DEF Spec

\* With room every step is a step of ReliableHandoff or leaves its variables alone.
LEMMA RefinementStep ==
  ASSUME Roomy, IInv, [Next]_vars
  PROVE  [Abstract!Next]_Abstract!avars
<1> USE DEF Abstract!Next, Abstract!avars, IfRoomy
<1>a. window' = window /\ Roomy' = Roomy /\ Roomy
  BY RoomStays
<1> USE <1>a
<1>0. finished \in Nat /\ rcvd \in Nat
  BY DEF IInv, TypeOK
<1>1. CASE SvcRecvAddr
  BY <1>1 DEF SvcRecvAddr, snmpVars, Abstract!Accept
<1>2. CASE SvcNotify
  <2>1. Len(queue) < QueueLen /\ Len(queue) \in Nat /\ QueueLen \in Nat
    BY <1>2, NotifyRoom, ConstantsAssumption DEF SvcNotify, SvcGoto, IInv, TypeOK
  <2>2. QED
    BY <1>2, <2>1 DEF SvcNotify
<1>3. CASE SnmpReadLen
  <2>1. recvPackets[curId].len > 0
    BY <1>0, <1>3, CurrentPacket DEF SnmpReadLen, Busy, SnmpReads, FullSlot
  <2>2. QED
    BY <1>0, <1>3, <2>1 DEF SnmpReadLen
<1>4. CASE SnmpAlloc
  <2>1. finished < rcvd
    BY <1>0, <1>4, CurrentPacket DEF SnmpAlloc, Busy, SnmpReads, Notified
  <2>2. QED
    BY <1>4, <2>1 DEF SnmpAlloc, Abstract!Drop
<1>5. CASE SnmpReceive
  <2>1. finished < rcvd
    BY <1>0, <1>5, CurrentPacket DEF SnmpReceive, SnmpGoto, Busy, Notified
  <2>2. request' = Whole(finished + 1)
    BY <1>5 DEF SnmpReceive, SnmpGoto, IInv, PbufInv
  <2>3. QED
    BY <1>5, <2>1, <2>2 DEF SnmpReceive, Abstract!Deliver
<1>6. CASE UNCHANGED <<rcvd, finished, nomem, request>>
  BY <1>6
<1>7. QED
  BY <1>1, <1>2, <1>3, <1>4, <1>5, <1>6
  DEF Next, Svc, SvcHandle, Snmp, SvcRecvBuf, SvcRecvEmpty, SvcSetLen,
      SvcSetFd, SvcAdvance, SvcClearNext, SnmpDequeue, SnmpCopy, SnmpSetLen,
      SnmpReadSender, SnmpClear, vars, snmpVars

\* Under the same condition the hand-over implements the reliable one: every
\* step is a step of ReliableHandoff or leaves its variables alone.
THEOREM Refinement == Spec => ImplementsReliableHandoff
<1>1. Init => Abstract!Init
  BY DEF Init, Abstract!Init, IfRoomy
<1>2. (Roomy => IInv) /\ [Next]_vars => [Abstract!Next]_Abstract!avars
  <2>1. ASSUME ~Roomy, [Next]_vars
        PROVE  UNCHANGED Abstract!avars
    BY <2>1, RoomStays DEF Abstract!avars, IfRoomy
  <2>2. QED
    BY <2>1, RefinementStep
<1>3. QED
  BY <1>1, <1>2, InductiveInvariant, PTL DEF Spec, ImplementsReliableHandoff, Abstract!Spec
=============================================================================
