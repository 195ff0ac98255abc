-------------------------- MODULE ReliableHandoff --------------------------
(***************************************************************************)
(* What the hand-over of datagrams promises its users: every datagram is   *)
(* given to snmp_receive() unchanged, once and in the order of reception,  *)
(* unless there is no memory for the pbuf that is to hold it.              *)
(***************************************************************************)
EXTENDS Naturals

CONSTANTS
  Windows,       \* the loads
  Request(_),    \* the request made of datagram d
  NoRequest

VARIABLES
  window,        \* how many datagrams may be accepted and not finished
  accepted, finished, nomem, request

avars == <<window, accepted, finished, nomem, request>>

Init ==
  /\ window \in Windows
  /\ accepted = 0
  /\ finished = 0
  /\ nomem = 0
  /\ request = NoRequest

Accept ==
  /\ accepted < finished + window
  /\ accepted' = accepted + 1
  /\ UNCHANGED <<window, finished, nomem, request>>

Deliver ==
  /\ finished < accepted
  /\ finished' = finished + 1
  /\ request' = Request(finished + 1)
  /\ UNCHANGED <<window, accepted, nomem>>

Drop ==
  /\ finished < accepted
  /\ finished' = finished + 1
  /\ nomem' = nomem + 1
  /\ UNCHANGED <<window, accepted, request>>

Next == Accept \/ Deliver \/ Drop

Spec == Init /\ [][Next]_avars
=============================================================================
