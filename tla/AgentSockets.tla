--------------------------- MODULE AgentSockets ---------------------------
(***************************************************************************)
(* The sockets of the agent: snmp_zephyr_init() and snmp_sendto() of       *)
(* src/snmp_zephyr.c, on a system where other programs open and close      *)
(* sockets too.                                                            *)
(***************************************************************************)
EXTENDS Integers, FiniteSets, Functions, TLC

CONSTANT MaxFd  \* bound: the file descriptors of sockets are 1 .. MaxFd

VARIABLES
  has_created,       \* the static of snmp_zephyr_init()
  has_sockets,
  socket_set,        \* the descriptors of the server's and the traps' socket
  snmp_traps_handle, \* a descriptor kept as a pointer
  sockets            \* the open sockets: their descriptor and owner

socketVars == <<has_created, has_sockets, socket_set, snmp_traps_handle, sockets>>

Fds == 1 .. MaxFd
Unused == Fds \ DOMAIN sockets

\* A static variable is 0 before the initialisation, and 0 is no socket.
SocketsInit ==
  /\ has_created = FALSE /\ has_sockets = FALSE
  /\ socket_set = [server |-> 0, traps |-> 0]
  /\ snmp_traps_handle = 0
  /\ sockets = <<>>

\* create_socket(): a descriptor the system has left, or -1; a socket is kept when an
\* option cannot be set or bind() fails.
CreateSocket == Unused \cup {-1}

\* The sockets snmp_zephyr_init() keeps of the two create_socket() has returned;
\* -1 is a failure.
\* (Mutated: one socket is enough to close none.)
KeptUnlessNone(server, traps) ==
  IF server >= 0 \/ traps >= 0 THEN [server |-> server, traps |-> traps]
  ELSE [server |-> -1, traps |-> -1]

Kept(server, traps) ==
  IF server >= 0 /\ traps >= 0 THEN [server |-> server, traps |-> traps]
  ELSE [server |-> -1, traps |-> -1]

\* The open sockets when these are opened too.
Opened(fds, owner) ==
  [fd \in fds \cup DOMAIN sockets |-> IF fd \in fds THEN owner ELSE sockets[fd]]

\* snmp_zephyr_init(): the second call does nothing.  Whether bind() and the
\* registration of the service succeed makes no difference to the state.
ZephyrInit ==
  /\ ~has_created
  /\ has_created' = TRUE
  /\ \E server, traps \in CreateSocket :
       /\ server # traps \/ server = -1
       /\ snmp_traps_handle' = traps
       /\ has_sockets' = (server >= 0 /\ traps >= 0)
       /\ socket_set' = Kept(server, traps)
       /\ sockets' = Opened({socket_set'.server, socket_set'.traps} \ {-1}, "agent")

\* Another program opens or closes its socket.
OtherOpens ==
  /\ "other" \notin Range(sockets)
  /\ \E fd \in Unused : sockets' = Opened({fd}, "other")
  /\ UNCHANGED <<has_created, has_sockets, socket_set, snmp_traps_handle>>

OtherCloses ==
  /\ "other" \in Range(sockets)
  /\ sockets' = Restrict(sockets, {fd \in DOMAIN sockets : sockets[fd] # "other"})
  /\ UNCHANGED <<has_created, has_sockets, socket_set, snmp_traps_handle>>

\* The return type of snmp_sendto() is err_t, an s8_t.
Err(n) == ((n + 128) % 256) - 128

\* snmp_sendto(): the number of bytes, or -1 when there is no such socket or the
\* system does not take the datagram.
SendTo(handle, len, accepted) ==
  Err(IF handle \in DOMAIN sockets /\ accepted THEN len ELSE -1)
=============================================================================
