----------------------- MODULE AgentMessages_proofs ------------------------
(***************************************************************************)
(* Proofs about AgentMessages, for every number of descriptors and of      *)
(* destinations, whatever the messages are: the agent's two sockets, and   *)
(* which destinations a notification is sent to.                           *)
(***************************************************************************)
EXTENDS AgentMessages, WellFoundedInduction, TLAPS

\* The variables of the sockets have their types.
SocketsTyped ==
  /\ has_created \in BOOLEAN
  /\ has_sockets \in BOOLEAN
  /\ DOMAIN sockets \subseteq Fds
  /\ sockets = [fd \in DOMAIN sockets |-> sockets[fd]]

\* Before snmp_zephyr_init() no socket is the agent's, and the sockets it has kept
\* are open.
SocketsIInv ==
  /\ SocketsTyped
  /\ ~has_created => ~has_sockets /\ \A fd \in DOMAIN sockets : sockets[fd] # "agent"
  /\ has_sockets => {socket_set.server, socket_set.traps} \subseteq DOMAIN sockets
  /\ SocketsAllOrNone

-----------------------------------------------------------------------------
\* Nothing is open at first.
LEMMA SocketsInitially == SocketsInit => SocketsIInv
<1> SUFFICES ASSUME SocketsInit PROVE SocketsIInv
  OBVIOUS
<1>1. DOMAIN sockets = {} /\ sockets = [fd \in {} |-> sockets[fd]]
  BY DEF SocketsInit
<1>2. Range(sockets) = {}
  BY <1>1 DEF Range
<1> QED
  BY <1>1, <1>2 DEF SocketsInit, SocketsIInv, SocketsTyped, SocketsAllOrNone

\* A start keeps both sockets it has got or closes the one.
LEMMA ZephyrInitKeeps ==
  ASSUME SocketsIInv, ZephyrInit
  PROVE  SocketsIInv'
<1>1. PICK server \in CreateSocket, traps \in CreateSocket :
        /\ server # traps \/ server = -1
        /\ snmp_traps_handle' = traps
        /\ has_sockets' = (server >= 0 /\ traps >= 0)
        /\ socket_set' = Kept(server, traps)
        /\ sockets' = Opened({socket_set'.server, socket_set'.traps} \ {-1}, "agent")
  BY DEF ZephyrInit
<1>2. /\ server \in Int /\ traps \in Int
      /\ server >= 0 => server \in Fds \ DOMAIN sockets
      /\ traps >= 0 => traps \in Fds \ DOMAIN sockets
  BY DEF CreateSocket, Unused, Fds
<1>3. \A fd \in DOMAIN sockets : sockets[fd] # "agent"
  BY DEF ZephyrInit, SocketsIInv
<1>4. CASE server >= 0 /\ traps >= 0
  <2>1. socket_set' = [server |-> server, traps |-> traps]
    BY <1>1, <1>4 DEF Kept
  <2>2. {socket_set'.server, socket_set'.traps} \ {-1} = {server, traps}
    BY <1>2, <1>4, <2>1
  <2>3. sockets' = [fd \in {server, traps} \cup DOMAIN sockets |->
                      IF fd \in {server, traps} THEN "agent" ELSE sockets[fd]]
    BY <1>1, <2>2 DEF Opened
  <2>4. /\ DOMAIN sockets' = {server, traps} \cup DOMAIN sockets
        /\ sockets'[server] = "agent" /\ sockets'[traps] = "agent"
        /\ sockets' = [fd \in DOMAIN sockets' |-> sockets'[fd]]
    BY <2>3
  <2>5. SocketsTyped'
    <3>1. has_created' \in BOOLEAN /\ has_sockets' \in BOOLEAN
      BY <1>1 DEF ZephyrInit
    <3>2. DOMAIN sockets' \subseteq Fds
      BY <1>2, <1>4, <2>4 DEF SocketsIInv, SocketsTyped
    <3> QED
      BY <2>4, <3>1, <3>2 DEF SocketsTyped
  <2>6. /\ has_created' /\ has_sockets'
        /\ socket_set'.server = server /\ socket_set'.traps = traps
        /\ snmp_traps_handle' = traps
    <3>1. has_created' = TRUE
      BY DEF ZephyrInit
    <3>2. has_sockets' = TRUE
      BY <1>1, <1>4
    <3> QED
      BY <1>1, <2>1, <3>1, <3>2
  <2> QED
    BY <2>4, <2>5, <2>6 DEF SocketsIInv, SocketsAllOrNone
<1>5. CASE ~(server >= 0 /\ traps >= 0)
  <2>1. {socket_set'.server, socket_set'.traps} \ {-1} = {}
    BY <1>1, <1>5 DEF Kept
  <2>2. sockets' = sockets
    BY <1>1, <2>1 DEF Opened, SocketsIInv, SocketsTyped
  <2> QED
    BY <1>1, <1>3, <1>5, <2>2
    DEF SocketsIInv, SocketsTyped, SocketsAllOrNone, ZephyrInit, Range
<1> QED
  BY <1>4, <1>5

\* Another program opens a descriptor nobody has.
LEMMA OtherOpensKeeps ==
  ASSUME SocketsIInv, OtherOpens
  PROVE  SocketsIInv'
<1>1. PICK new \in Unused : sockets' = Opened({new}, "other")
  BY DEF OtherOpens
<1>2. sockets' = [fd \in {new} \cup DOMAIN sockets |->
                    IF fd = new THEN "other" ELSE sockets[fd]]
  BY <1>1 DEF Opened
<1>3. new \in Fds /\ new \notin DOMAIN sockets
  BY DEF Unused
<1> QED
  BY <1>2, <1>3 DEF SocketsIInv, SocketsTyped, SocketsAllOrNone, OtherOpens, Range

\* Another program closes no socket but its own.
LEMMA OtherClosesKeeps ==
  ASSUME SocketsIInv, OtherCloses
  PROVE  SocketsIInv'
BY DEF OtherCloses, Restrict, SocketsIInv, SocketsTyped, SocketsAllOrNone, Range

\* Sockets are opened and closed at the start of the agent and by other programs,
\* never by sending or receiving a message.
LEMMA SocketsInductive ==
  SocketsIInv /\ [Next]_vars => SocketsIInv'
<1> SUFFICES ASSUME SocketsIInv, [Next]_vars
             PROVE  SocketsIInv'
  OBVIOUS
<1>1. CASE UNCHANGED socketVars
  BY <1>1 DEF socketVars, SocketsIInv, SocketsTyped, SocketsAllOrNone
<1>2. CASE SocketsChange
  BY <1>2, ZephyrInitKeeps, OtherOpensKeeps, OtherClosesKeeps DEF SocketsChange
<1> QED
  BY <1>1, <1>2 DEF Next, vars, SettingsChange, Notification, Request, ReceiveRequest

\* The agent has both its sockets or none, for every number of descriptors and whatever
\* other programs open and close (snmp_zephyr_init(), src/src/snmp_zephyr.c:297-313).
THEOREM SocketsAllOrNoneHolds == Spec => []SocketsAllOrNone
<1>1. Init => SocketsIInv
  BY SocketsInitially DEF Init
<1>2. SocketsIInv => SocketsAllOrNone
  BY DEF SocketsIInv
<1> QED
  BY <1>1, <1>2, SocketsInductive, PTL DEF Spec

-----------------------------------------------------------------------------
(* The destinations of a notification.                                     *)

\* What snmp_send_msg() may make of one destination.
Delivers(r, to, accepted) ==
  /\ r.err \in {"OK", "MEM", "ARG", "CONN"}
  /\ \E d : /\ d.by = sockets[snmp_traps_handle] /\ d.to = to
            /\ r.sent = <<>> \/ r.sent = <<d>>
            /\ r.err = "OK" => r.sent = <<d>>
  /\ r.err = "CONN" => Err(r.len) <= 0 \/ ~accepted \/ snmp_traps_handle \notin DOMAIN sockets

\* When the message has been encoded, or could not be.
LEMMA SendEncodedDelivers ==
  ASSUME NEW m, NEW W, NEW len, NEW accepted \in BOOLEAN
  PROVE  Delivers(SendEncoded(m, W, len, accepted), m.sip, accepted)
<1>1. PICK r : r = SendEncoded(m, W, len, accepted)
  OBVIOUS
<1>2. PICK d : d = Datagram(m, W)
  OBVIOUS
<1>3. d.by = sockets[snmp_traps_handle] /\ d.to = m.sip
  BY <1>2 DEF Datagram
<1>4. CASE W.err # "OK"
  <2>1. r.err = "ARG" /\ r.sent = <<>>
    BY <1>1, <1>4 DEF SendEncoded, Sending
  <2>2. QED
    BY <1>1, <1>3, <2>1 DEF Delivers
<1>5. CASE W.err = "OK"
  <2>1. /\ r.err = IF SendTo(snmp_traps_handle, len, accepted) <= 0 THEN "CONN" ELSE "OK"
        /\ r.sent = IF snmp_traps_handle \in DOMAIN sockets /\ accepted THEN <<d>> ELSE <<>>
        /\ r.len = len
    BY <1>1, <1>2, <1>5 DEF SendEncoded, Sending
  <2>2. CASE snmp_traps_handle \in DOMAIN sockets /\ accepted
    <3>1. SendTo(snmp_traps_handle, len, accepted) = Err(r.len)
      BY <2>1, <2>2 DEF SendTo
    <3>2. QED
      BY <1>1, <1>3, <2>1, <2>2, <3>1 DEF Delivers
  <2>3. CASE ~(snmp_traps_handle \in DOMAIN sockets /\ accepted)
    <3>1. SendTo(snmp_traps_handle, len, accepted) = Err(-1)
      BY <2>3 DEF SendTo
    <3>2. Err(-1) <= 0
      BY DEF Err
    <3>3. QED
      BY <1>1, <1>3, <2>1, <2>3, <3>1, <3>2 DEF Delivers
  <2>4. QED
    BY <2>2, <2>3
<1>6. QED
  BY <1>4, <1>5

\* Whatever the message is.
LEMMA SendMsgDelivers ==
  ASSUME NEW m, NEW list, NEW memory \in BOOLEAN, NEW accepted \in BOOLEAN
  PROVE  Delivers(SendMsg(m, list, memory, accepted), m.sip, accepted)
<1>1. PICK lens : SendMsg(m, list, memory, accepted) = SendSized(m, list, lens, memory, accepted)
  BY DEF SendMsg
<1>2. CASE memory
  <2>1. PICK W : SendSized(m, list, lens, memory, accepted) = SendEncoded(m, W, lens.total, accepted)
    BY <1>2 DEF SendSized
  <2>2. QED
    BY <1>1, <2>1, SendEncodedDelivers
<1>3. CASE ~memory
  <2>1. PICK r : r = SendSized(m, list, lens, memory, accepted)
    OBVIOUS
  <2>2. r.err = "MEM" /\ r.sent = <<>>
    BY <1>3, <2>1 DEF SendSized, Sending
  <2>3. PICK d : d = [by |-> sockets[snmp_traps_handle], to |-> m.sip]
    OBVIOUS
  <2>4. d.by = sockets[snmp_traps_handle] /\ d.to = m.sip
    BY <2>3
  <2>5. QED
    BY <1>1, <2>1, <2>2, <2>4 DEF Delivers
<1>4. QED
  BY <1>2, <1>3

\* Induction over the numbers up to m, for a set of numbers.
LEMMA CountingUp ==
  ASSUME NEW m \in Nat, NEW P, 0 \in P, \A n \in 0 .. m - 1 : n \in P => n + 1 \in P
  PROVE  \A n \in 0 .. m : n \in P
<1> DEFINE R == {ss \in Nat \X Nat : ss[1] < ss[2]}
           Others == {n \in 0 .. m : n \notin P}
<1>1. SUFFICES ASSUME Others # {}
               PROVE  FALSE
  OBVIOUS
<1>2. IsWellFoundedOn(R, Nat)
  BY NatLessThanWellFounded, Zenon DEF OpToRel
<1>3. Others \in SUBSET Nat
  OBVIOUS
<1>4. \E x \in Others : \A y \in Others : ~ (<<y, x>> \in R)
  <2> HIDE DEF Others
  <2>1. QED
    BY <1>1, <1>2, <1>3, WFMin
<1>5. \A x \in Nat, y \in Nat : <<y, x>> \in R <=> y < x
  OBVIOUS
<1>6. PICK x \in Others : \A y \in Others : ~ (y < x)
  BY <1>3, <1>4, <1>5
<1>7. x # 0 /\ x - 1 \in 0 .. m - 1 /\ x - 1 \notin Others
  BY <1>6
<1>8. QED
  BY <1>6, <1>7

\* The states of the loop over the destinations.
Turns(f, n, m, list, start, outcome) ==
  f = [i \in 0 .. n |-> IF i = 0 THEN start ELSE Turn(f[i - 1], i, m, list, outcome[i])]

\* The loop ends with the last of them.
LEMMA LoopIsTurns ==
  ASSUME NEW m, NEW list, NEW start, NEW outcome
  PROVE  \E f : Turns(f, Destinations, m, list, start, outcome)
                /\ Loop(m, list, start, outcome) = f[Destinations]
<1> DEFINE T(f, n) == Turns(f, n, m, list, start, outcome)
           P == {n \in Nat : \E f : T(f, n)}
<1>1. Destinations \in Nat /\ Destinations \in 0 .. Destinations
  BY TrapsAssumption DEF TrapsAssumption
<1>2. 0 \in P
  <2>1. T([i \in 0 .. 0 |-> start], 0)
    BY DEF Turns
  <2>2. QED
    BY <2>1
<1>3. ASSUME NEW n \in 0 .. Destinations - 1, n \in P
      PROVE  n + 1 \in P
  <2>1. PICK f : T(f, n)
    BY <1>3
  <2> DEFINE next == Turn(f[n], n + 1, m, list, outcome[n + 1])
             g == [i \in 0 .. n + 1 |-> IF i = n + 1 THEN next ELSE f[i]]
  <2>2. \A i \in 0 .. n : f[i] = IF i = 0 THEN start ELSE Turn(f[i - 1], i, m, list, outcome[i])
    BY <2>1 DEF Turns
  <2>3. \A i \in 0 .. n + 1 : g[i] = IF i = 0 THEN start ELSE Turn(g[i - 1], i, m, list, outcome[i])
    <3>1. ASSUME NEW i \in 0 .. n + 1
          PROVE  g[i] = IF i = 0 THEN start ELSE Turn(g[i - 1], i, m, list, outcome[i])
      <4>1. CASE i = n + 1
        <5>1. g[i] = next /\ g[i - 1] = f[n] /\ i # 0
          BY <4>1
        <5>2. QED
          BY <4>1, <5>1
      <4>2. CASE i # n + 1
        <5>1. i \in 0 .. n /\ g[i] = f[i] /\ (i # 0 => g[i - 1] = f[i - 1])
          BY <4>2
        <5>2. QED
          BY <2>2, <5>1
      <4>3. QED
        BY <4>1, <4>2
    <3>2. QED
      BY <3>1
  <2>4. g = [i \in 0 .. n + 1 |-> g[i]]
    OBVIOUS
  <2>5. \E h : T(h, n + 1)
    <3> HIDE DEF g
    <3>1. T(g, n + 1)
      BY <2>3, <2>4 DEF Turns
    <3>2. QED
      BY <3>1
  <2>6. QED
    BY <2>5
<1>4. Destinations \in P
  <2> HIDE DEF P
  <2>1. QED
    BY <1>1, <1>2, <1>3, CountingUp
<1>5. Loop(m, list, start, outcome) = (CHOOSE f : T(f, Destinations))[Destinations]
  BY DEF Loop, Turns
<1>6. T(CHOOSE f : T(f, Destinations), Destinations)
  BY <1>4
<1>7. QED
  BY <1>5, <1>6

\* The enabled destinations among the first ones.
Counted(u, n) ==
  u = [i \in 0 .. n |-> IF i = 0 THEN <<>>
                        ELSE IF Enabled(i) THEN Append(u[i - 1], i) ELSE u[i - 1]]

\* In the end they are all of the enabled ones.
LEMMA TargetsAreCounted ==
  \E u : Counted(u, Destinations) /\ Targets = u[Destinations]
<1> DEFINE P == {n \in Nat : \E u : Counted(u, n)}
<1>1. Destinations \in Nat /\ Destinations \in 0 .. Destinations
  BY TrapsAssumption DEF TrapsAssumption
<1>2. 0 \in P
  <2>1. Counted([i \in 0 .. 0 |-> <<>>], 0)
    BY DEF Counted
  <2>2. QED
    BY <2>1
<1>3. ASSUME NEW n \in 0 .. Destinations - 1, n \in P
      PROVE  n + 1 \in P
  <2>1. PICK u : Counted(u, n)
    BY <1>3
  <2> DEFINE next == IF Enabled(n + 1) THEN Append(u[n], n + 1) ELSE u[n]
             g == [i \in 0 .. n + 1 |-> IF i = n + 1 THEN next ELSE u[i]]
  <2>2. \A i \in 0 .. n : u[i] = IF i = 0 THEN <<>>
                                 ELSE IF Enabled(i) THEN Append(u[i - 1], i) ELSE u[i - 1]
    BY <2>1 DEF Counted
  <2>3. \A i \in 0 .. n + 1 : g[i] = IF i = 0 THEN <<>>
                                     ELSE IF Enabled(i) THEN Append(g[i - 1], i) ELSE g[i - 1]
    <3>1. ASSUME NEW i \in 0 .. n + 1
          PROVE  g[i] = IF i = 0 THEN <<>>
                        ELSE IF Enabled(i) THEN Append(g[i - 1], i) ELSE g[i - 1]
      <4>1. CASE i = n + 1
        <5>1. g[i] = next /\ g[i - 1] = u[n] /\ i # 0
          BY <4>1
        <5>2. QED
          BY <4>1, <5>1
      <4>2. CASE i # n + 1
        <5>1. i \in 0 .. n /\ g[i] = u[i] /\ (i # 0 => g[i - 1] = u[i - 1])
          BY <4>2
        <5>2. QED
          BY <2>2, <5>1
      <4>3. QED
        BY <4>1, <4>2
    <3>2. QED
      BY <3>1
  <2>4. g = [i \in 0 .. n + 1 |-> g[i]]
    OBVIOUS
  <2>5. \E h : Counted(h, n + 1)
    <3> HIDE DEF g
    <3>1. Counted(g, n + 1)
      BY <2>3, <2>4 DEF Counted
    <3>2. QED
      BY <3>1
  <2>6. QED
    BY <2>5
<1>4. Destinations \in P
  <2> HIDE DEF P
  <2>1. QED
    BY <1>1, <1>2, <1>3, CountingUp
<1>5. Targets = (CHOOSE u : Counted(u, Destinations))[Destinations]
  BY DEF Targets, Counted, Enabled
<1>6. Counted(CHOOSE u : Counted(u, Destinations), Destinations)
  BY <1>4
<1>7. QED
  BY <1>5, <1>6

\* After some turns, when u are the enabled destinations so far: the first of them have
\* got the notification, and all of them unless one failed.
ToldSoFar(st, u, start, outcome) ==
  /\ u \in Seq(Nat)
  /\ \E X : st.sent \in Seq(X)
  /\ Len(st.sent) <= Len(u)
  /\ \A k \in 1 .. Len(st.sent) : /\ st.sent[k].by = sockets[snmp_traps_handle]
                                  /\ st.sent[k].to = trap_dst[u[k]].dip
  /\ st.err = "OK" => Len(st.sent) = Len(u)
  /\ st.err = "CONN" => \/ Err(st.len) <= 0
                        \/ \E j \in 1 .. Destinations : outcome[j] = "refused"
                        \/ snmp_traps_handle \notin DOMAIN sockets
  /\ u = <<>> => st = start

\* The address in the copy of the message for a destination.
LEMMA MessageTo ==
  ASSUME NEW m, NEW to, "sip" \in DOMAIN m
  PROVE  [m EXCEPT !.sip = to].sip = to
OBVIOUS

\* Another turn keeps it so.
LEMMA TurnKeepsTold ==
  ASSUME NEW st, NEW u, NEW start, NEW m, NEW list, NEW i \in 1 .. Destinations,
         NEW outcome \in [1 .. Destinations -> {"ok", "memory", "refused"}],
         "sip" \in DOMAIN m,
         ToldSoFar(st, u, start, outcome)
  PROVE  ToldSoFar(Turn(st, i, m, list, outcome[i]),
                   IF Enabled(i) THEN Append(u, i) ELSE u, start, outcome)
<1>1. u \in Seq(Nat) /\ i \in Nat
  BY TrapsAssumption DEF ToldSoFar, TrapsAssumption
<1>2. PICK v \in Seq(Nat) : v = Append(u, i)
  <2>1. Append(u, i) \in Seq(Nat)
    BY <1>1
  <2>2. QED
    BY <2>1
<1>3. /\ Len(v) = Len(u) + 1 /\ v[Len(u) + 1] = i /\ \A k \in 1 .. Len(u) : v[k] = u[k]
      /\ Len(u) \in Nat /\ v # <<>>
  BY <1>1, <1>2
<1>4. PICK X : st.sent \in Seq(X)
  BY DEF ToldSoFar
<1>5. Len(st.sent) \in Nat /\ Len(st.sent) <= Len(u)
  BY <1>4 DEF ToldSoFar
<1>6. \A k \in 1 .. Len(st.sent) : /\ st.sent[k].by = sockets[snmp_traps_handle]
                                      /\ st.sent[k].to = trap_dst[v[k]].dip
  <2>1. \A k \in 1 .. Len(st.sent) : /\ st.sent[k].by = sockets[snmp_traps_handle]
                                     /\ st.sent[k].to = trap_dst[u[k]].dip
    BY DEF ToldSoFar
  <2>2. \A k \in 1 .. Len(st.sent) : v[k] = u[k]
    BY <1>3, <1>5
  <2>3. QED
    BY <2>1, <2>2
<1>7. CASE ~Enabled(i)
  BY <1>7 DEF Turn
<1>8. CASE Enabled(i) /\ st.err # "OK"
  <2>1. Turn(st, i, m, list, outcome[i]) = st
    BY <1>8 DEF Turn
  <2>2. Len(st.sent) <= Len(v)
    BY <1>3, <1>5
  <2>3. ToldSoFar(st, v, start, outcome)
    BY <1>3, <1>8, <1>6, <2>2 DEF ToldSoFar
  <2>4. QED
    BY <1>2, <1>8, <2>1, <2>3
<1>9. CASE Enabled(i) /\ st.err = "OK"
  <2>1. PICK to : to = trap_dst[i].dip
    OBVIOUS
  <2>2. PICK message : message = [m EXCEPT !.sip = to] /\ message.sip = to
    BY MessageTo
  <2>3. PICK memory \in BOOLEAN, accepted \in BOOLEAN :
          memory = (outcome[i] # "memory") /\ accepted = (outcome[i] # "refused")
    OBVIOUS
  <2>4. PICK r : r = SendMsg(message, list, memory, accepted)
    OBVIOUS
  <2>5. Delivers(r, to, accepted)
    BY <2>2, <2>4, SendMsgDelivers
  <2>6. Turn(st, i, m, list, outcome[i]) = AfterSend(st, r)
    BY <1>9, <2>1, <2>2, <2>3, <2>4 DEF Turn
  <2>7. PICK e : e = AfterSend(st, r)
    OBVIOUS
  <2>8. e.err = r.err /\ e.sent = st.sent \o r.sent /\ e.len = r.len
    BY <2>7 DEF AfterSend
  <2>9. PICK d : /\ d.by = sockets[snmp_traps_handle] /\ d.to = to
                 /\ r.sent = <<>> \/ r.sent = <<d>>
                 /\ r.err = "OK" => r.sent = <<d>>
    BY <2>5 DEF Delivers
  <2>10. Len(st.sent) = Len(u)
    BY <1>9 DEF ToldSoFar
  <2>11. e.err = "CONN" => \/ Err(e.len) <= 0
                           \/ \E j \in 1 .. Destinations : outcome[j] = "refused"
                           \/ snmp_traps_handle \notin DOMAIN sockets
    BY <2>3, <2>5, <2>8 DEF Delivers
  <2>12. CASE r.sent = <<>>
    <3>1. e.sent = st.sent
      BY <1>4, <2>8, <2>12
    <3>2. e.err # "OK"
      BY <2>8, <2>9, <2>12
    <3>3. Len(e.sent) <= Len(v)
      BY <1>3, <1>5, <3>1
    <3>4. ToldSoFar(e, v, start, outcome)
      BY <1>3, <1>4, <1>6, <2>11, <3>1, <3>2, <3>3 DEF ToldSoFar
    <3>5. QED
      BY <1>2, <1>9, <2>6, <2>7, <3>4
  <2>13. CASE r.sent = <<d>>
    <3>1. PICK Y : Y = X \cup {d}
      OBVIOUS
    <3>2. st.sent \in Seq(Y) /\ <<d>> \in Seq(Y)
      BY <1>4, <3>1
    <3>3. /\ e.sent \in Seq(Y) /\ Len(e.sent) = Len(u) + 1
          /\ e.sent[Len(u) + 1] = d
          /\ \A k \in 1 .. Len(u) : e.sent[k] = st.sent[k]
      <4>1. e.sent = st.sent \o <<d>>
        BY <2>8, <2>13
      <4>2. /\ st.sent \o <<d>> \in Seq(Y) /\ Len(st.sent \o <<d>>) = Len(st.sent) + 1
            /\ (st.sent \o <<d>>)[Len(st.sent) + 1] = d
            /\ \A k \in 1 .. Len(st.sent) : (st.sent \o <<d>>)[k] = st.sent[k]
        BY <3>2
      <4>3. QED
        BY <2>10, <4>1, <4>2
    <3>4. \A k \in 1 .. Len(e.sent) : /\ e.sent[k].by = sockets[snmp_traps_handle]
                                      /\ e.sent[k].to = trap_dst[v[k]].dip
      <4>1. ASSUME NEW k \in 1 .. Len(e.sent)
            PROVE  /\ e.sent[k].by = sockets[snmp_traps_handle]
                   /\ e.sent[k].to = trap_dst[v[k]].dip
        <5>1. CASE k = Len(u) + 1
          BY <1>3, <2>1, <2>9, <3>3, <5>1
        <5>2. CASE k # Len(u) + 1
          <6>1. k \in 1 .. Len(u)
            BY <1>3, <3>3, <5>2
          <6>2. QED
            BY <1>6, <2>10, <3>3, <6>1
        <5>3. QED
          BY <5>1, <5>2
      <4>2. QED
        BY <4>1
    <3>5. Len(e.sent) <= Len(v) /\ Len(e.sent) = Len(v)
      BY <1>3, <3>3
    <3>6. ToldSoFar(e, v, start, outcome)
      BY <1>3, <2>11, <3>3, <3>4, <3>5 DEF ToldSoFar
    <3>7. QED
      BY <1>2, <1>9, <2>6, <2>7, <3>6
  <2>14. QED
    BY <2>9, <2>12, <2>13
<1>10. QED
  BY <1>7, <1>8, <1>9

\* So it is after the last turn.
LEMMA LoopTells ==
  ASSUME NEW start, NEW m, NEW list,
         NEW outcome \in [1 .. Destinations -> {"ok", "memory", "refused"}],
         "sip" \in DOMAIN m,
         start.sent = <<>>, start.err # "CONN"
  PROVE  ToldSoFar(Loop(m, list, start, outcome), Targets, start, outcome)
<1>1. PICK f : /\ Turns(f, Destinations, m, list, start, outcome)
               /\ Loop(m, list, start, outcome) = f[Destinations]
  BY LoopIsTurns
<1>2. PICK u : Counted(u, Destinations) /\ Targets = u[Destinations]
  BY TargetsAreCounted
<1>3. Destinations \in Nat /\ Destinations \in 0 .. Destinations
  BY TrapsAssumption DEF TrapsAssumption
<1> DEFINE P == {n \in Nat : ToldSoFar(f[n], u[n], start, outcome)}
<1>4. 0 \in P
  <2>1. f[0] = start /\ u[0] = <<>>
    BY <1>1, <1>2, <1>3 DEF Turns, Counted
  <2>2. <<>> \in Seq(Nat) /\ Len(<<>>) = 0
    OBVIOUS
  <2>3. ToldSoFar(start, <<>>, start, outcome)
    BY <2>2 DEF ToldSoFar
  <2>4. QED
    BY <2>1, <2>3
<1>5. ASSUME NEW n \in 0 .. Destinations - 1, n \in P
      PROVE  n + 1 \in P
  <2>1. n + 1 \in 1 .. Destinations /\ n + 1 \in 0 .. Destinations /\ n + 1 # 0 /\ (n + 1) - 1 = n
    BY <1>3
  <2>2. f[n + 1] = Turn(f[n], n + 1, m, list, outcome[n + 1])
    BY <1>1, <2>1 DEF Turns
  <2>3. u[n + 1] = IF Enabled(n + 1) THEN Append(u[n], n + 1) ELSE u[n]
    BY <1>2, <2>1 DEF Counted
  <2>4. ToldSoFar(f[n], u[n], start, outcome)
    BY <1>5
  <2>5. ToldSoFar(f[n + 1], u[n + 1], start, outcome)
    <3>1. ToldSoFar(Turn(f[n], n + 1, m, list, outcome[n + 1]),
                    IF Enabled(n + 1) THEN Append(u[n], n + 1) ELSE u[n], start, outcome)
      BY <2>1, <2>4, TurnKeepsTold
    <3>2. QED
      BY <2>2, <2>3, <3>1
  <2>6. QED
    BY <2>1, <2>5
<1>6. Destinations \in P
  <2> HIDE DEF P
  <2>1. QED
    BY <1>3, <1>4, <1>5, CountingUp
<1>7. QED
  BY <1>1, <1>2, <1>6

\* The OID of a notification can be made, or it is too long, or there is none.
LEMMA TrapOidError ==
  ASSUME NEW eoid, NEW generic, NEW specific
  PROVE  PrepareTrapOid(eoid, generic, specific).err \in {"OK", "MEM", "VAL"}
<1>1. CASE generic = EnterpriseSpecific
  <2>1. generic \notin 0 .. EnterpriseSpecific - 1
    BY <1>1 DEF EnterpriseSpecific
  <2>2. QED
    BY <1>1, <2>1 DEF PrepareTrapOid
<1>2. CASE generic \in 0 .. EnterpriseSpecific - 1
  <2>1. generic # EnterpriseSpecific
    BY <1>2 DEF EnterpriseSpecific
  <2>2. QED
    BY <1>2, <2>1 DEF PrepareTrapOid
<1>3. CASE generic # EnterpriseSpecific /\ generic \notin 0 .. EnterpriseSpecific - 1
  BY <1>3 DEF PrepareTrapOid
<1>4. QED
  BY <1>1, <1>2, <1>3

\* The record of a call is that of the loop over the destinations.
LEMMA NotifiedTells ==
  ASSUME NEW version, NEW inform, NEW notice, NEW now,
         NEW outcome \in [1 .. Destinations -> {"ok", "memory", "refused"}],
         NEW oid, oid.err \in {"OK", "MEM", "VAL"}
  PROVE  LET c == Notified(version, inform, notice, now, outcome, oid)
         IN  /\ c.outcome = outcome
             /\ \E start, end : /\ start.err \in {"OK", "MEM", "VAL"}
                                /\ c.err = end.err /\ c.sent = end.sent /\ c.len = end.len
                                /\ ToldSoFar(end, Targets, start, outcome)
<1> DEFINE v2c == version = SNMP_VERSION_2c
           m == [version |-> version, inform |-> inform, enterprise |-> notice.eoid, sip |-> AnyAddress,
                 generic |-> notice.generic, specific |-> notice.specific, ts |-> 0, id |-> req_id]
           list == IF v2c THEN SpecialVarbinds(oid.oid, now) \o notice.list ELSE notice.list
           start == Sending(IF v2c THEN oid.err ELSE "OK", <<>>, 0, 0)
           end == Loop(PrepareFields(m, now), list, start, outcome)
           c == Notified(version, inform, notice, now, outcome, oid)
<1>1. c = Called(version, inform, notice, now, outcome, oid, end)
  BY DEF Notified
<1>2. c.outcome = outcome /\ c.err = end.err /\ c.sent = end.sent /\ c.len = end.len
  <2> HIDE DEF c, end
  <2>1. QED
    BY <1>1 DEF Called
<1>3. start.err \in {"OK", "MEM", "VAL"} /\ start.err # "CONN" /\ start.sent = <<>>
  BY DEF Sending
<1>4. "sip" \in DOMAIN PrepareFields(m, now)
  BY DEF PrepareFields
<1>5. ToldSoFar(end, Targets, start, outcome)
  <2> HIDE DEF start, m, list
  <2>1. QED
    BY <1>3, <1>4, LoopTells
<1>6. QED
  <2> HIDE DEF end, start, c
  <2>1. \E from, to : /\ from.err \in {"OK", "MEM", "VAL"}
                     /\ c.err = to.err /\ c.sent = to.sent /\ c.len = to.len
                     /\ ToldSoFar(to, Targets, from, outcome)
    BY <1>2, <1>3, <1>5
  <2>2. QED
    BY <1>2, <2>1 DEF c

\* A notification leaves the settings and the sockets, so its record tells what happened.
LEMMA SendKeeps ==
  ASSUME SocketsIInv, UNCHANGED socketVars,
         NEW version, NEW inform, NEW notice, Send(version, inform, notice)
  PROVE  DestinationsTold'
<1>1. PICK oid : oid = PrepareTrapOid(notice.eoid, notice.generic, notice.specific)
  OBVIOUS
<1>2. oid.err \in {"OK", "MEM", "VAL"}
  BY <1>1, TrapOidError
<1>3. PICK now \in Clock, outcome \in [1 .. Destinations -> {"ok", "memory", "refused"}] :
        call' = Notified(version, inform, notice, now, outcome, oid)
  BY <1>1 DEF Send
<1>4. PICK start, end : /\ start.err \in {"OK", "MEM", "VAL"}
                        /\ call'.outcome = outcome
                        /\ call'.err = end.err /\ call'.sent = end.sent /\ call'.len = end.len
                        /\ ToldSoFar(end, Targets, start, outcome)
  BY <1>2, <1>3, NotifiedTells
<1>5. /\ sockets' = sockets /\ has_sockets' = has_sockets /\ snmp_traps_handle' = snmp_traps_handle
      /\ trap_dst' = trap_dst
  BY DEF socketVars, Send
<1>6. Targets' = Targets
  BY <1>5 DEF Targets
<1>7. has_sockets => sockets[snmp_traps_handle] = "agent"
  BY DEF SocketsIInv, SocketsAllOrNone
<1>8. \A i \in 1 .. Len(end.sent) : /\ end.sent[i].by = sockets[snmp_traps_handle]
                                    /\ end.sent[i].to = trap_dst[Targets[i]].dip
  BY <1>4 DEF ToldSoFar
<1>9. DOMAIN end.sent = 1 .. Len(end.sent)
  BY <1>4 DEF ToldSoFar
<1>10. end.err = "OK" => Len(end.sent) = Len(Targets)
  BY <1>4 DEF ToldSoFar
<1>11. end.err = "CONN" => \/ Err(end.len) <= 0
                           \/ \E i \in 1 .. Destinations : outcome[i] = "refused"
                           \/ snmp_traps_handle \notin DOMAIN sockets
  BY <1>4 DEF ToldSoFar
<1>12. Targets = <<>> => end.err \in {"OK", "MEM", "VAL"}
  BY <1>4 DEF ToldSoFar
<1>13. DOMAIN outcome = 1 .. Destinations
  OBVIOUS
<1>14. \A n : Err(n)' = Err(n)
  BY DEF Err
<1>15. QED
  BY <1>4, <1>5, <1>6, <1>7, <1>8, <1>9, <1>10, <1>11, <1>12, <1>13, <1>14 DEF DestinationsTold, LengthIsNoErr, NotTaken

\* A generic trap is one of these, or in version 3 no notification.
LEMMA SendGenericKeeps ==
  ASSUME SocketsIInv, UNCHANGED socketVars, NEW generic, SendTrapGeneric(generic)
  PROVE  DestinationsTold' \/ call' = NoCall
<1>1. CASE snmp_default_trap_version = SNMP_VERSION_1
  <2>1. snmp_default_trap_version # SNMP_VERSION_2c
    BY <1>1 DEF SNMP_VERSION_1, SNMP_VERSION_2c
  <2>2. Send(SNMP_VERSION_1, FALSE, Generic(Snmp, generic))
    BY <1>1, <2>1 DEF SendTrapGeneric
  <2>3. QED
    BY <2>2, SendKeeps
<1>2. CASE snmp_default_trap_version = SNMP_VERSION_2c
  <2>1. snmp_default_trap_version # SNMP_VERSION_1
    BY <1>2 DEF SNMP_VERSION_1, SNMP_VERSION_2c
  <2>2. Send(SNMP_VERSION_2c, FALSE, Generic(NoOid, generic))
    BY <1>2, <2>1 DEF SendTrapGeneric
  <2>3. QED
    BY <2>2, SendKeeps
<1>3. CASE snmp_default_trap_version \notin {SNMP_VERSION_1, SNMP_VERSION_2c}
  BY <1>3 DEF SendTrapGeneric
<1>4. QED
  BY <1>1, <1>2, <1>3

\* Any other step clears the record of the last call.
LEMMA ToldInductive ==
  SocketsIInv /\ DestinationsTold /\ [Next]_vars => DestinationsTold'
<1> SUFFICES ASSUME SocketsIInv, DestinationsTold, [Next]_vars
             PROVE  DestinationsTold'
  OBVIOUS
<1>1. call' = NoCall => DestinationsTold'
  BY DEF NoCall, DestinationsTold
<1>2. CASE UNCHANGED vars
  <2>1. /\ sockets' = sockets /\ has_sockets' = has_sockets
        /\ snmp_traps_handle' = snmp_traps_handle /\ trap_dst' = trap_dst /\ call' = call
    BY <1>2 DEF vars, trapVars, socketVars
  <2>2. Targets' = Targets
    BY <2>1 DEF Targets
  <2>3. \A n : Err(n)' = Err(n)
    BY DEF Err
  <2>4. QED
    BY <2>1, <2>2, <2>3 DEF DestinationsTold, LengthIsNoErr, NotTaken
<1>3. CASE SettingsChange
  BY <1>1, <1>3 DEF SettingsChange, Settings, TrapDstEnable, TrapDstIpSet, SetAuthTrapsEnabled,
                    SetDefaultTrapVersion, PrepareTrapTest
<1>4. CASE Notification
  <2>1. UNCHANGED socketVars /\ Notify
    BY <1>4 DEF Notification
  <2>2. CASE SendTrap \/ SendTrapSpecific \/ SendInform
    BY <2>1, <2>2, SendKeeps DEF SendTrap, SendTrapSpecific, SendInform
  <2>3. CASE ColdstartTrap
    BY <1>1, <2>1, <2>3, SendGenericKeeps DEF ColdstartTrap
  <2>4. QED
    BY <2>1, <2>2, <2>3 DEF Notify
<1>5. CASE Request
  <2>1. UNCHANGED socketVars /\ (call' = NoCall \/ AuthfailTrap)
    BY <1>5 DEF Request, ReceiveRequest
  <2>2. CASE AuthfailTrap
    BY <1>1, <2>1, <2>2, SendGenericKeeps DEF AuthfailTrap
  <2>3. QED
    BY <1>1, <2>1, <2>2
<1>6. CASE SocketsChange
  BY <1>1, <1>6 DEF SocketsChange
<1>7. QED
  BY <1>2, <1>3, <1>4, <1>5, <1>6 DEF Next

\* Whatever the number of destinations and the settings, and whatever fails at each of
\* them, the error a notification returns tells which destinations got it: all that are
\* enabled, in the order of the table, or the first ones, and it went out by the agent's
\* own socket while the agent runs (src/src/snmp_traps.c:421-438).
THEOREM ErrorsTellDestinations == Spec => []DestinationsTold
<1>1. Init => SocketsIInv /\ DestinationsTold
  BY SocketsInitially DEF Init, TrapsInit, NoCall, DestinationsTold
<1>2. QED
  BY <1>1, SocketsInductive, ToldInductive, PTL DEF Spec
=============================================================================
