---------------------------- MODULE Mib2Scalars ----------------------------
(***************************************************************************)
(* The scalar groups of MIB-2: system (src/snmp_mib2_system.c), snmp       *)
(* (src/snmp_mib2_snmp.c), ip, icmp and udp.  The application gives the    *)
(* strings of the system group their buffers; a SET request tests all its  *)
(* varbinds before it sets the first one.                                  *)
(*                                                                         *)
(* An object is <<group, arc>>.  A buffer is the array of its octets.      *)
(***************************************************************************)
EXTENDS Naturals, Sequences, SequencesExt

CONSTANTS
  Names,        \* the objects of the system group a behaviour uses, of 4, 5 and 6:
                \* sysContact, sysName, sysLocation
  BufferSize,   \* bound: the octets of an application's buffer
  Texts,        \* bound: what applications and managers write
  DefaultText,  \* SNMP_LWIP_MIB2_SYSCONTACT and its like
  DefaultTTL,   \* IP_DEFAULT_TTL
  Numbers,      \* bound: the integers managers write
  MaxSettings,  \* bound: calls of the application
  MaxSets       \* bound: varbinds of SET requests

ASSUME ScalarsAssumption ==
  /\ Names \subseteq {4, 5, 6}
  /\ BufferSize \in Nat \ {0}
  /\ \A t \in Texts : t \in Seq(0 .. 255)

VARIABLES
  setting,             \* of a name: [own, len, writable, bufsize]: whether it is in the
                       \* application's buffer, has a length variable, sysX_wr is set
  memory,              \* the buffer and the length variable of a name
  auth_traps,          \* snmp_auth_traps_enabled
  pending,             \* varbinds of the request that are tested and not set
  wrote,               \* what a SET has written last to an object: one value or none
  outside,             \* whether an octet was written outside a buffer
  settings, sets       \* calls of the application; varbinds

scalarVars == <<setting, memory, auth_traps, pending, wrote, outside, settings, sets>>

Nothing == <<>>
Contact(x) == <<"system", x>>
EnableAuthenTraps == <<"snmp", 30>>
Forwarding == <<"ip", 1>>
TimeToLive == <<"ip", 2>>
Writable == {Contact(x) : x \in Names} \cup {EnableAuthenTraps, Forwarding, TimeToLive}

ScalarsInit ==
  /\ setting = [x \in Names |->
       [own |-> FALSE, len |-> FALSE, writable |-> FALSE, bufsize |-> 0]]
  /\ memory = [x \in Names |-> [octets |-> [i \in 1 .. BufferSize |-> 0], len |-> 0]]
  /\ auth_traps = FALSE
  /\ pending = <<>> /\ outside = FALSE
  /\ wrote = [o \in Writable |-> Nothing]
  /\ settings = 0 /\ sets = 0

-----------------------------------------------------------------------------
(* The objects of the groups and what get_value() answers for: every arc   *)
(* of the node definitions is one the switch knows.                        *)

SnmpNodes == (1 .. 32) \ {7, 23}
IpNodes == 1 .. 19 \cup {23}
IcmpNodes == 1 .. 26
UdpNodes == {1, 2, 3, 4, 8, 9}

Unsupported == {"icmp"} \X (18 .. 20 \cup 23 .. 26) \cup {<<"ip", 23>>, <<"snmp", 31>>, <<"snmp", 32>>}

\* icmp_get_value(), ip_get_value(), udp_get_value() and snmp_get_value(): the counter of
\* the statistics an arc stands for; the 64-bit ones return the 32-bit counters.
Counter(object) ==
  CASE object \in Unsupported -> <<0>>
    [] object = <<"udp", 8>> -> <<"udp", 1>>
    [] object = <<"udp", 9>> -> <<"udp", 4>>
    [] OTHER -> object

-----------------------------------------------------------------------------
(* The strings.                                                            *)

\* strlen(): the octets up to the first 0.
UpToZero(octets) ==
  LET zeros == {i \in DOMAIN octets : octets[i] = 0}
  IN  IF zeros = {} THEN octets
      ELSE SubSeq(octets, 1, (CHOOSE i \in zeros : \A j \in zeros : i <= j) - 1)

\* system_get_value()
Text(x) ==
  IF ~setting[x].own THEN DefaultText
  ELSE IF setting[x].len THEN SubSeq(memory[x].octets, 1, memory[x].len)
  ELSE UpToZero(memory[x].octets)

ScalarValue(object) ==
  CASE object[1] = "system" -> Text(object[2])
    [] object = EnableAuthenTraps -> <<IF auth_traps THEN 1 ELSE 2>>
    [] object = Forwarding -> <<2>>
    [] object = TimeToLive -> <<DefaultTTL>>
    [] OTHER -> Counter(object)

\* A buffer after octets are written to its beginning.
Over(octets, written) ==
  [i \in 1 .. BufferSize |-> IF i <= Len(written) THEN written[i] ELSE octets[i]]

\* A text the application leaves in a buffer: with a terminating 0 unless its length
\* is in a variable.
Fits(text, len) == Len(text) + (IF len THEN 0 ELSE 1) <= BufferSize
InBuffer(text) == [octets |-> Over([i \in 1 .. BufferSize |-> 0], text), len |-> Len(text)]

Configure(x, new, text) ==
  /\ pending = <<>> /\ settings < MaxSettings
  /\ Fits(text, new.len)
  /\ settings' = settings + 1
  /\ setting' = [setting EXCEPT ![x] = new]
  /\ memory' = [memory EXCEPT ![x] = InBuffer(text)]
  /\ wrote' = [wrote EXCEPT ![Contact(x)] = Nothing]
  /\ UNCHANGED <<auth_traps, pending, outside, sets>>

\* snmp_mib2_set_syscontact() and its like
SetText(x, len, bufsize, text) ==
  Configure(x, [own |-> TRUE, len |-> len, writable |-> TRUE, bufsize |-> bufsize], text)

\* snmp_mib2_set_syscontact_readonly() and its like
SetTextReadonly(x, len, text) ==
  Configure(x, [own |-> TRUE, len |-> len, writable |-> FALSE, bufsize |-> 0], text)

-----------------------------------------------------------------------------
(* SET.                                                                    *)

\* system_set_test(): without a length variable there must be room for the 0.
\* (Mutated: without room for the 0.)
SystemSetTestWithoutZero(x, len) ==
  IF setting[x].bufsize = 0 THEN "NOTWRITABLE"
  ELSE IF len <= setting[x].bufsize THEN "NOERROR" ELSE "WRONGVALUE"
SystemSetTest(x, len) ==
  IF setting[x].bufsize = 0 THEN "NOTWRITABLE"
  ELSE IF len + (IF setting[x].len THEN 0 ELSE 1) <= setting[x].bufsize THEN "NOERROR"
  ELSE "WRONGVALUE"

\* system_set_test(), snmp_set_test() and ip_set_test()
SetTest(object, value) ==
  CASE object[1] = "system" -> SystemSetTest(object[2], Len(value))
    [] object = EnableAuthenTraps -> IF value[1] \in {1, 2} THEN "NOERROR" ELSE "WRONGVALUE"
    [] object = Forwarding -> IF value[1] = 2 THEN "NOERROR" ELSE "WRONGVALUE"
    [] object = TimeToLive -> IF value[1] = DefaultTTL THEN "NOERROR" ELSE "WRONGVALUE"

ValuesFor(object) == IF object[1] = "system" THEN Texts ELSE {<<n>> : n \in Numbers}

\* A varbind is tested; the first one that fails ends the request.
TestVarbind(object, value) ==
  /\ sets < MaxSets
  /\ sets' = sets + 1
  /\ pending' = IF SetTest(object, value) = "NOERROR" THEN Append(pending, <<object, value>>)
                ELSE <<>>
  /\ UNCHANGED <<setting, memory, auth_traps, wrote, outside, settings>>

\* system_set_value()
WriteText(x, value) ==
  LET written == IF setting[x].len THEN value ELSE Append(value, 0)
  IN  /\ memory' = [memory EXCEPT ![x] =
            [octets |-> Over(@.octets, written), len |-> IF setting[x].len THEN Len(value) ELSE @.len]]
      /\ outside' = (outside \/ Len(written) > setting[x].bufsize)
      /\ UNCHANGED auth_traps

\* snmp_set_value(); ip_set_value() has nothing to do.
WriteInteger(object, value) ==
  /\ auth_traps' = IF object = EnableAuthenTraps THEN value[1] # 2 ELSE auth_traps
  /\ UNCHANGED <<memory, outside>>

SetVarbind ==
  /\ pending # <<>>
  /\ \E object \in {Head(pending)[1]}, value \in {Head(pending)[2]} :
       /\ IF object[1] = "system" THEN WriteText(object[2], value)
          ELSE WriteInteger(object, value)
       /\ wrote' = [wrote EXCEPT ![object] = <<value>>]
  /\ pending' = Tail(pending)
  /\ UNCHANGED <<setting, settings, sets>>

ScalarsStep ==
  \/ \E x \in Names, text \in Texts, len \in BOOLEAN :
       \/ \E bufsize \in 0 .. BufferSize : SetText(x, len, bufsize, text)
       \/ SetTextReadonly(x, len, text)
  \/ \E object \in Writable : \E value \in ValuesFor(object) : TestVarbind(object, value)
  \/ SetVarbind

-----------------------------------------------------------------------------
\* What a SET has written is what GET returns, until the next SET or setting, with the
\* octets behind the first 0 lost where there is no length variable, and no SET writes
\* an octet outside the buffer or to a value the application keeps read-only
\* (system_set_test() and system_set_value() rely on each other, two passes apart).
SetsReadBack ==
  /\ ~outside
  /\ \A o \in Writable : wrote[o] # Nothing =>
       IF o[1] = "system" /\ ~setting[o[2]].len
       THEN ScalarValue(o) = UpToZero(wrote[o][1])
       ELSE ScalarValue(o) = wrote[o][1]
  /\ \A x \in Names : wrote[Contact(x)] # Nothing => setting[x].writable
=============================================================================
