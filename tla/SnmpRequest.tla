---------------------------- MODULE SnmpRequest ----------------------------
(***************************************************************************)
(* The handling of one request by the agent (src/snmp_msg.c): parsing of   *)
(* the PDU header, the GET, GETNEXT, GETBULK and SET loops over the        *)
(* varbinds, the completion of the response and the calls to the           *)
(* application.                                                            *)
(*                                                                         *)
(* An object instance is a number, in the order of the OIDs; Mib gives its *)
(* attributes.  A varbind of a request names an instance, existing or not, *)
(* and has a kind: how it decodes.  The response buffer is measured in     *)
(* units of the instances' sizes.                                          *)
(***************************************************************************)
EXTENDS Integers, Sequences, SequencesExt, FiniteSetsExt

CONSTANTS
  Requests,      \* the requests considered
  Mib,           \* instance -> [type, lookup, readable, writable, size, get, test, set]
  Capacity,      \* bound: room for varbinds in the response
  MaxErrorIndex, \* bound: the largest index that is encoded in one byte; 127 in the code
  Changing       \* the requests during which another thread may remove instances

\* The values of error_status: those of v1, the exceptions kept there in v1, and
\* the errors v1 knows less of.
Exceptions == {"noSuchInstance", "endOfMibView"}
V1Statuses == {"noError", "tooBig", "noSuchName", "badValue", "readOnly", "genErr"}
ValueErrors == {"wrongType", "wrongLength", "wrongEncoding", "wrongValue", "inconsistentValue"}
NameErrors == {"noAccess", "notWritable", "noCreation", "inconsistentName"}
Statuses == UNION {V1Statuses, Exceptions, ValueErrors, NameErrors,
                   {"resourceUnavailable", "commitFailed", "undoFailed"}}

\* How a varbind of a request decodes: a value, one that is too long for the
\* buffer, or no varbind.
Kinds == {"null", "integer", "string", "tooLong", "malformed"}
InboundVarbinds == [name : Nat, kind : Kinds]

ASSUME ConstantsAssumption ==
  /\ Capacity \in Nat /\ MaxErrorIndex \in Nat
  /\ DOMAIN Mib \subseteq Nat
  /\ \A o \in DOMAIN Mib :
       /\ Mib[o].lookup \in {"noError", "genErr"}
       /\ Mib[o].size \in Nat /\ Mib[o].test \in Statuses
  /\ \A r \in Requests :
       /\ r.type \in {"get", "getNext", "getBulk", "set", "getResp"}
       /\ r.varbinds \in Seq(InboundVarbinds)
       /\ r.errorIndex \in Int /\ r.nonRepeaters \in Nat /\ r.maxRepetitions \in Nat

VARIABLES
  snmp_community_write, \* "private", or not set (empty): all objects are read-only
  req,            \* the request
  pc,             \* the phase snmp_receive() is in
  ret,            \* the phase to go on with after snmp_process_varbind()
  error_status,
  error_index,
  varbind_count,  \* of inbound_varbind_enumerator
  cur,            \* the instance snmp_process_varbind() has looked up
  out,            \* the varbinds of the response
  bulk,           \* local variables of snmp_process_getbulk_request()
  present,        \* the instances that exist
  held,           \* instances looked up and not released
  outbound,       \* outbound_pbuf is allocated
  written,        \* the instances set_value() was called for, in order
  authFailures,   \* calls of snmp_authfail_trap()
  reply,          \* the responses sent
  callbacks       \* calls of snmp_write_callback / snmp_inform_callback

loopVars == <<error_status, error_index, varbind_count, out>>
given == <<snmp_community_write, req>>
outerVars == <<given, written, authFailures, reply, callbacks>>
vars == <<loopVars, outerVars, pc, ret, cur, bulk, present, held, outbound>>

\* Whether another thread may remove instances meanwhile.
MibChanges == req \in Changing

\* Header of the outbound message: repetition_offset has this value until the
\* first repeater is reached.
HeaderOffset == 0
OutOffset == Len(out) + 1

Size(varbinds) ==
  LET sum[n \in 0 .. Len(varbinds)] == IF n = 0 THEN 0 ELSE sum[n - 1] + varbinds[n].size
  IN  sum[Len(varbinds)]

\* (Mutated: Counter64 for v1 too.)
AccessibleToAnyVersion(o) == Mib[o].readable

\* snmp_msg_getnext_validate_node_inst()
Accessible(o) ==
  Mib[o].readable /\ ~(Mib[o].type = "counter64" /\ req.version = "v1")

\* The instance a varbind names: it may not exist, or its node may fail to look it
\* up.  The search for the next one passes over those it finds not accessible.
ExactInstances(n) == {o \in present : o = n}
LookupResult(n) == IF ExactInstances(n) = {} THEN "noSuchInstance" ELSE Mib[n].lookup
Reachable(o) == Accessible(o) /\ Mib[o].lookup = "noError"
\* (Mutated: not beyond n.)
InstancesFrom(n) == {o \in present : o >= n /\ Reachable(o)}
NextInstances(n) == {o \in present : o > n /\ Reachable(o)}
NextResult(n) == IF NextInstances(n) = {} THEN "endOfMibView" ELSE "noError"

Init ==
  /\ snmp_community_write \in {"unset", "private"}
  /\ req \in Requests
  /\ pc = "parse"
  /\ ret = "done"
  /\ error_status = "noError"
  /\ error_index = 0
  /\ varbind_count = 0
  /\ cur = 0
  /\ out = <<>>
  /\ bulk = [nonrep |-> 0, reps |-> 0, off |-> HeaderOffset,
             next |-> 1, first |-> 1, last |-> 0, allEnd |-> TRUE]
  /\ present = DOMAIN Mib
  /\ held = 0
  /\ outbound = FALSE
  /\ written = <<>>
  /\ authFailures = 0
  /\ reply = <<>>
  /\ callbacks = <<>>

-----------------------------------------------------------------------------
(* Parsing: the part of snmp_parse_inbound_frame() behind the community.   *)

AllReadOnly == req.type = "set" /\ snmp_community_write = "unset"

\* (Mutated: the read community for SET too.)
ReadCommunityAccepted == AllReadOnly \/ req.community = "public"

CommunityAccepted ==
  IF req.type = "set" THEN snmp_community_write \in {"unset", req.community}
                      ELSE req.community = "public"

\* A wrong or overlong community is not answered but makes a trap.
ParseBadCommunity ==
  /\ pc = "parse"
  /\ ~ (req.type = "getBulk" /\ req.version = "v1")
  /\ req.community = "none" \/ ~CommunityAccepted
  /\ pc' = "done"
  /\ authFailures' = authFailures + 1
  /\ UNCHANGED <<loopVars, given, written, reply, callbacks, ret, cur, bulk,
                 present, held, outbound>>

\* RFC 2089: GetBulk of v1 is dropped.
ParseV1Bulk ==
  /\ pc = "parse"
  /\ req.type = "getBulk" /\ req.version = "v1"
  /\ pc' = "done"
  /\ UNCHANGED <<loopVars, outerVars, ret, cur, bulk, present, held, outbound>>

\* Without a write community all objects are read-only.
\* (Mutated: they are not.)
WritableStatus == "noError"
ParsedStatus == IF AllReadOnly THEN "notWritable" ELSE "noError"

\* The error-index field of the request is decoded into request->error_index,
\* over the 1 a read-only agent has put there; the check that follows it looks at
\* the field before, so that any index is accepted.
ParseAccept ==
  /\ pc = "parse"
  /\ ~ (req.type = "getBulk" /\ req.version = "v1")
  /\ req.community # "none" /\ CommunityAccepted
  /\ error_status' = ParsedStatus
  /\ error_index' = IF req.type = "getBulk" THEN 0 ELSE req.errorIndex
  /\ bulk' = [bulk EXCEPT !.nonrep = req.nonRepeaters, !.reps = req.maxRepetitions]
  /\ pc' = IF req.type = "getResp" THEN "inform" ELSE "prepare"
  /\ UNCHANGED <<varbind_count, out, outerVars, ret, cur, present, held, outbound>>

-----------------------------------------------------------------------------
(* snmp_receive(): an answer to an inform, and the response buffer.        *)

\* The loop is left only by a varbind that decodes; after an error the rest of
\* the stream is parsed from wherever the decoder stopped.
InformVarbind ==
  /\ pc = "inform"
  /\ varbind_count < Len(req.varbinds)
  /\ IF req.varbinds[varbind_count + 1].kind \notin {"malformed", "tooLong"}
     THEN /\ pc' = "done"
          /\ callbacks' = Append(callbacks, "inform")
          /\ varbind_count' = varbind_count + 1
     ELSE /\ varbind_count' \in varbind_count + 1 .. Len(req.varbinds)
          /\ UNCHANGED <<pc, callbacks>>
  /\ UNCHANGED <<error_status, error_index, out, given, written, authFailures,
                 reply, ret, cur, bulk, present, held, outbound>>

PhaseOf(type) ==
  CASE type \in {"get", "getNext"} -> "get"
    [] type = "getBulk" -> "bulkFirst"
    [] type = "set" -> "setTest"

\* snmp_prepare_outbound_frame() allocates the response; without memory the
\* request is dropped.
Prepare ==
  /\ pc = "prepare"
  /\ \/ /\ outbound' = TRUE
        /\ pc' = IF error_status = "noError" THEN PhaseOf(req.type) ELSE "complete"
     \/ /\ outbound' = FALSE
        /\ pc' = "done"
  /\ UNCHANGED <<loopVars, outerVars, ret, cur, bulk, present, held>>

-----------------------------------------------------------------------------
(* snmp_process_varbind()                                                  *)

\* snmp_append_outbound_varbind(): nothing is written when vb does not fit.
AppendVarbind(vb) ==
  IF Size(out) + vb.size > Capacity
  THEN /\ error_status' = "tooBig"
       /\ UNCHANGED out
  ELSE /\ out' = Append(out, vb)
       /\ error_status' = "noError"

\* No instance to read.  Exceptions go into the varbind, but in v1 into error_status.
NoVarbind(name, result) ==
  IF result \notin Exceptions
  THEN error_status' = "genErr" /\ UNCHANGED out
  ELSE IF req.version = "v1"
  THEN error_status' = result /\ UNCHANGED out
  ELSE AppendVarbind([name |-> name, val |-> result, size |-> 1])

\* The lookup.  That of the next instance delivers none that is not accessible.
LookupVarbind(name, getNext, phase) ==
  LET result == IF getNext THEN NextResult(name) ELSE LookupResult(name)
  IN  \/ /\ result = "noError"
         /\ cur' = IF getNext THEN Min(NextInstances(name)) ELSE name
         /\ held' = held + 1
         /\ pc' = IF getNext THEN "value" ELSE "validate"
         /\ ret' = phase
         /\ UNCHANGED <<error_status, out>>
      \/ /\ result # "noError"
         /\ NoVarbind(name, result)
         /\ pc' = phase
         /\ UNCHANGED <<cur, held, ret>>

\* release_instance()
\* (Mutated: forgotten after an error.)
ReleaseAfterSuccess == held' = IF error_status' = "noError" THEN held - 1 ELSE held
Release == held' = held - 1

\* An instance GET has looked up is released again when it is not accessible.
ValidateVarbind ==
  /\ pc = "validate"
  /\ \/ /\ Accessible(cur)
        /\ pc' = "value"
        /\ UNCHANGED <<error_status, out, held>>
     \/ /\ ~Accessible(cur)
        /\ NoVarbind(cur, "noSuchInstance")
        /\ Release
        /\ pc' = ret
  /\ UNCHANGED <<error_index, varbind_count, outerVars, ret, cur, bulk, present, outbound>>

\* The value: from the application's handler or from get_value(); the instance
\* is released whatever came of it.
VarbindValue ==
  /\ pc = "value"
  /\ IF Mib[cur].get
     THEN AppendVarbind([name |-> cur, val |-> "value", size |-> Mib[cur].size])
     ELSE error_status' = "genErr" /\ UNCHANGED out
  /\ Release
  /\ pc' = ret
  /\ UNCHANGED <<error_index, varbind_count, outerVars, ret, cur, bulk, present, outbound>>

-----------------------------------------------------------------------------
(* GET and GETNEXT                                                         *)

EndOfVarbinds == varbind_count = Len(req.varbinds)
InboundVarbind == req.varbinds[varbind_count + 1]

\* What the enumerator returns for the next inbound varbind.
Decodes(kinds) == ~EndOfVarbinds /\ InboundVarbind.kind \in kinds
\* (Mutated: counted twice.)
NextButOneInbound == varbind_count' = varbind_count + 2
NextInbound == varbind_count' = varbind_count + 1

\* The loops of GET, GETNEXT and of the first part of GETBULK and SET end when
\* error_status is set or no varbind is left.
\* (Mutated: errors do not end them.)
LoopEndsAtEndOfVarbinds == EndOfVarbinds
LoopEnds == error_status # "noError" \/ EndOfVarbinds

GetLoopEnd ==
  /\ pc = "get" /\ LoopEnds
  /\ pc' = "complete"
  /\ UNCHANGED <<loopVars, outerVars, ret, cur, bulk, present, held, outbound>>

GetVarbind ==
  /\ pc = "get" /\ ~LoopEnds
  /\ Decodes({"null"}) /\ NextInbound
  /\ LookupVarbind(InboundVarbind.name, req.type = "getNext", "get")
  /\ UNCHANGED <<error_index, outerVars, bulk, present, outbound>>

\* A varbind with a value, or with one that does not decode into the buffer.
GetBadVarbind ==
  /\ pc = "get" /\ ~LoopEnds
  /\ Decodes({"integer", "string", "tooLong"}) /\ NextInbound
  /\ error_status' = "genErr"
  /\ UNCHANGED <<error_index, out, outerVars, pc, ret, cur, bulk, present, held, outbound>>

\* GETBULK has reached the first repeater; it does not read it when no repetitions
\* are asked for.
AtRepeaters == bulk.nonrep = 0
NoRepetitions == AtRepeaters /\ bulk.reps = 0

\* Malformed ASN.1 is not answered, whatever was processed before it.
MalformedVarbind ==
  /\ pc \in {"get", "bulkFirst", "setTest"} /\ ~LoopEnds
  /\ pc = "bulkFirst" => ~NoRepetitions
  /\ Decodes({"malformed"}) /\ NextInbound
  /\ pc' = "free"
  /\ UNCHANGED <<error_status, error_index, out, outerVars, ret, cur, bulk,
                 present, held, outbound>>

-----------------------------------------------------------------------------
(* GETBULK                                                                 *)

\* At the first repeater the position of its answer is remembered.
\* (Mutated: the first repetition is not counted.)
EnterRepeatersUncounted == IF AtRepeaters THEN [bulk EXCEPT !.off = OutOffset] ELSE bulk
EnterRepeaters ==
  IF AtRepeaters THEN [bulk EXCEPT !.off = OutOffset, !.reps = @ - 1] ELSE bulk

\* (Mutated: the end of the varbinds does not end the loop.)
BulkFirstEndAtError ==
  /\ pc = "bulkFirst"
  /\ pc' = "bulkLoop"
  /\ \/ error_status # "noError" /\ UNCHANGED bulk
     \/ /\ error_status = "noError" /\ NoRepetitions
        /\ bulk' = [bulk EXCEPT !.off = OutOffset]
  /\ UNCHANGED <<loopVars, outerVars, ret, cur, present, held, outbound>>

BulkFirstEnd ==
  /\ pc = "bulkFirst"
  /\ pc' = "bulkLoop"
  /\ \/ error_status # "noError" /\ UNCHANGED bulk
     \/ /\ error_status = "noError" /\ NoRepetitions
        /\ bulk' = [bulk EXCEPT !.off = OutOffset]
     \/ /\ error_status = "noError" /\ ~NoRepetitions /\ EndOfVarbinds
        /\ bulk' = EnterRepeaters
  /\ UNCHANGED <<loopVars, outerVars, ret, cur, present, held, outbound>>

BulkFirstVarbind ==
  /\ pc = "bulkFirst" /\ ~LoopEnds /\ ~NoRepetitions
  /\ Decodes({"null"}) /\ NextInbound
  /\ LookupVarbind(InboundVarbind.name, TRUE, "bulkFirst")
  /\ bulk' = [EnterRepeaters EXCEPT !.nonrep = @ - 1]
  /\ UNCHANGED <<error_index, outerVars, present, outbound>>

BulkFirstBadVarbind ==
  /\ pc = "bulkFirst" /\ ~LoopEnds /\ ~NoRepetitions
  /\ Decodes({"integer", "string", "tooLong"}) /\ NextInbound
  /\ error_status' = "genErr"
  /\ bulk' = EnterRepeaters
  /\ UNCHANGED <<error_index, out, outerVars, pc, ret, cur, present, held, outbound>>

\* One more repetition: the varbinds the previous one has put into the response
\* are enumerated.  TOOBIG is not an error of GETBULK.
BulkLoop ==
  /\ pc = "bulkLoop"
  /\ \/ /\ error_status = "noError" /\ bulk.reps > 0 /\ OutOffset # bulk.off
        /\ bulk' = [bulk EXCEPT !.first = bulk.off, !.next = bulk.off,
                                !.last = Len(out), !.off = OutOffset, !.allEnd = TRUE]
        /\ pc' = "bulkInner"
        /\ UNCHANGED error_status
     \/ /\ ~(error_status = "noError" /\ bulk.reps > 0 /\ OutOffset # bulk.off)
        /\ error_status' = IF error_status = "tooBig" THEN "noError" ELSE error_status
        /\ pc' = "complete"
        /\ UNCHANGED bulk
  /\ UNCHANGED <<error_index, varbind_count, out, outerVars, ret, cur, present,
                 held, outbound>>

\* repetition_varbind_enumerator.varbind_count after reading varbind bulk.next - 1
RepetitionCount == bulk.next - bulk.first

BulkInnerVarbind ==
  /\ pc = "bulkInner"
  /\ bulk.first # HeaderOffset /\ bulk.next <= bulk.last
  /\ bulk' = [bulk EXCEPT !.next = @ + 1]
  /\ LookupVarbind(out[bulk.next].name, TRUE, "bulkAfter")
  /\ UNCHANGED <<error_index, varbind_count, outerVars, present, outbound>>

\* The enumerator starts at the message header: it does not parse as a varbind.
BulkInnerHeader ==
  /\ pc = "bulkInner"
  /\ bulk.first = HeaderOffset
  /\ error_status' = "genErr"
  /\ error_index' = req.nonRepeaters + 1
  /\ pc' = "bulkLoop"
  /\ UNCHANGED <<varbind_count, out, outerVars, ret, cur, bulk, present, held, outbound>>

BulkAfter ==
  /\ pc = "bulkAfter"
  /\ \/ /\ error_status # "noError"
        /\ error_index' = req.nonRepeaters + RepetitionCount
        /\ pc' = "bulkLoop"
        /\ UNCHANGED bulk
     \/ /\ error_status = "noError"
        /\ bulk' = [bulk EXCEPT !.allEnd = @ /\ Last(out).val = "endOfMibView"]
        /\ pc' = "bulkInner"
        /\ UNCHANGED error_index
  /\ UNCHANGED <<error_status, varbind_count, out, outerVars, ret, cur, present,
                 held, outbound>>

\* The repetition is complete; one that returned nothing but endOfMibView is
\* the last.
BulkInnerEnd ==
  /\ pc = "bulkInner"
  /\ bulk.first # HeaderOffset /\ bulk.next > bulk.last
  /\ pc' = IF bulk.allEnd THEN "complete" ELSE "bulkLoop"
  /\ bulk' = IF bulk.allEnd THEN bulk ELSE [bulk EXCEPT !.reps = @ - 1]
  /\ UNCHANGED <<loopVars, outerVars, ret, cur, present, held, outbound>>

-----------------------------------------------------------------------------
(* SET                                                                     *)

\* The instance of a varbind is looked up for each of the two passes.
SetLookup(phase) ==
  LET name == InboundVarbind.name
  IN  \/ /\ LookupResult(name) = "noError"
         /\ cur' = name
         /\ held' = held + 1
         /\ pc' = phase
         /\ UNCHANGED error_status
      \/ /\ LookupResult(name) # "noError"
         /\ error_status' = LookupResult(name)
         /\ UNCHANGED <<cur, held, pc>>

\* set_test() is asked for every varbind ...
TestResult(vb) ==
  LET o == Mib[vb.name]
  IN  IF o.type # vb.kind THEN "wrongType"
      ELSE IF ~o.writable THEN "notWritable"
      ELSE o.test

SetTestVarbind ==
  /\ pc = "setTest" /\ ~LoopEnds
  /\ Decodes({"null", "integer", "string"}) /\ NextInbound
  /\ SetLookup("test")
  /\ UNCHANGED <<error_index, out, outerVars, ret, bulk, present, outbound>>

SetTest ==
  /\ pc = "test"
  /\ error_status' = TestResult(req.varbinds[varbind_count])
  /\ Release
  /\ pc' = "setTest"
  /\ UNCHANGED <<error_index, varbind_count, out, outerVars, ret, cur, bulk, present, outbound>>

SetTestTooLong ==
  /\ pc = "setTest" /\ ~LoopEnds
  /\ Decodes({"tooLong"}) /\ NextInbound
  /\ error_status' = "wrongLength"
  /\ UNCHANGED <<error_index, out, outerVars, pc, ret, cur, bulk, present, held, outbound>>

\* ... before the enumeration starts again ...
SetTestEnd ==
  /\ pc = "setTest" /\ LoopEnds
  /\ IF error_status = "noError"
     THEN pc' = "setCommit" /\ varbind_count' = 0
     ELSE pc' = "complete" /\ UNCHANGED varbind_count
  /\ UNCHANGED <<error_status, error_index, out, outerVars, ret, cur, bulk,
                 present, held, outbound>>

\* ... and set_value() is called, up to the first failure.
SetCommitVarbind ==
  /\ pc = "setCommit" /\ ~LoopEnds
  /\ NextInbound
  /\ SetLookup("commit")
  /\ UNCHANGED <<error_index, out, outerVars, ret, bulk, present, outbound>>

\* A failing set_value() of the first varbind has changed nothing.
\* (Mutated: nor has that of any other.)
CommitFailureOfNone == "commitFailed"
CommitFailure == IF varbind_count = 1 THEN "commitFailed" ELSE "undoFailed"

SetCommit ==
  /\ pc = "commit"
  /\ IF Mib[cur].set
     THEN written' = Append(written, cur) /\ UNCHANGED error_status
     ELSE error_status' = CommitFailure /\ UNCHANGED written
  /\ Release
  /\ pc' = "setCommit"
  /\ UNCHANGED <<error_index, varbind_count, out, given, authFailures, reply, callbacks,
                 ret, cur, bulk, present, outbound>>

SetCommitEnd ==
  /\ pc = "setCommit" /\ LoopEnds
  /\ pc' = "complete"
  /\ UNCHANGED <<loopVars, outerVars, ret, cur, bulk, present, held, outbound>>

-----------------------------------------------------------------------------
(* snmp_complete_outbound_frame(), the answer and the callbacks.           *)

\* v1 has fewer error codes.
V1Status(status) ==
  CASE status = "noError" -> "noError"
    [] status \in Exceptions \cup NameErrors -> "noSuchName"
    [] status \in ValueErrors -> "badValue"
    [] OTHER -> "genErr"

\* (Mutated: exceptions are not mapped for SET.)
FinalStatusUnmapped == IF req.version = "v1" THEN V1Status(error_status) ELSE error_status

FinalStatus ==
  IF req.version = "v1" THEN V1Status(error_status)
  ELSE IF req.type = "set" /\ error_status \in Exceptions THEN "notWritable"
  ELSE error_status

\* (Mutated: the index of the next varbind.)
FinalIndexOfNext ==
  IF FinalStatus = "noError" THEN error_index
  ELSE IF FinalStatus = "tooBig" THEN 0 ELSE varbind_count + 1

FinalIndex ==
  IF FinalStatus = "noError" THEN error_index
  ELSE IF FinalStatus = "tooBig" THEN 0
  ELSE IF error_index = 0 THEN varbind_count
  ELSE error_index

\* The inbound varbinds are returned when there was an error and for SET.  There
\* is no response with an exception as status, nor with an index that does not
\* fit the one byte reserved for it.
Complete ==
  /\ pc = "complete"
  /\ error_status' = FinalStatus
  /\ error_index' = FinalIndex
  /\ out' = IF FinalStatus # "noError" \/ req.type = "set"
            THEN [i \in DOMAIN req.varbinds |->
                    [name |-> req.varbinds[i].name, val |-> "echo", size |-> 0]]
            ELSE out
  /\ pc' = IF FinalIndex > MaxErrorIndex \/ FinalStatus \in Exceptions THEN "free" ELSE "send"
  /\ UNCHANGED <<varbind_count, outerVars, ret, cur, bulk, present, held, outbound>>

\* (Mutated: after every SET.)
WriteCallbacksAfterAnySet == req.type = "set"
WriteCallbacksFollow == req.type = "set" /\ error_status = "noError"

\* snmp_sendto() sends the response or fails; after both, the callbacks follow.
Sent ==
  \/ reply' = Append(reply, [status |-> error_status, index |-> error_index, varbinds |-> out])
  \/ UNCHANGED reply

Send ==
  /\ pc = "send"
  /\ Sent
  /\ pc' = IF WriteCallbacksFollow THEN "callbacks" ELSE "free"
  /\ UNCHANGED <<loopVars, given, written, authFailures, callbacks, ret, cur, bulk,
                 present, held, outbound>>

\* snmp_execute_write_callbacks()
WriteCallbacks ==
  /\ pc = "callbacks"
  /\ callbacks' = [i \in DOMAIN req.varbinds |-> req.varbinds[i].name]
  /\ pc' = "free"
  /\ UNCHANGED <<loopVars, given, written, authFailures, reply, ret, cur, bulk,
                 present, held, outbound>>

Free ==
  /\ pc = "free"
  /\ outbound' = FALSE
  /\ pc' = "done"
  /\ UNCHANGED <<loopVars, outerVars, ret, cur, bulk, present, held>>

-----------------------------------------------------------------------------
\* Another thread of the application removes an instance.
Vanish ==
  /\ MibChanges /\ pc # "done"
  /\ \E o \in present : present' = present \ {o}
  /\ UNCHANGED <<loopVars, outerVars, pc, ret, cur, bulk, held, outbound>>

Receive ==
  \/ ParseBadCommunity \/ ParseV1Bulk \/ ParseAccept \/ InformVarbind \/ Prepare
  \/ ValidateVarbind \/ VarbindValue \/ MalformedVarbind
  \/ GetVarbind \/ GetBadVarbind \/ GetLoopEnd
  \/ BulkFirstVarbind \/ BulkFirstBadVarbind \/ BulkFirstEnd
  \/ BulkLoop \/ BulkInnerVarbind \/ BulkInnerHeader \/ BulkAfter \/ BulkInnerEnd
  \/ SetTestVarbind \/ SetTest \/ SetTestTooLong \/ SetTestEnd
  \/ SetCommitVarbind \/ SetCommit \/ SetCommitEnd
  \/ Complete \/ Send \/ WriteCallbacks \/ Free

Next == Receive \/ Vanish

Spec == Init /\ [][Next]_vars /\ WF_vars(Receive)

-----------------------------------------------------------------------------
(* Properties.                                                             *)

Phases == {"parse", "inform", "prepare", "get", "bulkFirst", "bulkLoop", "bulkInner",
           "bulkAfter", "setTest", "test", "setCommit", "commit", "validate", "value",
           "complete", "send", "callbacks", "free", "done"}
Varbinds == [name : Nat, val : {"value", "echo"} \cup Exceptions, size : Nat]

Bulks == [nonrep : Int, reps : Nat, off : Nat, first : Nat, next : Nat, last : Nat,
          allEnd : BOOLEAN]

\* The types of the variables.
TypeOK ==
  /\ snmp_community_write \in {"unset", "private"}
  /\ pc \in Phases /\ ret \in Phases
  /\ error_status \in Statuses /\ error_index \in Int
  /\ varbind_count \in 0 .. Len(req.varbinds)
  /\ cur \in DOMAIN Mib \cup {0} /\ present \subseteq DOMAIN Mib
  /\ out \in Seq(Varbinds)
  /\ bulk \in Bulks
  /\ held \in Nat /\ outbound \in BOOLEAN
  /\ written \in Seq(DOMAIN Mib)
  /\ authFailures \in Nat
  /\ Len(reply) <= 1

Names == [i \in DOMAIN req.varbinds |-> req.varbinds[i].name]

\* The error-index a manager puts into a request (RFC 1157, 4.1.2).  Any other one
\* comes back in the response in place of the index of the varbind at fault.
IndexIsZero == req.errorIndex = 0

\* What varbind i of a GET or GETNEXT is answered with, whatever the others are
\* (a reference definition, from the MIB alone).
Served(name, getNext) ==
  {o \in DOMAIN Mib : Reachable(o) /\ IF getNext THEN o > name ELSE o = name}
Answer(name, getNext) ==
  LET served == Served(name, getNext)
  IN  IF served = {}
      THEN [name |-> name, val |-> IF getNext THEN "endOfMibView" ELSE "noSuchInstance",
            size |-> 1]
      ELSE [name |-> Min(served), val |-> "value", size |-> Mib[Min(served)].size]

\* What is wrong with varbind i of a GET, GETNEXT or SET.
FailingLookup(name) == name \in DOMAIN Mib /\ Mib[name].lookup # "noError"
GetFault(vb, getNext) ==
  LET served == Served(vb.name, getNext)
  IN  IF vb.kind # "null" \/ (~getNext /\ FailingLookup(vb.name)) THEN "genErr"
      ELSE IF served = {} THEN IF req.version = "v1" THEN "noSuchName" ELSE "noError"
      ELSE IF Mib[Min(served)].get THEN "noError" ELSE "genErr"
SetFault(vb) ==
  IF vb.kind = "tooLong" THEN "wrongLength"
  ELSE IF vb.name \notin DOMAIN Mib THEN "noSuchInstance"
  ELSE IF FailingLookup(vb.name) THEN "genErr"
  ELSE TestResult(vb)
Fault(i) ==
  LET vb == req.varbinds[i]
  IN  IF req.type = "set" THEN SetFault(vb) ELSE GetFault(vb, req.type = "getNext")

\* Unless instances vanish meanwhile, so that there is no one answer, a GET or
\* GETNEXT is answered with noError only when every varbind of the request has
\* its answer, in the order of the request, and all of them fit; the index is the
\* one of the request.
GetAnswersEveryVarbind ==
  ~MibChanges => \A r \in ToSet(reply) :
    req.type \in {"get", "getNext"} /\ r.status = "noError" =>
      /\ r.varbinds = [i \in DOMAIN req.varbinds |->
                         Answer(req.varbinds[i].name, req.type = "getNext")]
      /\ \A i \in DOMAIN req.varbinds : Fault(i) = "noError"
      /\ Size(r.varbinds) <= Capacity
      /\ r.index = req.errorIndex

\* What is reported of a failure of a SET: the terms of the version.
ReportedStatus(status) ==
  IF req.version = "v1" THEN V1Status(status)
  ELSE IF status \in Exceptions THEN "notWritable" ELSE status

\* An error response to GET, GETNEXT or SET, if the index of the request was 0, names
\* the first varbind that cannot be served or could not be written, with the status
\* of that failure in the terms of the version; the index is 0 only for tooBig.  (A
\* SET that fails because all objects are read-only has index 0: the 1 of
\* snmp_parse_inbound_frame() does not survive.)
ErrorNamesFirstFailure ==
  ~MibChanges => \A r \in ToSet(reply) :
    req.type \in {"get", "getNext", "set"} /\ r.status # "noError"
      /\ ~AllReadOnly /\ IndexIsZero =>
      LET faults == {i \in DOMAIN req.varbinds : Fault(i) # "noError"}
          unwritable == {i \in DOMAIN req.varbinds : ~Mib[Names[i]].set}
          overflow == {i \in DOMAIN req.varbinds :
            Size([j \in 1 .. i |-> Answer(Names[j], req.type = "getNext")]) > Capacity}
      IN  CASE r.index = 0 -> r.status = "tooBig"
            [] req.type = "set" /\ r.index # 0 ->
                 /\ r.index = Min(IF faults # {} THEN faults ELSE unwritable)
                 /\ r.status = ReportedStatus(
                      IF faults # {} THEN Fault(r.index)
                      ELSE IF r.index = 1 THEN "commitFailed" ELSE "undoFailed")
            [] OTHER ->
                 /\ r.index = Min(faults \cup overflow)
                 /\ r.status = IF r.index \in faults THEN Fault(r.index) ELSE "genErr"

\* A response in v1 has an error status of v1, no exception in a varbind and no
\* Counter64; in v2c no exception becomes the error status (RFC 2089).
ResponseFitsVersion ==
  \A r \in ToSet(reply) :
    IF req.version = "v1"
    THEN /\ r.status \in V1Statuses
         /\ \A vb \in ToSet(r.varbinds) :
              vb.val \notin Exceptions /\ (vb.val = "value" => Mib[vb.name].type # "counter64")
    ELSE r.status \notin Exceptions

\* GETBULK: the first N varbinds are answered once, the other R up to
\* max-repetitions times (RFC 1905, 4.2.3; a reference definition).
N == Min({req.nonRepeaters, Len(req.varbinds)})
R == Len(req.varbinds) - N

\* The name reached from name in k steps, and varbind p of an unlimited response.
NameAfter(name, steps) ==
  LET after[k \in 0 .. steps] == IF k = 0 THEN name ELSE Answer(after[k - 1], TRUE).name
  IN  after[steps]
BulkVarbind(p) ==
  IF p <= N THEN Answer(Names[p], TRUE)
  ELSE LET q == p - N - 1
       IN  Answer(NameAfter(Names[N + 1 + (q % R)], q \div R), TRUE)

\* The response to a GETBULK is a prefix of that answer, and it only stops short
\* of max-repetitions when the next varbind does not fit or when a whole
\* repetition was past the end of the MIB.
BulkAnswerIsMaximalPrefix ==
  ~MibChanges => \A r \in ToSet(reply) :
    req.type = "getBulk" /\ r.status = "noError" =>
      LET n == Len(r.varbinds)
          asked == N + R * req.maxRepetitions
      IN  /\ n <= asked
          /\ \A p \in 1 .. n : r.varbinds[p] = BulkVarbind(p)
          /\ n < asked =>
               \/ Size(r.varbinds) + BulkVarbind(n + 1).size > Capacity
               \/ n >= N + R /\ \A p \in n - R + 1 .. n : r.varbinds[p].val = "endOfMibView"

\* A SET that reports no error has written every varbind, in order.  One that
\* reports an error has written nothing, or names the varbind behind those it has
\* written and says that it could not undo them -- but where the instance of that
\* varbind has vanished since set_test(): it then says that it is not writable.
SetAllOrReported ==
  \A r \in ToSet(reply) : req.type = "set" =>
    /\ r.status = "noError" => written = Names
    /\ r.status # "noError" /\ written # <<>> =>
         /\ \/ r.status = IF req.version = "v1" THEN "genErr" ELSE "undoFailed"
            \/ MibChanges /\ r.status = IF req.version = "v1" THEN "noSuchName" ELSE "notWritable"
         /\ IndexIsZero => r.index = Len(written) + 1

\* The application's write callback hears of a SET only when every varbind of it
\* is written, and then of every varbind in order.  What it hears agrees with what
\* the manager was told, if anything was sent: of a SET reported as done it has
\* heard, and of no other one.
CallbacksAfterFullSet ==
  req.type = "set" =>
    /\ callbacks # <<>> =>
         /\ callbacks = Names /\ written = Names
         /\ \A r \in ToSet(reply) : r.status = "noError"
    /\ pc = "done" => \A r \in ToSet(reply) : r.status = "noError" => callbacks = Names

\* Nothing is written but by a SET with the write community, and never when that
\* community is empty; a request refused for its community has no other effect
\* than the one trap.
OnlyAuthorizedWrites ==
  /\ written # <<>> => req.type = "set" /\ req.community = snmp_community_write
                         /\ snmp_community_write # "unset"
  /\ authFailures # 0 => authFailures = 1 /\ ~outbound /\ written = <<>> /\ reply = <<>>

\* When the request is done, whichever way, the response buffer is freed and the
\* instances looked up in the MIB are released.
NothingLeaked == pc = "done" => ~outbound /\ held = 0

\* The varbinds of the request can be counted in one byte, and so can the first
\* repeater of a GETBULK, which may lie behind them.
IndexFits ==
  IF req.type = "getBulk" THEN req.nonRepeaters + Len(req.varbinds) < MaxErrorIndex
                          ELSE Len(req.varbinds) <= MaxErrorIndex

\* A request that was processed to its end, its objects maybe written, gets to
\* snmp_sendto(): completing the response fails for none but those with more
\* varbinds than the one byte of the error index can count.
ProcessedIsAnswered == [][pc = "complete" /\ IndexIsZero /\ IndexFits => pc' # "free"]_vars

\* Whatever the request, the agent is done with it in the end; answers to informs
\* apart (see AnswerToInformEnds).
Termination == req.type # "getResp" => <>(pc = "done")

\* The parsing of an answer to an inform ends ("stop further handling of GET
\* RESP PDU, we are an agent").
AnswerToInformEnds == req.type = "getResp" => <>(pc = "done")

-----------------------------------------------------------------------------
(* The inductive invariant of the proofs.                                  *)

\* An instance is held only between its lookup and its release, from where a
\* loop goes on; the response exists from Prepare to Free.
Holding == {"validate", "value", "test", "commit"}
HeldInv ==
  /\ held = IF pc \in Holding THEN 1 ELSE 0
  /\ pc = "validate" => ret = "get"
  /\ pc = "value" => ret \in {"get", "bulkFirst", "bulkAfter"}
  /\ outbound => pc \notin {"parse", "inform", "prepare", "done"}

\* Which phases a SET goes through, and what those behind the check of the
\* community rely on.
SetPhases == {"setTest", "test", "setCommit", "commit"}
AuthInv ==
  /\ req.type = "set" => pc \in SetPhases \cup {"parse", "prepare", "complete", "send",
                                                "callbacks", "free", "done"}
  /\ pc \in SetPhases \cup {"callbacks"} => req.type = "set"
  /\ pc = "prepare" => req.type # "getResp"
  /\ \/ pc \in SetPhases
     \/ pc = "prepare" /\ req.type = "set" /\ error_status = "noError"
     => req.community = snmp_community_write /\ snmp_community_write # "unset"
  /\ pc \in {"parse", "inform", "prepare", "setTest", "test"} => written = <<>>
  /\ pc \notin {"callbacks", "free", "done"} => reply = <<>>
  /\ authFailures # 0 => pc = "done"

\* The varbinds up to the i-th have passed a lookup.
LookedUp(i) ==
  \A j \in 1 .. i : Names[j] \in DOMAIN Mib /\ Mib[Names[j]].lookup = "noError"

\* Why a SET that has written something ends with an error.
UndoneBecause(undone, vanished) ==
  error_status = undone \/ (MibChanges /\ error_status = vanished)

\* What written says of the varbinds a SET has been through, up to its answer.
CommitInv ==
  /\ \A i \in DOMAIN written : i \in DOMAIN Names /\ written[i] = Names[i]
  /\ ~MibChanges => present = DOMAIN Mib
  /\ pc \in {"parse", "prepare"} => varbind_count = 0
  /\ pc \in SetPhases \cup {"prepare", "complete"} /\ req.type = "set" =>
       error_index = req.errorIndex
  /\ pc \in {"test", "commit"} =>
       error_status = "noError" /\ varbind_count > 0 /\ cur = Names[varbind_count]
  /\ pc \in {"setTest", "test"} /\ error_status = "noError" => LookedUp(varbind_count)
  /\ pc \in {"setCommit", "commit"} => LookedUp(Len(Names))
  /\ pc = "setCommit" /\ error_status = "noError" => Len(written) = varbind_count
  /\ pc = "commit" => Len(written) = varbind_count - 1
  /\ pc \in {"setCommit", "complete"} /\ error_status # "noError" /\ written # <<>> =>
       UndoneBecause("undoFailed", "noSuchInstance") /\ varbind_count = Len(written) + 1
  /\ pc \in {"complete", "send"} /\ req.type = "set" /\ error_status = "noError" =>
       written = Names
  /\ pc = "send" /\ error_status # "noError" /\ written # <<>> =>
       /\ IF req.version = "v1" THEN UndoneBecause("genErr", "noSuchName")
                                ELSE UndoneBecause("undoFailed", "notWritable")
       /\ IndexIsZero => error_index = Len(written) + 1
  /\ pc = "callbacks" => written = Names /\ \A r \in ToSet(reply) : r.status = "noError"
  /\ req.type = "set" /\ pc \notin {"free", "done"} => callbacks = <<>>
  /\ req.type = "set" /\ pc = "free" =>
       \A r \in ToSet(reply) : r.status = "noError" => callbacks = Names

\* A repetition of GETBULK enumerates varbinds that are in the response.
BulkInv ==
  /\ pc \in Holding => cur \in DOMAIN Mib
  /\ pc \in {"bulkInner", "bulkAfter"} \/ (pc = "value" /\ ret = "bulkAfter") =>
       /\ bulk.reps > 0
       /\ bulk.first <= bulk.next /\ bulk.last <= Len(out)

IInv ==
  /\ TypeOK
  /\ HeldInv /\ AuthInv /\ CommitInv /\ BulkInv
  /\ SetAllOrReported /\ CallbacksAfterFullSet /\ OnlyAuthorizedWrites
=============================================================================
