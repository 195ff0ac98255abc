----------------------------- MODULE ThreadSync -----------------------------
(***************************************************************************)
(* Nodes whose methods run in another thread: src/snmp_threadsync.c.  A    *)
(* node stands for a target node; a call for it leaves its arguments in    *)
(* the data of the instance all such nodes share, has a function run in    *)
(* the target's thread (sync_fn), waits for the semaphore and reads the    *)
(* result.  The sessions are the threads that process requests; nothing    *)
(* but the mutex keeps them apart.                                         *)
(***************************************************************************)
EXTENDS Naturals, Sequences, FiniteSets

CONSTANTS
  Sessions,     \* threads that process requests
  SyncNodes,    \* bound: the nodes: [oid, target, found, methods]: the arc of the node,
                \* that of its target, the instances the target has (numbers), and which
                \* of get_value, set_test, set_value, release_instance they have
  SyncOids,     \* bound: the instances asked for, numbers
  MaxCalls,     \* bound: the calls of each session
  NoSession     \* no session

\* The node of a proxy instance that has been cleared.
NoNode == [oid |-> 0, target |-> 0, found |-> {}, methods |-> {}]

ASSUME ThreadSyncAssumption ==
  /\ NoSession \notin Sessions
  /\ NoNode \notin SyncNodes
  /\ SyncOids \subseteq Nat /\ \A n \in SyncNodes : n.found \subseteq SyncOids
  /\ MaxCalls \in [Sessions -> Nat]

VARIABLES
  data,      \* struct threadsync_data: the proxy instance, the arguments, the result
  mutex,     \* sem_usage_mutex: the session that holds it, or NoSession
  sem,       \* the value of sem
  posted,    \* functions the target's thread has to run, in order
  begun,     \* what the first of them has read so far, or NotBegun
  session,   \* a session's call, where it is, and the node instance it works on
  fault      \* the target's thread has gone through a null pointer, which ends all

syncVars == <<data, mutex, sem, posted, begun, session, fault>>

NoneHeld == [node |-> NoNode, oid |-> 0, methods |-> {}]
SearchOps == {"get_instance", "get_next_instance"}
MethodOps == {"get_value", "set_test", "set_value"}
NotBegun == [started |-> FALSE, leaf |-> NoNode, has |-> FALSE]
NoCall == [op |-> "none", node |-> NoNode, oid |-> 0]
\* arg1 is a union: the OID looked up, or where the value is, a session's buffer.
RootOid(oid) == <<"root_oid", oid>>
ValueAt(s) == <<"value", s>>

SyncInit ==
  /\ data = [proxy |-> NoneHeld, arg1 |-> RootOid(0), retval |-> "NOERROR"]
  /\ mutex = NoSession /\ sem = 0 /\ posted = <<>>
  /\ begun = NotBegun /\ fault = FALSE
  /\ session = [s \in Sessions |->
       [pc |-> "idle", calls |-> 0, call |-> NoCall, held |-> NoneHeld,
        alone |-> FALSE, ran |-> FALSE, value |-> <<>>, result |-> "none"]]

-----------------------------------------------------------------------------
(* The functions the target's thread runs: what becomes of the proxy       *)
(* instance and the result.                                                *)

Behind(node, oid) == {o \in node.found : o > oid}
LeastOf(S) == CHOOSE o \in S : \A p \in S : o <= p

\* leaf->get_instance() and get_next_instance() of the target: what they find.
FoundBy(op, node, oid) ==
  IF op = "get_instance" THEN {oid} \cap node.found
  ELSE IF Behind(node, oid) = {} THEN {} ELSE {LeastOf(Behind(node, oid))}

\* get_instance_synced(), get_next_instance_synced(), for the node they have read.
LookedUp(op, d, leaf, root_oid) ==
  LET found == FoundBy(op, leaf, root_oid)
  IN  IF found = {} THEN [d EXCEPT !.retval = "NOSUCHINSTANCE"]
      ELSE [d EXCEPT !.retval = "NOERROR", !.proxy.oid = LeastOf(found),
                     !.proxy.methods = leaf.methods]

\* threadsync_get_value_synced(), threadsync_set_test_synced() and
\* threadsync_set_value_synced(), when there is such a method or not.
\* threadsync_release_instance_synced() has no result.
CallMethod(op, d, has) ==
  CASE op = "get_value" -> [d EXCEPT !.retval = IF has THEN "length" ELSE "-1"]
    [] op \in {"set_test", "set_value"} ->
         [d EXCEPT !.retval = IF has THEN "NOERROR" ELSE "NOTWRITABLE"]
    [] op = "release_instance" -> d

ValueOf(instance) == <<instance.node.target, instance.oid>>

-----------------------------------------------------------------------------
Goes(s, pc) == session' = [session EXCEPT ![s].pc = pc]
Idle(s) == session[s].pc = "idle" /\ session[s].calls < MaxCalls[s]
Busy(s) == session[s].pc # "idle" \/ session[s].held # NoneHeld

\* The call of a session as it begins.  A lookup begins a stretch in which the
\* session is alone, until another session calls.
Begun(s, op, node, oid, pc) ==
  session' = [t \in Sessions |->
    IF t # s THEN [session[t] EXCEPT !.alone = FALSE]
    ELSE [session[s] EXCEPT !.pc = pc, !.calls = @ + 1, !.ran = FALSE, !.value = <<>>,
            !.call = [op |-> op, node |-> node, oid |-> oid], !.result = "none",
            !.alone = IF op \in SearchOps THEN \A o \in Sessions \ {s} : ~Busy(o) ELSE @]]

\* do_sync() up to call_synced_function(), before the mutex is locked: the proxy
\* instance is cleared, and then assigned what is looked up.
Lookup(s, op, node, oid) ==
  /\ Idle(s) /\ session[s].held = NoneHeld
  /\ node.oid = node.target
  /\ data' = [data EXCEPT !.proxy = NoneHeld]
  /\ Begun(s, op, node, oid, "assign")
  /\ UNCHANGED <<mutex, sem, posted, begun, fault>>

Assign(s) ==
  /\ session[s].pc = "assign"
  /\ data' = [data EXCEPT !.proxy.node = session[s].call.node, !.proxy.oid = session[s].call.oid,
                         !.arg1 = RootOid(session[s].call.oid)]
  /\ Goes(s, "lock")
  /\ UNCHANGED <<mutex, sem, posted, begun, fault>>

\* A node whose arc is not the one of its target is refused.
LookupRefused(s, op, node, oid) ==
  /\ Idle(s) /\ session[s].held = NoneHeld
  /\ node.oid # node.target
  /\ session' = [session EXCEPT ![s].calls = @ + 1, ![s].result = "NOSUCHINSTANCE",
                                ![s].call = [op |-> op, node |-> node, oid |-> oid]]
  /\ UNCHANGED <<data, mutex, sem, posted, begun, fault>>

\* threadsync_get_value(), threadsync_set_test(), threadsync_set_value()
Method(s, op) ==
  /\ Idle(s) /\ op \in session[s].held.methods
  /\ data' = [data EXCEPT !.arg1 = ValueAt(s)]
  /\ Begun(s, op, session[s].held.node, session[s].held.oid, "lock")
  /\ UNCHANGED <<mutex, sem, posted, begun, fault>>

\* threadsync_release_instance()
Releases(s, pc) ==
  /\ Idle(s) /\ session[s].held # NoneHeld
  /\ Begun(s, "release_instance", session[s].held.node, session[s].held.oid, pc)
  /\ UNCHANGED <<data, mutex, sem, posted, begun, fault>>
Release(s) ==
  Releases(s, IF "release_instance" \in data.proxy.methods THEN "lock" ELSE "return")

\* call_synced_function(), step by step.
\* (Mutated: the mutex is not looked at.)
LockAnyway(s) ==
  /\ session[s].pc = "lock"
  /\ mutex' = s
  /\ Goes(s, "post")
  /\ UNCHANGED <<data, sem, posted, begun, fault>>
Lock(s) ==
  /\ session[s].pc = "lock" /\ mutex = NoSession
  /\ mutex' = s
  /\ Goes(s, "post")
  /\ UNCHANGED <<data, sem, posted, begun, fault>>

\* sync_fn() has the function run in the target's thread.
Post(s) ==
  /\ session[s].pc = "post"
  /\ Goes(s, "wait")
  /\ posted' = Append(posted, [op |-> session[s].call.op, by |-> s])
  /\ UNCHANGED <<data, mutex, sem, begun, fault>>

\* (Mutated: nothing is signalled for an instance that is not there.)
SignalledIfFound(d) == IF d.retval = "NOSUCHINSTANCE" THEN sem ELSE sem + 1
Signalled(d) == sem + 1

\* The target's thread first reads the node, or whether there is the method.
Begin ==
  /\ posted # <<>> /\ ~begun.started
  /\ begun' = [started |-> TRUE, leaf |-> data.proxy.node,
                has |-> Head(posted).op \in data.proxy.methods]
  /\ UNCHANGED <<data, mutex, sem, posted, session, fault>>

\* Then it calls the function, which may be missing: a lookup may have read no node, and
\* a method may have been cleared since it was seen here or, for release_instance, in
\* threadsync_release_instance().
Missing(op) ==
  \/ op \in SearchOps /\ begun.leaf = NoNode
  \/ op \in MethodOps /\ begun.has /\ op \notin data.proxy.methods
  \/ op = "release_instance" /\ op \notin data.proxy.methods
NullCall ==
  /\ begun.started /\ Missing(Head(posted).op)
  /\ fault' = TRUE
  /\ UNCHANGED <<data, mutex, sem, posted, begun, session>>

\* Another session may have changed the arguments meanwhile: what is read as an OID may
\* be a value, and a value may be written elsewhere.  The pointer to a method may be
\* the one that was seen, when the compiler has kept it.
RootOids == IF data.arg1[1] = "root_oid" THEN {data.arg1[2]} ELSE SyncOids
Execute ==
  /\ begun.started
  /\ Missing(Head(posted).op) => Head(posted).op \in MethodOps
  /\ \E root_oid \in RootOids :
     LET f == Head(posted)
         after == IF f.op \in SearchOps THEN LookedUp(f.op, data, begun.leaf, root_oid)
                  ELSE CallMethod(f.op, data, begun.has)
         into == {s \in Sessions : f.op = "get_value" /\ begun.has /\ data.arg1 = ValueAt(s)}
     IN  /\ data' = after
         /\ sem' = Signalled(after)
         /\ session' = [s \in Sessions |->
              [session[s] EXCEPT !.ran = @ \/ s = f.by,
                                 !.value = IF s \in into THEN ValueOf(data.proxy) ELSE @]]
  /\ posted' = Tail(posted)
  /\ begun' = NotBegun
  /\ UNCHANGED <<mutex, fault>>

Wake(s) ==
  /\ session[s].pc = "wait" /\ sem > 0
  /\ sem' = sem - 1
  /\ Goes(s, "unlock")
  /\ UNCHANGED <<data, mutex, posted, begun, fault>>

Unlock(s) ==
  /\ session[s].pc = "unlock"
  /\ mutex' = NoSession
  /\ Goes(s, "return")
  /\ UNCHANGED <<data, sem, posted, begun, fault>>

\* What the caller takes from the shared data once the mutex is unlocked.
HeldAfter(s) ==
  CASE session[s].call.op \in SearchOps ->
         IF data.retval # "NOERROR" THEN NoneHeld
         ELSE [node |-> session[s].call.node, oid |-> data.proxy.oid,
               methods |-> data.proxy.methods]
    [] session[s].call.op = "release_instance" -> NoneHeld
    [] OTHER -> session[s].held
Return(s) ==
  /\ session[s].pc = "return"
  /\ session' = [session EXCEPT ![s].pc = "idle", ![s].held = HeldAfter(s),
       ![s].result = IF session[s].call.op = "release_instance" THEN "released"
                     ELSE data.retval]
  /\ UNCHANGED <<data, mutex, sem, posted, begun, fault>>

SessionStep(s) == Assign(s) \/ Lock(s) \/ Post(s) \/ Wake(s) \/ Unlock(s) \/ Return(s)
Call(s) ==
  \/ \E op \in SearchOps, node \in SyncNodes, oid \in SyncOids :
       Lookup(s, op, node, oid) \/ LookupRefused(s, op, node, oid)
  \/ \E op \in MethodOps : Method(s, op)
  \/ Release(s)

TargetStep == Begin \/ NullCall \/ Execute

SyncStep == ~fault /\ (TargetStep \/ \E s \in Sessions : SessionStep(s) \/ Call(s))

SyncFairness ==
  /\ WF_syncVars(~fault /\ TargetStep)
  /\ \A s \in Sessions : WF_syncVars(~fault /\ SessionStep(s))

-----------------------------------------------------------------------------
\* What the target answers to a call, and the value it has for it.
Answer(s) ==
  LET c == session[s].call
      found == FoundBy(c.op, c.node, c.oid)
  IN  IF c.op \notin SearchOps THEN TRUE
      ELSE IF c.node.oid # c.node.target \/ found = {}
      THEN session[s].result = "NOSUCHINSTANCE" /\ session[s].held = NoneHeld
      ELSE /\ session[s].result = "NOERROR"
           /\ session[s].held = [node |-> c.node, oid |-> LeastOf(found),
                                 methods |-> c.node.methods]
ValueAnswered(s) ==
  session[s].call.op = "get_value" =>
    /\ session[s].result = "length"
    /\ session[s].value = <<session[s].call.node.target, session[s].call.oid>>

\* Nothing is called through a pointer that is not there, and no node is missing, unless
\* sessions overlap: the clearing at snmp_threadsync.c:183, outside the mutex, is never
\* seen by the function of a session no other one called in between.
AloneNeverFaults == fault => mutex \in Sessions /\ ~session[mutex].alone

\* A call that waited for the target's thread goes on only after its own function has
\* run, never at the signal of another one, also when sessions overlap; and a session
\* no other one called in between has the target's answer and the value of the
\* instance it asked for, and meets no cleared pointer, although the data are shared by
\* all nodes and sessions (do_sync(), call_synced_function(), threadsync_get_value()).
OwnAnswer ==
  /\ \A s \in Sessions :
       /\ session[s].pc \in {"unlock", "return"} =>
            session[s].ran \/ session[s].call.op = "release_instance"
       /\ session[s].pc = "idle" /\ session[s].alone => Answer(s) /\ ValueAnswered(s)
  /\ AloneNeverFaults

\* A call returns, unless the target's thread has faulted: no session waits for a signal
\* that does not come, or for the mutex of one that does, however sessions overlap
\* (call_synced_function()).
EveryCallReturns ==
  \A s \in Sessions : session[s].pc # "idle" ~> (session[s].pc = "idle" \/ fault)
=============================================================================
