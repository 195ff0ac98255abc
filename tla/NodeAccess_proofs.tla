------------------------- MODULE NodeAccess_proofs -------------------------
(***************************************************************************)
(* Proofs about NodeAccess: the nodes of another thread, for every number  *)
(* of sessions, nodes and calls.                                           *)
(***************************************************************************)
EXTENDS NodeAccess, WellFoundedInduction, TLAPS

-----------------------------------------------------------------------------
(* The inductive invariant.                                                *)

Nodes == SyncNodes \cup {NoNode}
Oids == SyncOids \cup {0}
Methods == {n.methods : n \in Nodes}
NodeInstances == [node : Nodes, oid : Oids, methods : Methods]
Ops == SearchOps \cup MethodOps \cup {"release_instance"}
Calls == [op : Ops \cup {"none"}, node : Nodes, oid : Oids]
Values == {<<>>} \cup {ValueOf(i) : i \in NodeInstances}
Results == {"none", "released", "NOERROR", "NOSUCHINSTANCE", "NOTWRITABLE", "length", "-1"}

Pcs == {"idle", "assign", "lock", "post", "wait", "unlock", "return"}

SessionTyped(r) ==
  r \in [pc : Pcs, calls : Nat, call : Calls,
         held : NodeInstances, alone : BOOLEAN, ran : BOOLEAN, value : Values, result : Results]

SyncTyped ==
  /\ data \in [proxy : NodeInstances, retval : Results,
               arg1 : {RootOid(o) : o \in Oids} \cup {ValueAt(s) : s \in Sessions}]
  /\ mutex \in Sessions \cup {NoSession}
  /\ sem \in {0, 1}
  /\ posted \in Seq([op : Ops, by : Sessions])
  /\ DOMAIN session = Sessions /\ session = [s \in Sessions |-> session[s]]
  /\ \A s \in Sessions : SessionTyped(session[s])
  /\ \A s \in Sessions : session[s].pc # "idle" => session[s].call.op \in Ops
  /\ begun.leaf \in Nodes

\* The mutex is held from the lock to the unlock, by one session.
MutexHeld ==
  \A s \in Sessions : session[s].pc \in {"post", "wait", "unlock"} <=> mutex = s

\* At most one function is posted or has signalled: that of the session that waits.
OnePosted ==
  /\ posted # <<>> =>
       /\ mutex \in Sessions /\ session[mutex].pc = "wait" /\ ~session[mutex].ran
       /\ posted = <<[op |-> session[mutex].call.op, by |-> mutex]>>
       /\ sem = 0
  /\ sem # 0 => mutex \in Sessions /\ session[mutex].pc = "wait" /\ session[mutex].ran
  /\ begun.started => posted # <<>>

\* No session is past its call before its function has run, or has run it before it
\* was posted.
RunOnce ==
  \A s \in Sessions :
    /\ session[s].pc \in {"assign", "lock", "post"} => ~session[s].ran
    /\ session[s].pc \in {"unlock", "return"} =>
         session[s].ran \/ session[s].call.op = "release_instance"

\* The data of a lookup that no other session disturbs.
SearchStage(s) ==
  LET c == session[s].call
      found == FoundBy(c.op, c.node, c.oid)
  IN  /\ session[s].held = NoneHeld
      /\ c.node \in SyncNodes /\ c.node.oid = c.node.target
      /\ session[s].pc # "assign" =>
           /\ data.proxy.node = c.node
           /\ ~session[s].ran => data.arg1 = RootOid(c.oid)
      /\ session[s].pc = "wait" /\ begun.started => begun.leaf = c.node
      /\ session[s].ran =>
           IF found = {} THEN data.retval = "NOSUCHINSTANCE"
           ELSE /\ data.retval = "NOERROR" /\ data.proxy.oid = LeastOf(found)
                /\ data.proxy.methods = c.node.methods

\* The data of a method that no other session disturbs.
MethodStage(s) ==
  LET c == session[s].call
  IN  /\ session[s].held = data.proxy
      /\ c.op \in data.proxy.methods /\ c.node = data.proxy.node /\ c.oid = data.proxy.oid
      /\ ~session[s].ran => data.arg1 = ValueAt(s)
      /\ session[s].pc = "wait" /\ begun.started => begun.has
      /\ session[s].ran /\ c.op = "get_value" =>
           data.retval = "length" /\ session[s].value = <<c.node.target, c.oid>>

\* A release that no other session disturbs has its method.
ReleaseStage(s) ==
  session[s].pc \in {"lock", "post", "wait"} => "release_instance" \in data.proxy.methods

Stage(s) ==
  /\ session[s].pc = "idle" =>
       /\ Answer(s) /\ ValueAnswered(s)
       /\ session[s].held \in {NoneHeld, data.proxy}
  /\ session[s].pc = "assign" => session[s].call.op \in SearchOps
  /\ session[s].pc # "idle" /\ session[s].call.op \in SearchOps => SearchStage(s)
  /\ session[s].pc # "idle" /\ session[s].call.op \in MethodOps => MethodStage(s)
  /\ session[s].pc # "idle" /\ session[s].call.op = "release_instance" => ReleaseStage(s)

AloneUndisturbed ==
  \A s \in Sessions : session[s].alone =>
    /\ \A o \in Sessions \ {s} : ~Busy(o)
    /\ Stage(s)

SyncIInv == SyncTyped /\ MutexHeld /\ OnePosted /\ RunOnce /\ AloneUndisturbed

-----------------------------------------------------------------------------
(* Lemmas about the operators.                                             *)

\* A set of instances has a least one.
LEMMA LeastOfIsMember ==
  ASSUME NEW S \in SUBSET Nat, S # {}
  PROVE  LeastOf(S) \in S
<1> DEFINE R == {ss \in Nat \X Nat : ss[1] < ss[2]}
<1>1. IsWellFoundedOn(R, Nat)
  BY NatLessThanWellFounded, Zenon DEF OpToRel
<1>2. \E x \in S : \A y \in S : ~ (<<y, x>> \in R)
  BY <1>1, WFMin
<1>3. \A x \in Nat, y \in Nat : <<y, x>> \in R <=> y < x
  OBVIOUS
<1>4. PICK x \in S : \A y \in S : ~ (y < x)
  BY <1>2, <1>3
<1>5. \A y \in S : x <= y
  BY <1>4
<1> QED
  BY <1>5 DEF LeastOf

\* A lookup finds at most one instance, of those the target has.
LEMMA FoundIsInstance ==
  ASSUME NEW op, NEW node \in Nodes, NEW oid \in Oids
  PROVE  LET found == FoundBy(op, node, oid)
         IN  found # {} => LeastOf(found) \in Oids
<1>1. node.found \subseteq SyncOids /\ SyncOids \subseteq Nat
  BY ThreadSyncAssumption DEF Nodes, NoNode
<1>2. CASE op = "get_instance"
  <2>1. FoundBy(op, node, oid) \subseteq SyncOids
    BY <1>1, <1>2 DEF FoundBy
  <2> QED
    BY <1>1, <2>1, LeastOfIsMember DEF Oids
<1>3. CASE op # "get_instance"
  <2>1. Behind(node, oid) \subseteq SyncOids
    BY <1>1 DEF Behind
  <2>2. FoundBy(op, node, oid) \subseteq SyncOids
    BY <1>1, <1>3, <2>1, LeastOfIsMember DEF FoundBy
  <2> QED
    BY <1>1, <2>2, LeastOfIsMember DEF Oids
<1> QED
  BY <1>2, <1>3

\* What a step of a session changes of the sessions.
LEMMA GoesChanges ==
  ASSUME SyncTyped, NEW s \in Sessions, NEW pc \in Pcs, Goes(s, pc)
  PROVE  /\ DOMAIN session' = Sessions /\ session' = [t \in Sessions |-> session'[t]]
         /\ \A t \in Sessions \ {s} : session'[t] = session[t]
         /\ session'[s] = [session[s] EXCEPT !.pc = pc]
         /\ SessionTyped(session'[s])
<1>1. /\ DOMAIN session' = Sessions /\ session' = [t \in Sessions |-> session'[t]]
      /\ \A t \in Sessions \ {s} : session'[t] = session[t]
      /\ session'[s] = [session[s] EXCEPT !.pc = pc]
  BY DEF SyncTyped, Goes
<1>2. SessionTyped(session[s])
  BY DEF SyncTyped
<1>3. SessionTyped(session'[s])
  BY <1>1, <1>2 DEF SessionTyped
<1> QED
  BY <1>1, <1>3

\* A step of a session within its call keeps the types when the data stay.
LEMMA GoesKeepsTypes ==
  ASSUME SyncTyped, NEW s \in Sessions, NEW pc \in Pcs, session[s].pc # "idle",
         Goes(s, pc), begun' = begun,
         data' = data \/ data' \in [proxy : NodeInstances, retval : Results,
                    arg1 : {RootOid(o) : o \in Oids} \cup {ValueAt(t) : t \in Sessions}],
         mutex' \in Sessions \cup {NoSession}, sem' \in {0, 1},
         posted' \in Seq([op : Ops, by : Sessions])
  PROVE  SyncTyped'
<1>1. /\ DOMAIN session' = Sessions /\ session' = [t \in Sessions |-> session'[t]]
      /\ \A t \in Sessions \ {s} : session'[t] = session[t]
      /\ session'[s] = [session[s] EXCEPT !.pc = pc]
      /\ SessionTyped(session'[s])
  BY GoesChanges
<1>2. \A t \in Sessions : SessionTyped(session'[t])
  BY <1>1 DEF SyncTyped
<1>3. SessionTyped(session[s]) /\ session[s].call.op \in Ops
  BY DEF SyncTyped
<1>4. session'[s].call = session[s].call
  BY <1>1, <1>3 DEF SessionTyped
<1>5. \A t \in Sessions : session'[t].pc # "idle" => session'[t].call.op \in Ops
  BY <1>1, <1>3, <1>4 DEF SyncTyped
<1> QED
  BY <1>1, <1>2, <1>5 DEF SyncTyped

\* A step of a session within its call disturbs no session that is alone.
LEMMA GoesKeepsAlone ==
  ASSUME SyncTyped, AloneUndisturbed, NEW s \in Sessions, NEW pc \in {"post", "wait", "unlock", "return"},
         session[s].pc \in {"lock", "post", "wait", "unlock"}, Goes(s, pc),
         UNCHANGED <<data, begun>>,
         pc \in {"post", "wait"} => session[s].pc \in {"lock", "post"} /\ ~begun.started
  PROVE  AloneUndisturbed'
<1>1. /\ \A t \in Sessions \ {s} : session'[t] = session[t]
      /\ session'[s] = [session[s] EXCEPT !.pc = pc]
  BY GoesChanges DEF Pcs
<1>2. SessionTyped(session[s])
  BY DEF SyncTyped
<1>3. /\ session'[s].pc = pc /\ session'[s].call = session[s].call
      /\ session'[s].held = session[s].held /\ session'[s].ran = session[s].ran
      /\ session'[s].value = session[s].value /\ session'[s].alone = session[s].alone
  BY <1>1, <1>2 DEF SessionTyped
<1> SUFFICES ASSUME NEW t \in Sessions, session'[t].alone
             PROVE  (\A o \in Sessions \ {t} : ~Busy(o)') /\ Stage(t)'
  BY DEF AloneUndisturbed
<1>4. session[t].alone
  BY <1>1, <1>3
<1>5. t = s
  BY <1>4 DEF AloneUndisturbed, Busy
<1>6. \A o \in Sessions \ {t} : ~Busy(o)'
  BY <1>1, <1>4, <1>5 DEF AloneUndisturbed, Busy
<1>7. Stage(s)
  BY <1>4, <1>5 DEF AloneUndisturbed
<1>8. session[s].call.op \in SearchOps => SearchStage(s)'
  BY <1>3, <1>7 DEF Stage, SearchStage
<1>9. session[s].call.op \in MethodOps => MethodStage(s)'
  BY <1>3, <1>7 DEF Stage, MethodStage
<1>10. session[s].call.op = "release_instance" => ReleaseStage(s)'
  BY <1>3, <1>7 DEF Stage, ReleaseStage
<1> QED
  BY <1>3, <1>5, <1>6, <1>8, <1>9, <1>10 DEF Stage

-----------------------------------------------------------------------------
(* call_synced_function().                                                 *)

\* The session that locks is the only one that holds the mutex; nothing is posted.
LEMMA LockKeeps ==
  ASSUME SyncIInv, NEW s \in Sessions, Lock(s)
  PROVE  SyncIInv'
<1> USE DEF SyncIInv, Lock
<1>1. /\ \A t \in Sessions \ {s} : session'[t] = session[t]
      /\ session'[s] = [session[s] EXCEPT !.pc = "post"]
  BY GoesChanges DEF Pcs
<1>2. SessionTyped(session[s])
  BY DEF SyncTyped
<1>3. /\ session'[s].pc = "post" /\ session'[s].call = session[s].call
      /\ session'[s].ran = session[s].ran
  BY <1>1, <1>2 DEF SessionTyped
<1>4. SyncTyped'
  <2>1. session[s].pc # "idle" /\ "post" \in Pcs /\ Goes(s, "post") /\ UNCHANGED <<data, begun>>
    BY DEF Lock, Pcs
  <2>2. mutex' \in Sessions \cup {NoSession} /\ sem' \in {0, 1}
    BY DEF Lock, SyncTyped
  <2>3. posted' \in Seq([op : Ops, by : Sessions])
    BY DEF Lock, SyncTyped
  <2> QED
    BY <2>1, <2>2, <2>3, GoesKeepsTypes
<1>5. MutexHeld'
  BY <1>1, <1>3, ThreadSyncAssumption DEF MutexHeld
<1>6. OnePosted'
  BY ThreadSyncAssumption DEF OnePosted
<1>7. RunOnce'
  <2> SUFFICES ASSUME NEW t \in Sessions
               PROVE  /\ session'[t].pc \in {"assign", "lock", "post"} => ~session'[t].ran
                      /\ session'[t].pc \in {"unlock", "return"} =>
                           session'[t].ran \/ session'[t].call.op = "release_instance"
    BY DEF RunOnce
  <2>1. CASE t = s
    BY <1>3, <2>1 DEF RunOnce
  <2>2. CASE t # s
    <3>1. session'[t] = session[t]
      BY <1>1, <2>2
    <3> QED
      BY <3>1 DEF RunOnce
  <2> QED
    BY <2>1, <2>2
<1>8. AloneUndisturbed'
  BY GoesKeepsAlone, ThreadSyncAssumption DEF OnePosted
<1> QED
  BY <1>4, <1>5, <1>6, <1>7, <1>8

\* A function is posted only by the holder of the mutex, so it is alone in the queue.
LEMMA PostKeeps ==
  ASSUME SyncIInv, NEW s \in Sessions, Post(s)
  PROVE  SyncIInv'
<1> USE DEF SyncIInv
<1>1. /\ \A t \in Sessions \ {s} : session'[t] = session[t]
      /\ session'[s] = [session[s] EXCEPT !.pc = "wait"]
  BY GoesChanges DEF Pcs, Post
<1>2. SessionTyped(session[s]) /\ session[s].call.op \in Ops
  BY DEF SyncTyped, Post
<1>3. /\ session'[s].pc = "wait" /\ session'[s].call = session[s].call
      /\ session'[s].ran = session[s].ran
  BY <1>1, <1>2 DEF SessionTyped
<1>4. mutex = s /\ posted = <<>> /\ sem = 0 /\ ~session[s].ran
  BY DEF MutexHeld, OnePosted, RunOnce, Post, SyncTyped
<1>5. posted' = <<>> \/ posted' = <<[op |-> session[s].call.op, by |-> s]>>
  BY <1>4 DEF Post
<1>6. SyncTyped'
  <2>1. session[s].pc # "idle" /\ "wait" \in Pcs /\ Goes(s, "wait") /\ UNCHANGED <<data, begun>>
    BY DEF Post, Pcs
  <2>2. mutex' \in Sessions \cup {NoSession} /\ sem' \in {0, 1}
    BY DEF Post, SyncTyped
  <2>3. posted' \in Seq([op : Ops, by : Sessions])
    <3>1. [op |-> session[s].call.op, by |-> s] \in [op : Ops, by : Sessions]
      BY <1>2
    <3>2. \A T, f : f \in T => <<>> \in Seq(T) /\ <<f>> \in Seq(T)
      OBVIOUS
    <3> QED
      BY <1>5, <3>1, <3>2, Zenon
  <2> QED
    BY <2>1, <2>2, <2>3, GoesKeepsTypes
<1>7. MutexHeld'
  BY <1>1, <1>3, <1>4 DEF MutexHeld, Post
<1>8. OnePosted'
  BY <1>3, <1>4, <1>5 DEF OnePosted, Post
<1>9. RunOnce'
  <2> SUFFICES ASSUME NEW t \in Sessions
               PROVE  /\ session'[t].pc \in {"assign", "lock", "post"} => ~session'[t].ran
                      /\ session'[t].pc \in {"unlock", "return"} =>
                           session'[t].ran \/ session'[t].call.op = "release_instance"
    BY DEF RunOnce
  <2>1. CASE t = s
    BY <1>3, <2>1 DEF RunOnce
  <2>2. CASE t # s
    <3>1. session'[t] = session[t]
      BY <1>1, <2>2
    <3> QED
      BY <3>1 DEF RunOnce
  <2> QED
    BY <2>1, <2>2
<1>10. AloneUndisturbed'
  BY <1>4, GoesKeepsAlone DEF OnePosted, Post
<1> QED
  BY <1>6, <1>7, <1>8, <1>9, <1>10

\* The signal a session wakes at is that of its own function.
LEMMA WakeKeeps ==
  ASSUME SyncIInv, NEW s \in Sessions, Wake(s)
  PROVE  SyncIInv'
<1> USE DEF SyncIInv
<1>1. /\ \A t \in Sessions \ {s} : session'[t] = session[t]
      /\ session'[s] = [session[s] EXCEPT !.pc = "unlock"]
  BY GoesChanges DEF Pcs, Wake
<1>2. SessionTyped(session[s])
  BY DEF SyncTyped
<1>3. /\ session'[s].pc = "unlock" /\ session'[s].call = session[s].call
      /\ session'[s].ran = session[s].ran
  BY <1>1, <1>2 DEF SessionTyped
<1>4. mutex = s /\ posted = <<>> /\ sem = 1 /\ session[s].ran
  BY DEF MutexHeld, OnePosted, Wake, SyncTyped
<1>5. sem' = 0
  BY <1>4 DEF Wake
<1>6. SyncTyped'
  <2>1. session[s].pc # "idle" /\ "unlock" \in Pcs /\ Goes(s, "unlock") /\ UNCHANGED <<data, begun>>
    BY DEF Wake, Pcs
  <2>2. mutex' \in Sessions \cup {NoSession} /\ sem' \in {0, 1}
    BY <1>5 DEF Wake, SyncTyped
  <2>3. posted' \in Seq([op : Ops, by : Sessions])
    BY DEF Wake, SyncTyped
  <2> QED
    BY <2>1, <2>2, <2>3, GoesKeepsTypes
<1>7. MutexHeld'
  BY <1>1, <1>3, <1>4 DEF MutexHeld, Wake
<1>8. OnePosted'
  BY <1>4, <1>5 DEF OnePosted, Wake
<1>9. RunOnce'
  <2> SUFFICES ASSUME NEW t \in Sessions
               PROVE  /\ session'[t].pc \in {"assign", "lock", "post"} => ~session'[t].ran
                      /\ session'[t].pc \in {"unlock", "return"} =>
                           session'[t].ran \/ session'[t].call.op = "release_instance"
    BY DEF RunOnce
  <2>1. CASE t = s
    BY <1>3, <1>4, <2>1 DEF RunOnce
  <2>2. CASE t # s
    <3>1. session'[t] = session[t]
      BY <1>1, <2>2
    <3> QED
      BY <3>1 DEF RunOnce
  <2> QED
    BY <2>1, <2>2
<1>10. AloneUndisturbed'
  BY GoesKeepsAlone DEF Pcs, Wake
<1> QED
  BY <1>6, <1>7, <1>8, <1>9, <1>10

\* Whoever unlocks has its own function behind it.
LEMMA UnlockKeeps ==
  ASSUME SyncIInv, NEW s \in Sessions, Unlock(s)
  PROVE  SyncIInv'
<1> USE DEF SyncIInv
<1>1. /\ \A t \in Sessions \ {s} : session'[t] = session[t]
      /\ session'[s] = [session[s] EXCEPT !.pc = "return"]
  BY GoesChanges DEF Pcs, Unlock
<1>2. SessionTyped(session[s])
  BY DEF SyncTyped
<1>3. /\ session'[s].pc = "return" /\ session'[s].call = session[s].call
      /\ session'[s].ran = session[s].ran
  BY <1>1, <1>2 DEF SessionTyped
<1>4. mutex = s /\ posted = <<>> /\ sem = 0
  BY DEF MutexHeld, OnePosted, Unlock, SyncTyped
<1>5. SyncTyped'
  <2>1. session[s].pc # "idle" /\ "return" \in Pcs /\ Goes(s, "return") /\ UNCHANGED <<data, begun>>
    BY DEF Unlock, Pcs
  <2>2. mutex' \in Sessions \cup {NoSession} /\ sem' \in {0, 1}
    BY DEF Unlock, SyncTyped
  <2>3. posted' \in Seq([op : Ops, by : Sessions])
    BY DEF Unlock, SyncTyped
  <2> QED
    BY <2>1, <2>2, <2>3, GoesKeepsTypes
<1>6. MutexHeld'
  BY <1>1, <1>3, <1>4, ThreadSyncAssumption DEF MutexHeld, Unlock
<1>7. OnePosted'
  BY <1>4 DEF OnePosted, Unlock
<1>8. RunOnce'
  <2> SUFFICES ASSUME NEW t \in Sessions
               PROVE  /\ session'[t].pc \in {"assign", "lock", "post"} => ~session'[t].ran
                      /\ session'[t].pc \in {"unlock", "return"} =>
                           session'[t].ran \/ session'[t].call.op = "release_instance"
    BY DEF RunOnce
  <2>1. CASE t = s
    BY <1>3, <2>1 DEF RunOnce, Unlock
  <2>2. CASE t # s
    <3>1. session'[t] = session[t]
      BY <1>1, <2>2
    <3> QED
      BY <3>1 DEF RunOnce
  <2> QED
    BY <2>1, <2>2
<1>9. AloneUndisturbed'
  BY GoesKeepsAlone DEF Pcs, Unlock
<1> QED
  BY <1>5, <1>6, <1>7, <1>8, <1>9

\* What the caller takes from the data has its type.
LEMMA HeldTyped ==
  ASSUME SyncTyped, NEW s \in Sessions
  PROVE  HeldAfter(s) \in NodeInstances
<1>1. SessionTyped(session[s]) /\ data.proxy \in NodeInstances
  BY DEF SyncTyped
<1>2. session[s].call.node \in Nodes /\ session[s].held \in NodeInstances
  BY <1>1 DEF SessionTyped, Calls
<1>3. NoneHeld \in NodeInstances
  <2>1. NoNode \in Nodes /\ NoNode.methods = {} /\ 0 \in Oids
    BY DEF Nodes, NoNode, Oids
  <2>2. {} \in Methods
    BY <2>1 DEF Methods
  <2> QED
    BY <2>1, <2>2 DEF NoneHeld, NodeInstances
<1>4. [node |-> session[s].call.node, oid |-> data.proxy.oid, methods |-> data.proxy.methods]
        \in NodeInstances
  BY <1>1, <1>2 DEF NodeInstances
<1> QED
  BY <1>2, <1>3, <1>4 DEF HeldAfter, SearchOps

\* A session no other one disturbed returns with the target's answer.
LEMMA ReturnKeeps ==
  ASSUME SyncIInv, NEW s \in Sessions, Return(s)
  PROVE  SyncIInv'
<1> USE DEF SyncIInv
<1> DEFINE result == IF session[s].call.op = "release_instance" THEN "released" ELSE data.retval
<1>1. /\ DOMAIN session' = Sessions /\ session' = [t \in Sessions |-> session'[t]]
      /\ \A t \in Sessions \ {s} : session'[t] = session[t]
      /\ session'[s] = [session[s] EXCEPT !.pc = "idle", !.held = HeldAfter(s), !.result = result]
  BY DEF Return, SyncTyped
<1>2. SessionTyped(session[s]) /\ session[s].call.op \in Ops
  BY DEF SyncTyped, Return
<1>3. /\ session'[s].pc = "idle" /\ session'[s].call = session[s].call
      /\ session'[s].ran = session[s].ran /\ session'[s].held = HeldAfter(s)
      /\ session'[s].result = result /\ session'[s].value = session[s].value
      /\ session'[s].alone = session[s].alone
  BY <1>1, <1>2 DEF SessionTyped
<1>4. SyncTyped'
  <2>1. result \in Results
    BY DEF SyncTyped, Results
  <2>2. SessionTyped(session'[s])
    <3>1. HeldAfter(s) \in NodeInstances /\ "idle" \in Pcs
      BY HeldTyped DEF Pcs
    <3> QED
      BY <1>1, <1>2, <2>1, <3>1, Zenon DEF SessionTyped
  <2>3. \A t \in Sessions : SessionTyped(session'[t])
    BY <1>1, <2>2 DEF SyncTyped
  <2>4. \A t \in Sessions : session'[t].pc # "idle" => session'[t].call.op \in Ops
    BY <1>1, <1>3 DEF SyncTyped
  <2>5. UNCHANGED <<data, mutex, sem, posted, begun>>
    BY DEF Return
  <2> QED
    BY <1>1, <2>3, <2>4, <2>5 DEF SyncTyped
<1>5. MutexHeld'
  BY <1>1, <1>3 DEF MutexHeld, Return
<1>6. OnePosted'
  BY <1>1 DEF OnePosted, Return
<1>7. RunOnce'
  <2> SUFFICES ASSUME NEW t \in Sessions
               PROVE  /\ session'[t].pc \in {"assign", "lock", "post"} => ~session'[t].ran
                      /\ session'[t].pc \in {"unlock", "return"} =>
                           session'[t].ran \/ session'[t].call.op = "release_instance"
    BY DEF RunOnce
  <2>1. CASE t = s
    BY <1>3, <2>1
  <2>2. CASE t # s
    <3>1. session'[t] = session[t]
      BY <1>1, <2>2
    <3> QED
      BY <3>1 DEF RunOnce
  <2> QED
    BY <2>1, <2>2
<1>8. AloneUndisturbed'
  <2> SUFFICES ASSUME NEW t \in Sessions, session'[t].alone
               PROVE  (\A o \in Sessions \ {t} : ~Busy(o)') /\ Stage(t)'
    BY DEF AloneUndisturbed
  <2>1. session[t].alone
    BY <1>1, <1>3
  <2>2. t = s
    BY <2>1 DEF AloneUndisturbed, Busy, Return
  <2>3. \A o \in Sessions \ {t} : ~Busy(o)'
    BY <1>1, <2>1, <2>2 DEF AloneUndisturbed, Busy
  <2>4. Stage(s) /\ session[s].pc # "idle" /\ data' = data
    BY <2>1, <2>2 DEF AloneUndisturbed, Return
  <2>5. session[s].ran \/ session[s].call.op = "release_instance"
    BY DEF RunOnce, Return
  <2>6. ASSUME session[s].call.op \in SearchOps
       PROVE  Stage(s)'
    <3>1. SearchStage(s) /\ session[s].ran
      BY <2>4, <2>5, <2>6 DEF Stage, SearchOps
    <3> DEFINE c == session[s].call
               found == FoundBy(c.op, c.node, c.oid)
    <3>2. CASE found = {}
      <4>1. HeldAfter(s) = NoneHeld /\ result = "NOSUCHINSTANCE"
        BY <2>6, <3>1, <3>2 DEF SearchStage, HeldAfter, SearchOps
      <4> QED
        BY <1>3, <2>6, <3>2, <4>1 DEF Answer, ValueAnswered, Stage, SearchOps
    <3>3. CASE found # {}
      <4>1. /\ HeldAfter(s) = [node |-> c.node, oid |-> LeastOf(found), methods |-> c.node.methods]
            /\ result = "NOERROR"
        BY <2>6, <3>1, <3>3 DEF SearchStage, HeldAfter, SearchOps
      <4>2. HeldAfter(s) = data.proxy
        BY <3>1, <3>3, <4>1 DEF SearchStage, SyncTyped, NodeInstances, Return
      <4> QED
        BY <1>3, <2>4, <2>6, <3>1, <3>3, <4>1, <4>2
        DEF Answer, ValueAnswered, Stage, SearchStage, SearchOps
    <3> QED
      BY <3>2, <3>3
  <2>7. ASSUME session[s].call.op \in MethodOps
       PROVE  Stage(s)'
    <3>1. MethodStage(s) /\ session[s].ran
      BY <2>4, <2>5, <2>7 DEF Stage, MethodOps
    <3>2. HeldAfter(s) = data.proxy /\ result = data.retval
      BY <2>7, <3>1 DEF MethodStage, HeldAfter, MethodOps, SearchOps
    <3> QED
      BY <1>3, <2>4, <2>7, <3>1, <3>2
      DEF Answer, ValueAnswered, Stage, MethodStage, MethodOps, SearchOps
  <2>8. ASSUME session[s].call.op = "release_instance"
       PROVE  Stage(s)'
    <3>1. HeldAfter(s) = NoneHeld
      BY <2>8 DEF HeldAfter, SearchOps
    <3> QED
      BY <1>3, <2>8, <3>1 DEF Answer, ValueAnswered, Stage, SearchOps
  <2> QED
    BY <1>2, <2>2, <2>3, <2>6, <2>7, <2>8 DEF Ops
<1> QED
  BY <1>4, <1>5, <1>6, <1>7, <1>8

-----------------------------------------------------------------------------
(* The calls.                                                              *)

\* What a call changes of the sessions as it begins.
Beginning(s, op, node, oid, pc) ==
  /\ DOMAIN session' = Sessions /\ session' = [t \in Sessions |-> session'[t]]
  /\ \A t \in Sessions : SessionTyped(session'[t])
  /\ \A t \in Sessions \ {s} :
       /\ session'[t].pc = session[t].pc /\ session'[t].call = session[t].call
       /\ session'[t].ran = session[t].ran /\ session'[t].held = session[t].held
       /\ session'[t].alone = FALSE
  /\ session'[s].pc = pc /\ session'[s].call = [op |-> op, node |-> node, oid |-> oid]
  /\ session'[s].ran = FALSE /\ session'[s].held = session[s].held
  /\ session'[s].value = <<>>
  /\ session'[s].alone => op \in SearchOps \/ session[s].alone
  /\ session'[s].alone /\ op \in SearchOps => \A o \in Sessions \ {s} : ~Busy(o)

\* A call begins in its own session, and ends that any other one is alone.
LEMMA BegunChanges ==
  ASSUME SyncTyped, NEW s \in Sessions, NEW op \in Ops, NEW node \in Nodes, NEW oid \in Oids,
         NEW pc \in Pcs, Begun(s, op, node, oid, pc)
  PROVE  Beginning(s, op, node, oid, pc)
<1> DEFINE alone == IF op \in SearchOps THEN \A o \in Sessions \ {s} : ~Busy(o)
                    ELSE session[s].alone
           call == [op |-> op, node |-> node, oid |-> oid]
<1>1. \A t \in Sessions : SessionTyped(session[t])
  BY DEF SyncTyped
<1>2. /\ DOMAIN session' = Sessions /\ session' = [t \in Sessions |-> session'[t]]
      /\ \A t \in Sessions \ {s} : session'[t] = [session[t] EXCEPT !.alone = FALSE]
  BY DEF Begun
<1>3. session'[s] = [session[s] EXCEPT !.pc = pc, !.calls = @ + 1, !.ran = FALSE,
         !.value = <<>>, !.call = call, !.result = "none", !.alone = alone]
  BY DEF Begun
<1>4. \A t \in Sessions \ {s} :
        /\ session'[t].pc = session[t].pc /\ session'[t].call = session[t].call
        /\ session'[t].ran = session[t].ran /\ session'[t].held = session[t].held
        /\ session'[t].alone = FALSE
        /\ SessionTyped(session'[t])
  <2> SUFFICES ASSUME NEW t \in Sessions \ {s}
               PROVE  /\ session'[t].pc = session[t].pc /\ session'[t].call = session[t].call
                      /\ session'[t].ran = session[t].ran /\ session'[t].held = session[t].held
                      /\ session'[t].alone = FALSE
                      /\ SessionTyped(session'[t])
    OBVIOUS
  <2>1. SessionTyped(session[t]) /\ session'[t] = [session[t] EXCEPT !.alone = FALSE]
    BY <1>1, <1>2
  <2>2. SessionTyped(session'[t])
    BY <2>1, Zenon DEF SessionTyped
  <2> QED
    BY <2>1, <2>2 DEF SessionTyped
<1>5. SessionTyped(session[s])
  BY <1>1
<1>6. SessionTyped(session'[s])
  <2>1. session[s].calls + 1 \in Nat
    BY <1>5 DEF SessionTyped
  <2>2. call \in Calls /\ <<>> \in Values /\ "none" \in Results
    BY DEF Calls, Values, Results
  <2>3. alone \in BOOLEAN
    BY <1>5, Zenon DEF SessionTyped
  <2> HIDE DEF alone, call
  <2> QED
    BY <1>3, <1>5, <2>1, <2>2, <2>3, Zenon DEF SessionTyped
<1>7. /\ session'[s].pc = pc /\ session'[s].call = call
      /\ session'[s].ran = FALSE /\ session'[s].held = session[s].held
      /\ session'[s].value = <<>> /\ session'[s].alone = alone
  <2> HIDE DEF alone, call
  <2> QED
    BY <1>3, <1>5 DEF SessionTyped
<1>8. /\ session'[s].alone => op \in SearchOps \/ session[s].alone
      /\ session'[s].alone /\ op \in SearchOps => \A o \in Sessions \ {s} : ~Busy(o)
  BY <1>7, Zenon
<1> QED
  BY <1>2, <1>4, <1>6, <1>7, <1>8 DEF Beginning

\* A call begins outside the mutex and disturbs the data of no other session that is
\* alone: there is none any more.
LEMMA BegunKeeps ==
  ASSUME SyncIInv, NEW s \in Sessions, NEW op \in Ops, NEW node \in Nodes, NEW oid \in Oids,
         NEW pc \in Pcs, Begun(s, op, node, oid, pc), session[s].pc = "idle",
         pc \in {"assign", "lock"} \/ (pc = "return" /\ op = "release_instance"),
         UNCHANGED <<mutex, sem, posted, begun>>,
         data' \in [proxy : NodeInstances, retval : Results,
                    arg1 : {RootOid(o) : o \in Oids} \cup {ValueAt(t) : t \in Sessions}],
         session'[s].alone => (\A o \in Sessions \ {s} : ~Busy(o)) /\ Stage(s)'
  PROVE  SyncIInv'
<1>0. SyncTyped /\ MutexHeld /\ OnePosted /\ RunOnce /\ AloneUndisturbed
  BY DEF SyncIInv
<1>1. /\ DOMAIN session' = Sessions /\ session' = [t \in Sessions |-> session'[t]]
      /\ \A t \in Sessions : SessionTyped(session'[t])
      /\ \A t \in Sessions \ {s} :
           /\ session'[t].pc = session[t].pc /\ session'[t].call = session[t].call
           /\ session'[t].ran = session[t].ran /\ session'[t].held = session[t].held
           /\ session'[t].alone = FALSE
      /\ session'[s].pc = pc /\ session'[s].call = [op |-> op, node |-> node, oid |-> oid]
      /\ session'[s].ran = FALSE /\ session'[s].held = session[s].held
  <2>1. Beginning(s, op, node, oid, pc)
    BY <1>0, BegunChanges
  <2> QED
    BY <2>1 DEF Beginning
<1>2. SyncTyped'
  <2>1. \A t \in Sessions : session'[t].pc # "idle" => session'[t].call.op \in Ops
    BY <1>0, <1>1 DEF SyncTyped
  <2> QED
    BY <1>0, <1>1, <2>1 DEF SyncTyped
<1>3. MutexHeld'
  BY <1>0, <1>1 DEF MutexHeld
<1>4. OnePosted'
  <2>1. CASE posted = <<>> /\ sem = 0
    BY <1>0, <2>1 DEF OnePosted
  <2>2. CASE posted # <<>> \/ sem # 0
    <3>1. mutex \in Sessions /\ session[mutex].pc = "wait"
      BY <1>0, <2>2 DEF OnePosted
    <3>2. mutex # s
      BY <3>1
    <3>3. /\ session'[mutex].pc = session[mutex].pc /\ session'[mutex].call = session[mutex].call
          /\ session'[mutex].ran = session[mutex].ran
      BY <1>1, <3>1, <3>2
    <3> QED
      BY <1>0, <3>1, <3>3 DEF OnePosted
  <2> QED
    BY <2>1, <2>2
<1>5. RunOnce'
  <2> SUFFICES ASSUME NEW t \in Sessions
               PROVE  /\ session'[t].pc \in {"assign", "lock", "post"} => ~session'[t].ran
                      /\ session'[t].pc \in {"unlock", "return"} =>
                           session'[t].ran \/ session'[t].call.op = "release_instance"
    BY DEF RunOnce
  <2>1. CASE t = s
    BY <1>1, <2>1
  <2>2. CASE t # s
    <3>1. /\ session'[t].pc = session[t].pc /\ session'[t].call = session[t].call
          /\ session'[t].ran = session[t].ran
      BY <1>1, <2>2
    <3> QED
      BY <1>0, <3>1 DEF RunOnce
  <2> QED
    BY <2>1, <2>2
<1>6. AloneUndisturbed'
  <2> SUFFICES ASSUME NEW t \in Sessions, session'[t].alone
               PROVE  (\A o \in Sessions \ {t} : ~Busy(o)') /\ Stage(t)'
    BY DEF AloneUndisturbed
  <2>1. t = s
    BY <1>1
  <2>2. \A o \in Sessions \ {s} : ~Busy(o)'
    BY <1>1, <2>1 DEF Busy
  <2> QED
    BY <2>1, <2>2
<1> QED
  BY <1>2, <1>3, <1>4, <1>5, <1>6 DEF SyncIInv

\* A lookup clears the data, and begins a stretch of its own.
LEMMA LookupKeeps ==
  ASSUME SyncIInv, NEW s \in Sessions, NEW op \in SearchOps, NEW node \in SyncNodes,
         NEW oid \in SyncOids, Lookup(s, op, node, oid)
  PROVE  SyncIInv'
<1>1. op \in Ops /\ node \in Nodes /\ oid \in Oids /\ "assign" \in Pcs
  BY DEF Ops, Nodes, Oids, Pcs
<1>2. Beginning(s, op, node, oid, "assign")
  BY <1>1, BegunChanges DEF Lookup, SyncIInv
<1>3. NoneHeld \in NodeInstances
  <2>1. NoNode \in Nodes /\ NoNode.methods = {} /\ 0 \in Oids
    BY DEF Nodes, NoNode, Oids
  <2>2. {} \in Methods
    BY <2>1 DEF Methods
  <2> QED
    BY <2>1, <2>2 DEF NodeInstances, NoneHeld
<1>4. data' \in [proxy : NodeInstances, retval : Results,
                    arg1 : {RootOid(o) : o \in Oids} \cup {ValueAt(t) : t \in Sessions}]
  BY <1>3 DEF Lookup, SyncIInv, SyncTyped
<1>5. session'[s].alone => (\A o \in Sessions \ {s} : ~Busy(o)) /\ Stage(s)'
  <2>1. SearchStage(s)'
    BY <1>2 DEF SearchStage, Beginning, Lookup
  <2> QED
    BY <1>2, <2>1 DEF Stage, Beginning, SearchOps, MethodOps
<1>6. session[s].pc = "idle" /\ UNCHANGED <<mutex, sem, posted, begun>>
  BY DEF Lookup, Idle
<1>7. Begun(s, op, node, oid, "assign")
  BY DEF Lookup
<1> QED
  BY <1>1, <1>4, <1>5, <1>6, <1>7, BegunKeeps

\* A lookup leaves its instance in the data.
LEMMA AssignKeeps ==
  ASSUME SyncIInv, NEW s \in Sessions, Assign(s)
  PROVE  SyncIInv'
<1> USE DEF SyncIInv
<1> DEFINE c == session[s].call
<1>1. /\ \A t \in Sessions \ {s} : session'[t] = session[t]
      /\ session'[s] = [session[s] EXCEPT !.pc = "lock"]
  BY GoesChanges DEF Pcs, Assign
<1>2. SessionTyped(session[s]) /\ c.op \in Ops
  BY DEF SyncTyped, Assign
<1>3. /\ session'[s].pc = "lock" /\ session'[s].call = c
      /\ session'[s].ran = session[s].ran /\ session'[s].held = session[s].held
      /\ session'[s].alone = session[s].alone
  BY <1>1, <1>2 DEF SessionTyped
<1>4. c.node \in Nodes /\ c.oid \in Oids
  BY <1>2 DEF SessionTyped, Calls
<1>5. /\ data' \in [proxy : NodeInstances, retval : Results,
                    arg1 : {RootOid(o) : o \in Oids} \cup {ValueAt(t) : t \in Sessions}]
      /\ data'.proxy.node = c.node /\ data'.arg1 = RootOid(c.oid)
  <2> HIDE DEF c
  <2> DEFINE proxy == [data.proxy EXCEPT !.node = c.node, !.oid = c.oid]
  <2>1. proxy \in NodeInstances /\ proxy.node = c.node
    BY <1>4 DEF SyncTyped, NodeInstances
  <2>2. data' = [data EXCEPT !.proxy = proxy, !.arg1 = RootOid(c.oid)]
    BY DEF Assign, c, SyncTyped
  <2> HIDE DEF proxy
  <2> QED
    BY <1>4, <2>1, <2>2 DEF SyncTyped
<1>6. SyncTyped'
  <2>1. session[s].pc # "idle" /\ "lock" \in Pcs /\ Goes(s, "lock") /\ begun' = begun
    BY DEF Assign, Pcs
  <2>2. mutex' \in Sessions \cup {NoSession} /\ sem' \in {0, 1}
    BY DEF Assign, SyncTyped
  <2>3. posted' \in Seq([op : Ops, by : Sessions])
    BY DEF Assign, SyncTyped
  <2> QED
    BY <1>5, <2>1, <2>2, <2>3, GoesKeepsTypes
<1>7. MutexHeld'
  BY <1>1, <1>3 DEF MutexHeld, Assign
<1>8. OnePosted'
  BY <1>1 DEF OnePosted, Assign
<1>9. RunOnce'
  <2> SUFFICES ASSUME NEW t \in Sessions
               PROVE  /\ session'[t].pc \in {"assign", "lock", "post"} => ~session'[t].ran
                      /\ session'[t].pc \in {"unlock", "return"} =>
                           session'[t].ran \/ session'[t].call.op = "release_instance"
    BY DEF RunOnce
  <2>1. CASE t = s
    BY <1>3, <2>1 DEF RunOnce, Assign
  <2>2. CASE t # s
    <3>1. session'[t] = session[t]
      BY <1>1, <2>2
    <3> QED
      BY <3>1 DEF RunOnce
  <2> QED
    BY <2>1, <2>2
<1>10. AloneUndisturbed'
  <2> SUFFICES ASSUME NEW t \in Sessions, session'[t].alone
               PROVE  (\A o \in Sessions \ {t} : ~Busy(o)') /\ Stage(t)'
    BY DEF AloneUndisturbed
  <2>1. session[t].alone
    BY <1>1, <1>3
  <2>2. t = s
    BY <2>1 DEF AloneUndisturbed, Busy, Assign
  <2>3. \A o \in Sessions \ {t} : ~Busy(o)'
    BY <1>1, <2>1, <2>2 DEF AloneUndisturbed, Busy
  <2>4. Stage(s) /\ session[s].pc = "assign" /\ ~session[s].ran /\ c.op \in SearchOps
    BY <2>1, <2>2 DEF AloneUndisturbed, RunOnce, Assign, Stage
  <2>5. SearchStage(s)
    BY <2>4 DEF Stage
  <2>6. SearchStage(s)'
    BY <1>3, <1>5, <2>4, <2>5 DEF SearchStage
  <2> QED
    BY <1>3, <2>2, <2>3, <2>4, <2>6 DEF Stage, SearchOps, MethodOps
<1> QED
  BY <1>6, <1>7, <1>8, <1>9, <1>10

\* A method finds in the data the instance its session holds, if that is alone.
LEMMA MethodKeeps ==
  ASSUME SyncIInv, NEW s \in Sessions, NEW op \in MethodOps, Method(s, op)
  PROVE  SyncIInv'
<1> DEFINE mine == session[s].held
<1>1. /\ mine \in NodeInstances /\ op \in mine.methods /\ session[s].pc = "idle"
      /\ data' = [data EXCEPT !.arg1 = ValueAt(s)]
      /\ Begun(s, op, mine.node, mine.oid, "lock")
      /\ UNCHANGED <<mutex, sem, posted, begun>>
  BY DEF Method, Idle, SyncIInv, SyncTyped, SessionTyped
<1>2. op \in Ops /\ mine.node \in Nodes /\ mine.oid \in Oids /\ "lock" \in Pcs
  BY <1>1 DEF Ops, NodeInstances, Pcs
<1>3. Beginning(s, op, mine.node, mine.oid, "lock")
  BY <1>1, <1>2, BegunChanges DEF SyncIInv
<1>4. /\ data' \in [proxy : NodeInstances, retval : Results,
                    arg1 : {RootOid(o) : o \in Oids} \cup {ValueAt(t) : t \in Sessions}]
      /\ data'.proxy = data.proxy /\ data'.arg1 = ValueAt(s)
  BY <1>1 DEF SyncIInv, SyncTyped
<1>5. ASSUME session'[s].alone
      PROVE  (\A o \in Sessions \ {s} : ~Busy(o)) /\ Stage(s)'
  <2>1. session[s].alone
    BY <1>3, <1>5 DEF Beginning, SearchOps, MethodOps
  <2>2. mine \in {NoneHeld, data.proxy}
    BY <1>1, <2>1 DEF SyncIInv, AloneUndisturbed, Stage
  <2>3. mine = data.proxy
    BY <1>1, <2>2 DEF NoneHeld
  <2>4. MethodStage(s)'
    BY <1>1, <1>3, <1>4, <2>3 DEF MethodStage, Beginning
  <2>5. Stage(s)'
    BY <1>3, <2>4 DEF Stage, Beginning, SearchOps, MethodOps
  <2> QED
    BY <2>1, <2>5 DEF SyncIInv, AloneUndisturbed
<1> QED
  BY <1>1, <1>2, <1>4, <1>5, BegunKeeps

\* A release that has nothing to run goes straight to its return.
LEMMA ReleaseKeeps ==
  ASSUME SyncIInv, NEW s \in Sessions, Release(s)
  PROVE  SyncIInv'
<1> DEFINE mine == session[s].held
           op == "release_instance"
<1>1. PICK pc \in {"lock", "return"} :
        /\ Begun(s, op, mine.node, mine.oid, pc)
        /\ pc = "lock" => op \in data.proxy.methods
  BY DEF Release, Releases
<1>2. /\ mine \in NodeInstances /\ session[s].pc = "idle"
      /\ UNCHANGED <<data, mutex, sem, posted, begun>>
  BY DEF Release, Releases, Idle, SyncIInv, SyncTyped, SessionTyped
<1>3. op \in Ops /\ mine.node \in Nodes /\ mine.oid \in Oids /\ pc \in Pcs
  BY <1>2 DEF Ops, NodeInstances, Pcs
<1>4. Beginning(s, op, mine.node, mine.oid, pc)
  BY <1>1, <1>3, BegunChanges DEF SyncIInv
<1>5. data' \in [proxy : NodeInstances, retval : Results,
                 arg1 : {RootOid(o) : o \in Oids} \cup {ValueAt(t) : t \in Sessions}]
  BY <1>2 DEF SyncIInv, SyncTyped
<1>6. ASSUME session'[s].alone
      PROVE  (\A o \in Sessions \ {s} : ~Busy(o)) /\ Stage(s)'
  <2>1. session[s].alone
    BY <1>4, <1>6 DEF Beginning, SearchOps
  <2>2. ReleaseStage(s)'
    BY <1>1, <1>2, <1>4 DEF ReleaseStage, Beginning
  <2>3. Stage(s)'
    BY <1>4, <2>2 DEF Stage, Beginning, SearchOps, MethodOps
  <2> QED
    BY <2>1, <2>3 DEF SyncIInv, AloneUndisturbed
<1> QED
  BY <1>1, <1>2, <1>3, <1>5, <1>6, BegunKeeps

\* A refused lookup changes its own session only.
LEMMA LookupRefusedKeeps ==
  ASSUME SyncIInv, NEW s \in Sessions, NEW op \in SearchOps, NEW node \in SyncNodes,
         NEW oid \in SyncOids, LookupRefused(s, op, node, oid)
  PROVE  SyncIInv'
<1> DEFINE call == [op |-> op, node |-> node, oid |-> oid]
<1>1. /\ DOMAIN session' = Sessions /\ session' = [t \in Sessions |-> session'[t]]
      /\ \A t \in Sessions \ {s} : session'[t] = session[t]
      /\ session'[s] = [session[s] EXCEPT !.calls = @ + 1, !.result = "NOSUCHINSTANCE",
                                          !.call = call]
  BY DEF LookupRefused, SyncIInv, SyncTyped
<1>2. SessionTyped(session[s])
  BY DEF SyncIInv, SyncTyped
<1>3. /\ session'[s].pc = session[s].pc /\ session'[s].held = session[s].held
      /\ session'[s].ran = session[s].ran /\ session'[s].alone = session[s].alone
      /\ session'[s].result = "NOSUCHINSTANCE" /\ session'[s].call = call
  BY <1>1, <1>2 DEF SessionTyped
<1>4. /\ session[s].pc = "idle" /\ session[s].held = NoneHeld /\ node.oid # node.target
      /\ UNCHANGED <<data, mutex, sem, posted, begun>>
  BY DEF LookupRefused, Idle
<1>5. SyncTyped'
  <2>1. call \in Calls /\ session[s].calls + 1 \in Nat /\ "NOSUCHINSTANCE" \in Results
    BY <1>2 DEF Calls, Ops, Nodes, Oids, Results, SessionTyped
  <2>2. SessionTyped(session'[s])
    BY <1>1, <1>2, <2>1, Zenon DEF SessionTyped
  <2>3. \A t \in Sessions : SessionTyped(session'[t])
    BY <1>1, <2>2 DEF SyncIInv, SyncTyped
  <2>4. \A t \in Sessions : session'[t].pc # "idle" => session'[t].call.op \in Ops
    BY <1>1, <1>3, <1>4 DEF SyncIInv, SyncTyped
  <2> QED
    BY <1>1, <1>4, <2>3, <2>4 DEF SyncIInv, SyncTyped
<1>6. MutexHeld'
  <2> SUFFICES ASSUME NEW t \in Sessions
               PROVE  session'[t].pc \in {"post", "wait", "unlock"} <=> mutex' = t
    BY DEF MutexHeld
  <2>1. session'[t].pc = session[t].pc
    BY <1>1, <1>3
  <2> QED
    BY <1>4, <2>1 DEF SyncIInv, MutexHeld
<1>7. OnePosted'
  BY <1>1, <1>4 DEF SyncIInv, OnePosted
<1>8. RunOnce'
  <2> SUFFICES ASSUME NEW t \in Sessions
               PROVE  /\ session'[t].pc \in {"assign", "lock", "post"} => ~session'[t].ran
                      /\ session'[t].pc \in {"unlock", "return"} =>
                           session'[t].ran \/ session'[t].call.op = "release_instance"
    BY DEF RunOnce
  <2>1. CASE t = s
    BY <1>3, <1>4, <2>1
  <2>2. CASE t # s
    <3>1. session'[t] = session[t]
      BY <1>1, <2>2
    <3> QED
      BY <3>1 DEF SyncIInv, RunOnce
  <2> QED
    BY <2>1, <2>2
<1>9. AloneUndisturbed'
  <2> SUFFICES ASSUME NEW t \in Sessions, session'[t].alone
               PROVE  (\A o \in Sessions \ {t} : ~Busy(o)') /\ Stage(t)'
    BY DEF AloneUndisturbed
  <2>1. session[t].alone
    BY <1>1, <1>3
  <2>2. (\A o \in Sessions \ {t} : ~Busy(o)) /\ Stage(t)
    BY <2>1 DEF SyncIInv, AloneUndisturbed
  <2>3. \A o \in Sessions \ {t} : ~Busy(o)'
    <3> SUFFICES ASSUME NEW o \in Sessions \ {t}
                 PROVE  ~Busy(o)'
      OBVIOUS
    <3>1. session'[o].pc = session[o].pc /\ session'[o].held = session[o].held
      BY <1>1, <1>3
    <3> QED
      BY <2>2, <3>1 DEF Busy
  <2>4. CASE t = s
    BY <1>3, <1>4, <2>3, <2>4 DEF Stage, Answer, ValueAnswered, SearchOps
  <2>5. CASE t # s
    <3>1. session'[t] = session[t]
      BY <1>1, <2>5
    <3>2. Stage(t)'
      BY <1>4, <2>2, <3>1
      DEF Stage, SearchStage, MethodStage, ReleaseStage, Answer, ValueAnswered
    <3> QED
      BY <2>3, <3>2
  <2> QED
    BY <2>4, <2>5
<1> QED
  BY <1>5, <1>6, <1>7, <1>8, <1>9 DEF SyncIInv

-----------------------------------------------------------------------------
(* The target's thread.                                                    *)

\* No node, which the target's thread reads in a cleared instance, has its type.
LEMMA NoNodeKnown == NoNode \in Nodes
BY DEF Nodes

\* The instance a function reads as an OID is one of the instances.
LEMMA RootOidsTyped == SyncTyped => RootOids \subseteq Oids
<1> SUFFICES ASSUME SyncTyped PROVE RootOids \subseteq Oids
  OBVIOUS
<1>1. CASE \E o \in Oids : data.arg1 = RootOid(o)
  BY <1>1 DEF RootOids, RootOid, Oids
<1>2. CASE \E s \in Sessions : data.arg1 = ValueAt(s)
  BY <1>2 DEF RootOids, ValueAt, Oids
<1> QED
  BY <1>1, <1>2 DEF SyncTyped

\* The data after a function has run.
Ran(op, oid) ==
  IF op \in SearchOps THEN LookedUp(op, data, begun.leaf, oid)
  ELSE CallMethod(op, data, begun.has)
SameInstance(d) ==
  /\ d \in [proxy : NodeInstances, retval : Results,
            arg1 : {RootOid(o) : o \in Oids} \cup {ValueAt(t) : t \in Sessions}]
  /\ d.proxy.node = data.proxy.node /\ d.arg1 = data.arg1

\* The data keep their types and their node, whatever function runs.
LEMMA DataTyped ==
  ASSUME SyncTyped, NEW op \in Ops, NEW oid \in Oids
  PROVE  SameInstance(Ran(op, oid))
<1> USE DEF Ran, SameInstance
<1>1. data.proxy \in NodeInstances /\ begun.leaf \in Nodes
  BY DEF SyncTyped, NodeInstances
<1>2. CASE op \in SearchOps
  <2> DEFINE found == FoundBy(op, begun.leaf, oid)
  <2>1. CASE found = {}
    <3>1. LookedUp(op, data, begun.leaf, oid) = [data EXCEPT !.retval = "NOSUCHINSTANCE"]
      BY <2>1 DEF LookedUp
    <3> QED
      BY <1>2, <3>1 DEF SyncTyped, Results
  <2>2. CASE found # {}
    <3> DEFINE proxy == [data.proxy EXCEPT !.oid = LeastOf(found), !.methods = begun.leaf.methods]
    <3>1. LeastOf(found) \in Oids /\ begun.leaf.methods \in Methods
      BY <1>1, <2>2, FoundIsInstance DEF Methods
    <3>2. proxy \in NodeInstances /\ proxy.node = data.proxy.node
      BY <1>1, <3>1 DEF NodeInstances
    <3>3. LookedUp(op, data, begun.leaf, oid) = [data EXCEPT !.retval = "NOERROR", !.proxy = proxy]
      BY <2>2 DEF LookedUp, SyncTyped
    <3> QED
      BY <1>2, <3>2, <3>3 DEF SyncTyped, Results
  <2> QED
    BY <2>1, <2>2
<1>3. CASE op \notin SearchOps
  <2>1. op \in MethodOps \/ op = "release_instance"
    BY <1>3 DEF Ops
  <2>2. \E r \in Results : CallMethod(op, data, begun.has) = [data EXCEPT !.retval = r]
    BY <2>1 DEF CallMethod, MethodOps, Results, SyncTyped
  <2> QED
    BY <1>3, <2>2 DEF SyncTyped
<1> QED
  BY <1>2, <1>3

\* The target's thread runs the function of the session that waits, with its arguments.
LEMMA ExecuteKeeps ==
  ASSUME SyncIInv, Execute
  PROVE  SyncIInv'
<1> DEFINE f == Head(posted)
           into == {s \in Sessions : f.op = "get_value" /\ begun.has /\ data.arg1 = ValueAt(s)}
<1>1. PICK m \in Sessions :
        /\ m = mutex /\ session[m].pc = "wait" /\ ~session[m].ran
        /\ posted = <<[op |-> session[m].call.op, by |-> m]>> /\ sem = 0
  BY DEF Execute, SyncIInv, OnePosted, NotBegun
<1> DEFINE c == session[m].call
<1>2. f.op = c.op /\ f.by = m /\ Tail(posted) = <<>>
  BY <1>1
<1>3. c.op \in Ops
  BY <1>1 DEF SyncIInv, SyncTyped
<1>4. PICK oid \in RootOids :
        /\ data' = Ran(f.op, oid)
        /\ sem' = sem + 1
        /\ session' = [s \in Sessions |->
             [session[s] EXCEPT !.ran = @ \/ s = f.by,
                                !.value = IF s \in into THEN ValueOf(data.proxy) ELSE @]]
  BY DEF Execute, Signalled, Ran
<1>5. oid \in Oids
  BY RootOidsTyped DEF SyncIInv
<1>6. data' = Ran(c.op, oid)
  BY <1>2, <1>4
<1>7. SyncTyped
  BY DEF SyncIInv
<1>8. SameInstance(Ran(c.op, oid))
  BY <1>3, <1>5, <1>7, DataTyped
<1>9. SameInstance(data')
  BY <1>6, <1>8
<1>10. /\ data' \in [proxy : NodeInstances, retval : Results,
                    arg1 : {RootOid(o) : o \in Oids} \cup {ValueAt(t) : t \in Sessions}]
       /\ data'.proxy.node = data.proxy.node /\ data'.arg1 = data.arg1
  BY <1>9 DEF SameInstance
<1>11. posted' = <<>>
  BY <1>2 DEF Execute
<1>12. sem' = 1
  <2>1. sem' = sem + 1
    BY <1>4
  <2>2. sem = 0
    BY <1>1
  <2> QED
    BY <2>1, <2>2
<1>13. mutex' = mutex /\ begun'.leaf = NoNode /\ ~begun'.started
  BY DEF Execute, NotBegun
<1>14. DOMAIN session' = Sessions /\ session' = [s \in Sessions |-> session'[s]]
  BY <1>4
<1> DEFINE value(s) == IF s \in into THEN ValueOf(data.proxy) ELSE session[s].value
           ran(s) == session[s].ran \/ s = m
<1>15. \A s \in Sessions : session'[s] = [session[s] EXCEPT !.ran = ran(s), !.value = value(s)]
  <2>1. \A s \in Sessions : (s = f.by) = (s = m)
    BY <1>2
  <2> HIDE DEF f, into
  <2> QED
    BY <1>4, <2>1, Zenon
<1>16. \A s \in Sessions :
        /\ SessionTyped(session'[s])
        /\ session'[s].pc = session[s].pc /\ session'[s].call = session[s].call
        /\ session'[s].held = session[s].held /\ session'[s].alone = session[s].alone
        /\ session'[s].ran = ran(s) /\ session'[s].value = value(s)
  <2> SUFFICES ASSUME NEW s \in Sessions
               PROVE  /\ SessionTyped(session'[s])
                      /\ session'[s].pc = session[s].pc /\ session'[s].call = session[s].call
                      /\ session'[s].held = session[s].held
                      /\ session'[s].alone = session[s].alone
                      /\ session'[s].ran = ran(s) /\ session'[s].value = value(s)
    OBVIOUS
  <2>1. SessionTyped(session[s]) /\ data.proxy \in NodeInstances
    BY <1>7 DEF SyncTyped
  <2>2. ran(s) \in BOOLEAN /\ value(s) \in Values
    BY <2>1 DEF SessionTyped, Values
  <2>3. session'[s] = [session[s] EXCEPT !.ran = ran(s), !.value = value(s)]
    BY <1>15
  <2> HIDE DEF ran, value
  <2>4. SessionTyped(session'[s])
    BY <2>1, <2>2, <2>3, Zenon DEF SessionTyped
  <2>5. /\ session'[s].pc = session[s].pc /\ session'[s].call = session[s].call
        /\ session'[s].held = session[s].held /\ session'[s].alone = session[s].alone
        /\ session'[s].ran = ran(s) /\ session'[s].value = value(s)
    BY <2>1, <2>3 DEF SessionTyped
  <2> QED
    BY <2>4, <2>5
<1> HIDE DEF into, f
<1>17. SyncTyped'
  <2>1. <<>> \in Seq([op : Ops, by : Sessions])
    OBVIOUS
  <2>2. \A s \in Sessions : session'[s].pc # "idle" => session'[s].call.op \in Ops
    BY <1>7, <1>16 DEF SyncTyped
  <2>3. \A s \in Sessions : SessionTyped(session'[s])
    BY <1>16
  <2> QED
    BY <1>7, <1>10, <1>11, <1>12, <1>13, <1>14, NoNodeKnown, <2>1, <2>2, <2>3 DEF SyncTyped
<1>18. MutexHeld'
  <2>1. \A s \in Sessions : session'[s].pc = session[s].pc
    BY <1>16
  <2> QED
    BY <1>13, <2>1 DEF SyncIInv, MutexHeld
<1>19. session'[m].ran /\ session'[m].pc = "wait"
  BY <1>1, <1>16
<1>20. OnePosted'
  BY <1>1, <1>11, <1>12, <1>13, <1>19 DEF OnePosted
<1>21. RunOnce'
  <2> SUFFICES ASSUME NEW s \in Sessions
               PROVE  /\ session'[s].pc \in {"assign", "lock", "post"} => ~session'[s].ran
                      /\ session'[s].pc \in {"unlock", "return"} =>
                           session'[s].ran \/ session'[s].call.op = "release_instance"
    BY DEF RunOnce
  <2>1. CASE s = m
    BY <1>19, <2>1
  <2>2. CASE s # m
    <3>1. /\ session'[s].pc = session[s].pc /\ session'[s].call = session[s].call
          /\ session'[s].ran <=> session[s].ran
      BY <1>16, <2>2
    <3> QED
      BY <3>1 DEF SyncIInv, RunOnce
  <2> QED
    BY <2>1, <2>2
<1>22. AloneUndisturbed'
  <2> SUFFICES ASSUME NEW t \in Sessions, session'[t].alone
               PROVE  (\A o \in Sessions \ {t} : ~Busy(o)') /\ Stage(t)'
    BY DEF AloneUndisturbed
  <2>1. session[t].alone
    BY <1>16
  <2>2. (\A o \in Sessions \ {t} : ~Busy(o)) /\ Stage(t)
    BY <2>1 DEF SyncIInv, AloneUndisturbed
  <2>3. t = m
    BY <1>1, <2>2 DEF Busy
  <2>4. \A o \in Sessions \ {t} : ~Busy(o)'
    <3>1. \A o \in Sessions : session'[o].pc = session[o].pc /\ session'[o].held = session[o].held
      BY <1>16
    <3> QED
      BY <2>2, <3>1 DEF Busy
  <2>5. session'[m].call = session[m].call /\ session'[m].held = session[m].held
    BY <1>16
  <2>6. ASSUME session[m].call.op \in SearchOps
        PROVE  Stage(m)'
    <3>1. SearchStage(m)
      BY <1>1, <2>2, <2>3, <2>6 DEF Stage
    <3>2. oid = c.oid
      <4>1. data.arg1 = RootOid(c.oid)
        BY <1>1, <3>1 DEF SearchStage
      <4>2. RootOids = {c.oid}
        BY <4>1 DEF RootOids, RootOid
      <4>3. oid \in RootOids
        BY <1>4
      <4> QED
        BY <4>2, <4>3
    <3>3. data' = LookedUp(c.op, data, begun.leaf, c.oid)
      BY <1>6, <2>6, <3>2 DEF Ran
    <3>4. data.proxy.node = c.node /\ begun.leaf = c.node
      BY <1>1, <3>1 DEF SearchStage, Execute
    <3> DEFINE found == FoundBy(c.op, c.node, c.oid)
    <3>5. found = {} => data'.retval = "NOSUCHINSTANCE"
      <4> SUFFICES ASSUME found = {} PROVE data'.retval = "NOSUCHINSTANCE"
        OBVIOUS
      <4>1. data' = [data EXCEPT !.retval = "NOSUCHINSTANCE"]
        BY <3>3, <3>4 DEF LookedUp
      <4> QED
        BY <1>7, <4>1 DEF SyncTyped
    <3>6. found # {} => /\ data'.retval = "NOERROR" /\ data'.proxy.oid = LeastOf(found)
                        /\ data'.proxy.methods = c.node.methods
      <4> SUFFICES ASSUME found # {}
                   PROVE  /\ data'.retval = "NOERROR" /\ data'.proxy.oid = LeastOf(found)
                          /\ data'.proxy.methods = c.node.methods
        OBVIOUS
      <4>1. data' = [data EXCEPT !.retval = "NOERROR", !.proxy.oid = LeastOf(found),
                                 !.proxy.methods = begun.leaf.methods]
        BY <3>3, <3>4 DEF LookedUp
      <4> QED
        BY <1>7, <3>4, <4>1 DEF SyncTyped, NodeInstances
    <3>7. SearchStage(m)'
      <4>1. session[m].held = NoneHeld /\ c.node \in SyncNodes /\ c.node.oid = c.node.target
        BY <3>1 DEF SearchStage
      <4>2. data'.proxy.node = c.node
        BY <1>10, <3>4
      <4>3. session'[m].call = c /\ session'[m].held = NoneHeld
        BY <2>5, <4>1
      <4>4. IF found = {} THEN data'.retval = "NOSUCHINSTANCE"
            ELSE /\ data'.retval = "NOERROR" /\ data'.proxy.oid = LeastOf(found)
                 /\ data'.proxy.methods = c.node.methods
        BY <3>5, <3>6
      <4> HIDE DEF c
      <4> QED
        BY <1>13, <1>19, <4>1, <4>2, <4>3, <4>4 DEF SearchStage
    <3> QED
      BY <1>19, <2>5, <2>6, <3>7 DEF Stage, SearchOps, MethodOps
  <2>7. ASSUME session[m].call.op \in MethodOps
        PROVE  Stage(m)'
    <3>1. MethodStage(m)
      BY <1>1, <2>2, <2>3, <2>7 DEF Stage
    <3>2. data.arg1 = ValueAt(m)
      BY <1>1, <3>1 DEF MethodStage
    <3>3. data' = CallMethod(c.op, data, begun.has) /\ begun.has
      BY <1>1, <1>6, <2>7, <3>1 DEF MethodOps, SearchOps, Ran, MethodStage, Execute
    <3>4. data'.proxy = data.proxy
      BY <1>7, <2>7, <3>3 DEF CallMethod, MethodOps, SyncTyped
    <3>5. c.op = "get_value" => data'.retval = "length"
      BY <1>7, <3>1, <3>3 DEF CallMethod, MethodStage, SyncTyped
    <3>6. c.op = "get_value" => session'[m].value = <<c.node.target, c.oid>>
      BY <1>2, <1>16, <3>1, <3>2, <3>3 DEF into, MethodStage, ValueOf
    <3>7. MethodStage(m)'
      BY <1>13, <1>19, <2>5, <3>1, <3>4, <3>5, <3>6 DEF MethodStage
    <3> QED
      BY <1>19, <2>5, <2>7, <3>7 DEF Stage, SearchOps, MethodOps
  <2>8. ASSUME session[m].call.op = "release_instance"
        PROVE  Stage(m)'
    <3>1. data'.proxy = data.proxy
      BY <1>6, <2>8 DEF Ran, CallMethod, SearchOps
    <3>2. ReleaseStage(m)
      BY <1>1, <2>2, <2>3, <2>8 DEF Stage
    <3>3. ReleaseStage(m)'
      BY <1>1, <3>1, <3>2 DEF ReleaseStage
    <3> QED
      BY <1>19, <2>5, <2>8, <3>3 DEF Stage, SearchOps, MethodOps
  <2>9. Stage(m)'
    BY <1>3, <2>6, <2>7, <2>8 DEF Ops
  <2> QED
    BY <2>3, <2>4, <2>9
<1> QED
  BY <1>17, <1>18, <1>20, <1>21, <1>22 DEF SyncIInv

\* The target's thread reads what the session that waits has left in the data.
LEMMA BeginKeeps ==
  ASSUME SyncIInv, Begin
  PROVE  SyncIInv'
<1> USE DEF SyncIInv
<1>1. PICK m \in Sessions :
        /\ m = mutex /\ session[m].pc = "wait" /\ ~session[m].ran
        /\ posted = <<[op |-> session[m].call.op, by |-> m]>> /\ sem = 0
  BY DEF Begin, OnePosted
<1> DEFINE c == session[m].call
<1>2. /\ begun'.leaf = data.proxy.node /\ begun'.started
      /\ begun'.has <=> c.op \in data.proxy.methods
      /\ UNCHANGED <<data, mutex, sem, posted, session, fault>>
  <2>1. /\ begun' = [started |-> TRUE, leaf |-> data.proxy.node,
                    has |-> Head(posted).op \in data.proxy.methods]
        /\ UNCHANGED <<data, mutex, sem, posted, session, fault>>
    BY DEF Begin
  <2>2. Head(posted).op = c.op
    BY <1>1
  <2>3. begun'.leaf = data.proxy.node /\ begun'.started = TRUE
    BY <2>1
  <2>4. begun'.has = (c.op \in data.proxy.methods)
    BY <2>1, <2>2, Zenon
  <2> HIDE DEF c
  <2> QED
    BY <2>1, <2>3, <2>4, Zenon
<1>3. SyncTyped'
  BY <1>2 DEF SyncTyped, NodeInstances
<1>4. MutexHeld' /\ RunOnce'
  BY <1>2 DEF MutexHeld, RunOnce
<1>5. OnePosted'
  BY <1>1, <1>2 DEF OnePosted
<1>6. AloneUndisturbed'
  <2> SUFFICES ASSUME NEW t \in Sessions, session'[t].alone
               PROVE  (\A o \in Sessions \ {t} : ~Busy(o)') /\ Stage(t)'
    BY DEF AloneUndisturbed
  <2>1. (\A o \in Sessions \ {t} : ~Busy(o)) /\ Stage(t)
    BY <1>2 DEF AloneUndisturbed
  <2>2. t = m
    BY <1>1, <2>1 DEF Busy
  <2>3. \A o \in Sessions \ {t} : ~Busy(o)'
    BY <1>2, <2>1 DEF Busy
  <2>4. c.op \in SearchOps => SearchStage(m)'
    BY <1>1, <1>2, <2>1, <2>2 DEF Stage, SearchStage
  <2>5. c.op \in MethodOps => MethodStage(m)'
    BY <1>1, <1>2, <2>1, <2>2 DEF Stage, MethodStage
  <2>6. c.op = "release_instance" => ReleaseStage(m)'
    BY <1>1, <1>2, <2>1, <2>2 DEF Stage, ReleaseStage
  <2> QED
    BY <1>1, <1>2, <2>2, <2>3, <2>4, <2>5, <2>6 DEF Stage
<1> QED
  BY <1>3, <1>4, <1>5, <1>6

\* A null pointer is gone through in the call of a session that another one disturbed.
LEMMA NullCallIsOfNoneAlone ==
  ASSUME SyncIInv, NullCall
  PROVE  mutex \in Sessions /\ ~session[mutex].alone
<1>1. PICK m \in Sessions :
        /\ m = mutex /\ session[m].pc = "wait" /\ ~session[m].ran
        /\ posted = <<[op |-> session[m].call.op, by |-> m]>>
  BY DEF NullCall, SyncIInv, OnePosted
<1> DEFINE c == session[m].call
<1>2. begun.started /\ Missing(c.op)
  BY <1>1 DEF NullCall
<1> SUFFICES ASSUME session[m].alone PROVE FALSE
  BY <1>1
<1>3. Stage(m)
  BY DEF SyncIInv, AloneUndisturbed
<1>4. CASE c.op \in SearchOps
  <2>1. SearchStage(m)
    BY <1>1, <1>3, <1>4 DEF Stage
  <2>2. begun.leaf = c.node /\ c.node \in SyncNodes
    BY <1>1, <1>2, <2>1 DEF SearchStage
  <2> QED
    BY <1>2, <1>4, <2>2, ThreadSyncAssumption DEF Missing, SearchOps, MethodOps
<1>5. CASE c.op \in MethodOps
  <2>1. MethodStage(m)
    BY <1>1, <1>3, <1>5 DEF Stage
  <2> QED
    BY <1>2, <1>5, <2>1 DEF MethodStage, Missing, SearchOps, MethodOps
<1>6. CASE c.op = "release_instance"
  <2>1. ReleaseStage(m)
    BY <1>1, <1>3, <1>6 DEF Stage
  <2> QED
    BY <1>1, <1>2, <1>6, <2>1 DEF ReleaseStage, Missing, SearchOps, MethodOps
<1> QED
  BY <1>1, <1>2, <1>4, <1>5, <1>6 DEF Missing, SearchOps

\* The fault changes nothing else.
LEMMA NullCallKeeps ==
  ASSUME SyncIInv, NullCall
  PROVE  SyncIInv'
<1> USE DEF SyncIInv
<1>1. UNCHANGED <<data, mutex, sem, posted, begun, session>>
  BY DEF NullCall
<1>2. SyncTyped' /\ MutexHeld' /\ OnePosted' /\ RunOnce'
  BY <1>1 DEF SyncTyped, MutexHeld, OnePosted, RunOnce
<1>3. \A s \in Sessions : Stage(s)' = Stage(s) /\ Busy(s)' = Busy(s)
  BY <1>1 DEF Stage, SearchStage, MethodStage, ReleaseStage, Answer, ValueAnswered, Busy
<1>4. AloneUndisturbed'
  BY <1>1, <1>3 DEF AloneUndisturbed
<1> QED
  BY <1>2, <1>4

-----------------------------------------------------------------------------
\* At first nobody calls, and nothing is posted.
LEMMA SyncInitially == SyncInit => SyncIInv
<1> SUFFICES ASSUME SyncInit PROVE SyncIInv
  OBVIOUS
<1>1. NoNode \in Nodes /\ NoNode.methods = {} /\ 0 \in Oids
  BY DEF Nodes, NoNode, Oids
<1>2. NoneHeld \in NodeInstances /\ NoCall \in Calls
  <2>1. {} \in Methods
    BY <1>1 DEF Methods
  <2> QED
    BY <1>1, <2>1 DEF NoneHeld, NodeInstances, NoCall, Calls
<1> DEFINE first == [pc |-> "idle", calls |-> 0, call |-> NoCall, held |-> NoneHeld,
                     alone |-> FALSE, ran |-> FALSE, value |-> <<>>, result |-> "none"]
<1>3. DOMAIN session = Sessions /\ session = [s \in Sessions |-> session[s]]
      /\ \A s \in Sessions : session[s] = first
  BY DEF SyncInit
<1>4. SessionTyped(first)
  BY <1>2 DEF SessionTyped, Pcs, Values, Results
<1>5. SyncTyped
  BY <1>1, <1>2, <1>3, <1>4 DEF SyncInit, SyncTyped, Results, NotBegun
<1> QED
  BY <1>3, <1>5, ThreadSyncAssumption
  DEF SyncInit, SyncIInv, MutexHeld, OnePosted, RunOnce, AloneUndisturbed, NotBegun

\* Every step of NodeAccess is one of these or leaves the synchronisation as it is.
LEMMA SyncInductive == SyncIInv /\ [Next]_vars => SyncIInv'
<1> SUFFICES ASSUME SyncIInv, [Next]_vars
             PROVE  SyncIInv'
  OBVIOUS
<1>1. CASE UNCHANGED syncVars
  <2> USE <1>1 DEF syncVars, SyncIInv
  <2>1. SyncTyped'
    BY DEF SyncTyped
  <2>2. MutexHeld' /\ OnePosted' /\ RunOnce'
    BY DEF MutexHeld, OnePosted, RunOnce
  <2>3. \A s \in Sessions : Stage(s)' = Stage(s) /\ Busy(s)' = Busy(s)
    BY DEF Stage, SearchStage, MethodStage, ReleaseStage, Answer, ValueAnswered, Busy
  <2>4. AloneUndisturbed'
    BY <2>3 DEF AloneUndisturbed
  <2> QED
    BY <2>1, <2>2, <2>4
<1>2. CASE SyncStep
  <2>1. ASSUME NEW s \in Sessions, SessionStep(s)
        PROVE  SyncIInv'
    BY <2>1, AssignKeeps, LockKeeps, PostKeeps, WakeKeeps, UnlockKeeps, ReturnKeeps DEF SessionStep
  <2>2. ASSUME NEW s \in Sessions, Call(s)
        PROVE  SyncIInv'
    BY <2>2, LookupKeeps, LookupRefusedKeeps, MethodKeeps, ReleaseKeeps DEF Call, MethodOps
  <2> QED
    BY <1>2, <2>1, <2>2, BeginKeeps, NullCallKeeps, ExecuteKeeps DEF SyncStep, TargetStep
<1> QED
  BY <1>1, <1>2 DEF Next, vars

\* A fault ends the synchronisation, and is of a call another session disturbed.
LEMMA FaultsAreOfNoneAlone ==
  SyncIInv /\ AloneNeverFaults /\ [Next]_vars => AloneNeverFaults'
<1> SUFFICES ASSUME SyncIInv, AloneNeverFaults, [Next]_vars
             PROVE  AloneNeverFaults'
  OBVIOUS
<1>1. CASE UNCHANGED syncVars
  BY <1>1 DEF syncVars, AloneNeverFaults
<1>2. CASE SyncStep
  <2>1. CASE NullCall
    <3>1. mutex \in Sessions /\ ~session[mutex].alone /\ UNCHANGED <<mutex, session>>
      BY <2>1, NullCallIsOfNoneAlone DEF NullCall
    <3> QED
      BY <3>1 DEF AloneNeverFaults
  <2>2. CASE fault' = fault
    BY <1>2, <2>2 DEF SyncStep, AloneNeverFaults
  <2>3. ASSUME NEW s \in Sessions, SessionStep(s)
        PROVE  fault' = fault
    BY <2>3 DEF SessionStep, Assign, Lock, Post, Wake, Unlock, Return
  <2>4. ASSUME NEW s \in Sessions, Call(s)
        PROVE  fault' = fault
    BY <2>4 DEF Call, Lookup, LookupRefused, Method, Release, Releases
  <2> QED
    BY <1>2, <2>1, <2>2, <2>3, <2>4 DEF SyncStep, TargetStep, Begin, Execute
<1> QED
  BY <1>1, <1>2 DEF Next, vars

\* SyncIInv holds in every reachable state.
LEMMA SyncIInvHolds == Spec => []SyncIInv
<1>1. Init => SyncIInv
  BY SyncInitially DEF Init
<1> QED
  BY <1>1, SyncInductive, PTL DEF Spec

\* For every number of sessions, nodes and instances, no function of a session that no
\* other one called in between finds its node or its method cleared, although do_sync()
\* clears them outside the mutex (snmp_threadsync.c:183).
THEOREM NoFaultAlone == Spec => []AloneNeverFaults
<1>1. Init => AloneNeverFaults
  BY DEF Init, SyncInit, AloneNeverFaults
<1> QED
  BY <1>1, SyncIInvHolds, FaultsAreOfNoneAlone, PTL DEF Spec

\* For every number of sessions, nodes and instances, a call goes on only after its own
\* function has run, and a session no other one called in between has the target's
\* answer and meets no cleared pointer (src/src/snmp_threadsync.c).
THEOREM OwnAnswerHolds == Spec => []OwnAnswer
<1>1. SyncIInv /\ AloneNeverFaults => OwnAnswer
  BY DEF SyncIInv, RunOnce, AloneUndisturbed, Stage, OwnAnswer
<1> QED
  BY <1>1, SyncIInvHolds, NoFaultAlone, PTL
=============================================================================
