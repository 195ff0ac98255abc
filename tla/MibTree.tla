------------------------------ MODULE MibTree ------------------------------
(***************************************************************************)
(* The lookup of object instances in the agent's MIBs (src/snmp_core.c)    *)
(* with the node types of src/snmp_scalar.c and src/snmp_table.c: GET by   *)
(* the exact OID, GETNEXT by a search that goes through the instances of a *)
(* node, the nodes of a MIB and the MIBs, which may be nested.             *)
(*                                                                         *)
(* An OID is a sequence of arcs.  A MIB has the OID of its root, the paths *)
(* from there to its tree nodes and a leaf node at the end of other paths. *)
(* The node stack of snmp_mib_tree_resolve_next() is the path to the node  *)
(* on its top.                                                             *)
(***************************************************************************)
EXTENDS Naturals, Sequences, SequencesExt, FiniteSetsExt

CONSTANTS
  MaxArc,     \* the largest arc; 2^32 - 1 in the code
  MibSets,    \* the values of snmp_mibs considered
  Oids,       \* the OIDs asked for
  MaxHidden   \* bound: number of instances the caller does not accept

ASSUME ConstantsAssumption ==
  /\ MaxArc \in Nat \ {0}
  /\ MaxHidden \in Nat
  /\ Oids \subseteq Seq(0 .. MaxArc)

VARIABLES
  mibs,        \* snmp_mibs
  valid,       \* the instances validate_node_instance_method accepts
  op,          \* "get" or "getNext"
  oid,         \* the OID asked for
  pc,          \* where the search is
  mib,         \* the MIB it is in
  start_oid,
  node_oid,    \* the node it has reached; at the end the instance
  instance_oid,
  node_stack,  \* the tree node snmp_mib_tree_resolve_next() is at
  subnode_oid, \* the least arc it may go on with
  held         \* instances obtained and not released

request == <<mibs, valid, op, oid>>
resolving == <<node_stack, subnode_oid>>
vars == <<request, pc, mib, start_oid, node_oid, instance_oid, resolving, held>>

NoMib == [base |-> <<>>, trees |-> {}, leaves |-> <<>>]
NoInstance == <<>>

-----------------------------------------------------------------------------
(* OIDs and MIBs.                                                          *)

\* snmp_oid_compare(s, t) < 0
OidLess(s, t) ==
  \/ IsStrictPrefix(s, t)
  \/ \E i \in 1 .. Min({Len(s), Len(t)}) :
       s[i] < t[i] /\ \A j \in 1 .. i - 1 : s[j] = t[j]

Least(S) == CHOOSE s \in S : \A t \in S \ {s} : OidLess(s, t)
LeastMib(S) == CHOOSE m \in S : \A n \in S : ~OidLess(n.base, m.base)

\* Arcs are unsigned 32-bit numbers.
NextArc(a) == (a + 1) % (MaxArc + 1)

\* snmp_get_mib_from_oid(): the MIB with the longest base OID the OID is under.
\* (Mutated: the shortest.)
ShortestMibFromOid(o) ==
  LET around == {m \in mibs : IsPrefix(m.base, o)}
  IN  IF around = {} THEN NoMib
      ELSE CHOOSE m \in around : \A n \in around : Len(n.base) >= Len(m.base)
MibFromOid(o) ==
  LET around == {m \in mibs : IsPrefix(m.base, o)}
  IN  IF around = {} THEN NoMib
      ELSE CHOOSE m \in around : \A n \in around : Len(n.base) <= Len(m.base)

\* snmp_get_next_mib(): the first MIB whose base OID is behind the OID.
NextMib(o) ==
  LET behind == {m \in mibs : OidLess(o, m.base)}
  IN  IF o = <<>> \/ behind = {} THEN NoMib ELSE LeastMib(behind)

\* snmp_get_mib_between()
MibBetween(o, p) ==
  LET next == NextMib(o)
  IN  IF next # NoMib /\ OidLess(next.base, p) THEN next ELSE NoMib

Relative(m, o) == SubSeq(o, Len(m.base) + 1, Len(o))

\* snmp_mib_tree_resolve_exact(): the path of the leaf node the OID leads to or
\* through.  It does not look at the part of the OID before the MIB's root.
ExactLeaves(m, o) == {p \in DOMAIN m.leaves : IsPrefix(p, Relative(m, o))}

Subnodes(m, path) ==
  {Last(p) : p \in {q \in m.trees \cup DOMAIN m.leaves : q # <<>> /\ Front(q) = path}}

-----------------------------------------------------------------------------
(* get_next_instance() of the node types: the instance behind another one, *)
(* all of them behind the empty OID.                                       *)

\* snmp_scalar_get_next_instance()
NextScalar(leaf, inst) == IF inst = <<>> THEN <<0>> ELSE NoInstance

\* snmp_scalar_array_get_next_instance(); distances of 2^32 - 1 are not found.
NextInArray(leaf, inst) ==
  LET oids == IF inst = <<>> THEN leaf.cols
              ELSE {a \in leaf.cols : \/ inst = <<a>>
                                      \/ (a > inst[1] /\ a - inst[1] < MaxArc)}
  IN  IF oids = {} THEN NoInstance ELSE <<Min(oids), 0>>

\* get_next_cell_instance() of the application, with snmp_next_oid_check().
Row(cell) == SubSeq(cell, 3, Len(cell))
CellsBehind(leaf, col, row) ==
  {cell \in leaf.cells : cell[2] = col /\ OidLess(row, Row(cell))}

\* snmp_table_get_next_instance(): the row goes with the first column that is
\* not before the one asked for, whether or not it is that column.
\* (Mutated: the row is kept for the columns that follow.)
NextInTableKeepingRow(leaf, inst) ==
  LET column == IF Len(inst) > 1 THEN inst[2] ELSE 0
      cells == {cell \in leaf.cells : cell[2] >= column /\ OidLess(Row(inst), Row(cell))}
  IN  IF (Len(inst) > 0 /\ inst[1] > 1) \/ cells = {} THEN NoInstance ELSE Least(cells)

NextInTable(leaf, inst) ==
  LET column == IF Len(inst) > 1 THEN inst[2] ELSE 0
      cols == {c \in leaf.cols : c >= column}
      behind == CellsBehind(leaf, Min(cols), Row(inst))
      later == UNION {CellsBehind(leaf, c, <<>>) :
                        c \in {d \in leaf.cols : d >= NextArc(Min(cols))}}
  IN  IF (Len(inst) > 0 /\ inst[1] > 1) \/ cols = {} THEN NoInstance
      ELSE IF behind # {} THEN Least(behind)
      ELSE IF later # {} THEN Least(later)
      ELSE NoInstance

NextInstance(leaf, inst) ==
  CASE leaf.kind = "scalar" -> NextScalar(leaf, inst)
    [] leaf.kind = "array" -> NextInArray(leaf, inst)
    [] leaf.kind = "table" -> NextInTable(leaf, inst)

\* get_instance() of the node types.
IsInstance(leaf, inst) ==
  CASE leaf.kind = "scalar" -> inst = <<0>>
    [] leaf.kind = "array" -> Len(inst) = 2 /\ inst[2] = 0 /\ inst[1] \in leaf.cols
    [] leaf.kind = "table" -> /\ Len(inst) >= 3 /\ inst[1] = 1
                              /\ inst[2] \in leaf.cols /\ inst \in leaf.cells

\* All instances, by their complete OIDs.
InstancesOf(m) == UNION {{m.base \o p \o c : c \in m.leaves[p].cells} : p \in DOMAIN m.leaves}
Instances == UNION {InstancesOf(m) : m \in mibs}

\* What an application puts into snmp_mibs: an array of MIBs with a base OID; above
\* every node of a MIB are tree nodes, and a leaf node is no tree node.
WellFormedLeaf(leaf) ==
  /\ leaf.kind \in {"scalar", "array", "table"}
  /\ IsFiniteSet(leaf.cells) /\ leaf.cells \subseteq Seq(0 .. MaxArc)
  /\ leaf.cols \subseteq 0 .. MaxArc
  /\ leaf.kind = "scalar" => leaf.cells = {<<0>>}
  /\ leaf.kind = "array" => leaf.cells = {<<a, 0>> : a \in leaf.cols}
  /\ leaf.kind = "table" =>
       \A cell \in leaf.cells : Len(cell) >= 3 /\ cell[1] = 1 /\ cell[2] \in leaf.cols
WellFormedMib(m) ==
  /\ m.base # <<>> /\ m.base \in Seq(0 .. MaxArc)
  /\ m.trees \cup DOMAIN m.leaves \subseteq Seq(0 .. MaxArc)
  /\ m.trees \cap DOMAIN m.leaves = {}
  /\ \A p \in m.trees \cup DOMAIN m.leaves : \A k \in 0 .. Len(p) - 1 : SubSeq(p, 1, k) \in m.trees
  /\ \A p \in DOMAIN m.leaves : WellFormedLeaf(m.leaves[p])

ASSUME MibsAssumption ==
  \A set \in MibSets : IsFiniteSet(set) /\ \A m \in set : WellFormedMib(m)

\* What some theorems ask of the MIBs beyond that: no MIB is rooted at, under or above a
\* leaf node of another MIB it is nested in, and no two MIBs have the same root;
Apart(set) ==
  \A m \in set : \A n \in set \ {m} :
    IsPrefix(m.base, n.base) =>
      /\ m.base # n.base
      /\ \A p \in DOMAIN m.leaves : /\ ~IsPrefix(m.base \o p, n.base)
                                    /\ ~IsPrefix(n.base, m.base \o p)
\* and no node or column has the largest arc.
NoLargestArc(set) ==
  \A m \in set :
    /\ {m.base} \cup m.trees \cup DOMAIN m.leaves \subseteq Seq(0 .. MaxArc - 1)
    /\ \A p \in DOMAIN m.leaves : m.leaves[p].cols \subseteq 0 .. MaxArc - 1

-----------------------------------------------------------------------------
Init ==
  /\ mibs \in MibSets
  /\ \E hidden \in UNION {kSubset(k, Instances) : k \in 0 .. MaxHidden} :
       valid = Instances \ hidden
  /\ op \in {"get", "getNext"}
  /\ oid \in Oids
  /\ pc = "start"
  /\ mib = NoMib
  /\ start_oid = <<>>
  /\ node_oid = <<>>
  /\ instance_oid = <<>>
  /\ node_stack = <<>>
  /\ subnode_oid = 0
  /\ held = 0

\* snmp_get_node_instance_from_oid(), all of it; on success node_oid is set to
\* the OID here to have the results of GET and GETNEXT in one place.
Get ==
  /\ pc = "start" /\ op = "get"
  /\ LET m == MibFromOid(oid)
         found == m # NoMib /\ \E p \in ExactLeaves(m, oid) :
                    IsInstance(m.leaves[p],
                               SubSeq(Relative(m, oid), Len(p) + 1, Len(Relative(m, oid))))
     IN  /\ pc' = IF found THEN "found" ELSE "notFound"
         /\ mib' = m
         /\ node_oid' = IF found THEN oid ELSE <<>>
         /\ held' = IF found THEN held + 1 ELSE held
  /\ UNCHANGED <<request, start_oid, instance_oid, resolving>>

\* (Mutated: the starting point stays.)
EnterMibKeepingStart(m) ==
  /\ mib' = m
  /\ pc' = IF m = NoMib THEN "notFound" ELSE "mib"
  /\ UNCHANGED start_oid

EnterMib(m) ==
  /\ mib' = m
  /\ IF m = NoMib THEN pc' = "notFound" /\ UNCHANGED start_oid
                  ELSE pc' = "mib" /\ start_oid' = m.base

\* The MIB the OID is in, or else the next one from its beginning.
GetNext ==
  /\ pc = "start" /\ op = "getNext"
  /\ IF MibFromOid(oid) = NoMib
     THEN EnterMib(NextMib(oid))
     ELSE mib' = MibFromOid(oid) /\ start_oid' = oid /\ pc' = "mib"
  /\ UNCHANGED <<request, node_oid, instance_oid, resolving, held>>

\* The OID leads to a leaf node of the MIB, or through one.
ResolveExact ==
  /\ pc = "mib"
  /\ \E p \in ExactLeaves(mib, start_oid) :
       LET len == Len(mib.base) + Len(p)
       IN  /\ node_oid' = SubSeq(start_oid, 1, len)
           /\ instance_oid' = SubSeq(start_oid, len + 1, Len(start_oid))
  /\ pc' = "instance"
  /\ UNCHANGED <<request, mib, start_oid, resolving, held>>

\* The first part of snmp_mib_tree_resolve_next(): down the tree nodes of the
\* OID as far as they go.
\* (Mutated: the arc that does not lead to a tree node is tried again.)
ResolveNextFromSame(o) ==
  LET rel == Relative(mib, o)
      paths == {p \in mib.trees : IsPrefix(p, rel)}
      path == CHOOSE p \in paths : \A q \in paths : Len(q) <= Len(p)
  IN  IF <<>> \notin mib.trees THEN pc' = "noNode" /\ UNCHANGED resolving
      ELSE /\ pc' = "level"
           /\ node_stack' = path
           /\ subnode_oid' = IF path = rel THEN 0 ELSE rel[Len(path) + 1]
ResolveNext(o) ==
  LET rel == Relative(mib, o)
      paths == {p \in mib.trees : IsPrefix(p, rel)}
      path == CHOOSE p \in paths : \A q \in paths : Len(q) <= Len(p)
  IN  IF <<>> \notin mib.trees THEN pc' = "noNode" /\ UNCHANGED resolving
      ELSE /\ pc' = "level"
           /\ node_stack' = path
           /\ subnode_oid' = IF path = rel THEN 0 ELSE NextArc(rel[Len(path) + 1])

SearchNode ==
  /\ pc = "mib"
  /\ ExactLeaves(mib, start_oid) = {}
  /\ instance_oid' = <<>>
  /\ ResolveNext(start_oid)
  /\ UNCHANGED <<request, mib, start_oid, node_oid, held>>

\* The rest of snmp_mib_tree_resolve_next(): the least subnode not yet passed,
\* or up to the parent node.
Ahead == {a \in Subnodes(mib, node_stack) : a >= subnode_oid}

LevelUp ==
  /\ pc = "level" /\ Ahead = {}
  /\ IF node_stack = <<>>
     THEN pc' = "noNode" /\ UNCHANGED resolving
     ELSE /\ node_stack' = Front(node_stack)
          /\ subnode_oid' = NextArc(Last(node_stack))
          /\ UNCHANGED pc
  /\ UNCHANGED <<request, mib, start_oid, node_oid, instance_oid, held>>

LevelDown ==
  /\ pc = "level" /\ Ahead # {}
  /\ LET path == Append(node_stack, Min(Ahead))
     IN  IF path \in mib.trees
         THEN /\ node_stack' = path
              /\ subnode_oid' = 0
              /\ UNCHANGED <<pc, node_oid, instance_oid>>
         ELSE /\ pc' = "instance"
              /\ node_oid' = mib.base \o path
              /\ instance_oid' = <<>>
              /\ UNCHANGED resolving
  /\ UNCHANGED <<request, mib, start_oid, held>>

Leaf == mib.leaves[Relative(mib, node_oid)]

\* get_next_instance() finds an instance, which from now on is to be released; the
\* caller accepts it or not.
InstanceFound ==
  /\ pc = "instance"
  /\ LET inst == NextInstance(Leaf, instance_oid)
     IN  /\ inst # NoInstance
         /\ instance_oid' = inst
         /\ IF node_oid \o inst \in valid
            THEN node_oid' = node_oid \o inst /\ pc' = "between"
            ELSE pc' = "refused" /\ UNCHANGED node_oid
  /\ held' = held + 1
  /\ UNCHANGED <<request, mib, start_oid, resolving>>

\* An instance the caller does not accept is released, and the search goes on
\* behind it.  (Mutated: it is not released.)
RefuseInstanceWithoutRelease ==
  /\ pc = "refused"
  /\ pc' = "instance"
  /\ UNCHANGED <<request, mib, start_oid, node_oid, instance_oid, resolving, held>>

RefuseInstance ==
  /\ pc = "refused"
  /\ pc' = "instance"
  /\ held' = held - 1
  /\ UNCHANGED <<request, mib, start_oid, node_oid, instance_oid, resolving>>

\* The node has no further instance.  Nothing is held here: the fields of the
\* instance, its release function among them, were cleared before it was asked.
NodeExhausted ==
  /\ pc = "instance"
  /\ NextInstance(Leaf, instance_oid) = NoInstance
  /\ ResolveNext(node_oid)
  /\ UNCHANGED <<request, mib, start_oid, node_oid, instance_oid, held>>

\* Another MIB may have its root between start_oid and the instance found.
CheckBetween ==
  /\ pc = "between"
  /\ LET m == MibBetween(start_oid, node_oid)
     IN  IF m = NoMib THEN pc' = "found" /\ UNCHANGED <<mib, start_oid, held>>
         ELSE EnterMib(m) /\ held' = held - 1
  /\ UNCHANGED <<request, node_oid, instance_oid, resolving>>

\* No node is left in this MIB: on with one nested in it, with the one around
\* it, or with the next one.  A MIB with a base OID of one arc is not left.
NextMibNested == LET next == NextMib(start_oid)
                 IN  next # NoMib /\ IsStrictPrefix(mib.base, next.base)
Surrounding == MibFromOid(Front(mib.base))

\* (Mutated: the surrounding MIB is searched from its beginning.)
LeaveMibRestarting ==
  /\ pc = "noNode"
  /\ IF NextMibNested THEN EnterMib(NextMib(start_oid))
     ELSE IF Len(mib.base) = 1 THEN pc' = "mib" /\ UNCHANGED <<mib, start_oid>>
     ELSE IF Surrounding # NoMib THEN EnterMib(Surrounding)
     ELSE EnterMib(NextMib(start_oid))
  /\ UNCHANGED <<request, node_oid, instance_oid, resolving, held>>

LeaveMib ==
  /\ pc = "noNode"
  /\ IF NextMibNested THEN EnterMib(NextMib(start_oid))
     ELSE IF Len(mib.base) = 1 THEN pc' = "mib" /\ UNCHANGED <<mib, start_oid>>
     ELSE IF Surrounding # NoMib
          THEN mib' = Surrounding /\ pc' = "mib" /\ UNCHANGED start_oid
     ELSE EnterMib(NextMib(start_oid))
  /\ UNCHANGED <<request, node_oid, instance_oid, resolving, held>>

Next == \/ Get \/ GetNext \/ ResolveExact \/ SearchNode \/ LevelUp \/ LevelDown
        \/ InstanceFound \/ RefuseInstance \/ NodeExhausted \/ CheckBetween \/ LeaveMib

Spec == Init /\ [][Next]_vars /\ WF_vars(Next)

-----------------------------------------------------------------------------
(* Properties.                                                             *)

\* GET finds an instance exactly when there is one with this OID in some MIB,
\* although only the innermost MIB around the OID is looked at.
GetFindsInstance ==
  op = "get" =>
    /\ pc = "found" => node_oid = oid /\ oid \in Instances
    /\ pc = "notFound" => oid \notin Instances

\* The OID asked for has a row but names no column of the table, or has 0 in the
\* place of the row entry.
RowWithoutColumn ==
  LET m == MibFromOid(oid)
  IN  \E p \in ExactLeaves(m, oid) :
        LET inst == SubSeq(Relative(m, oid), Len(p) + 1, Len(Relative(m, oid)))
        IN  /\ m.leaves[p].kind = "table" /\ Len(inst) > 1
            /\ \/ inst[1] = 0
               \/ Len(inst) > 2 /\ inst[2] \notin m.leaves[p].cols

\* What GETNEXT returns is the first acceptable instance behind the OID, in
\* whichever MIB that is, and none only when there is none.
GetNextIsNext ==
  LET behind == {o \in valid : OidLess(oid, o)}
  IN  op = "getNext" =>
        /\ pc = "found" => behind # {} /\ node_oid = Least(behind)
        /\ pc = "notFound" => behind = {}

\* The same for the OIDs that occur when a manager walks the MIB: those that name
\* a column before a row, and neither are empty nor contain the largest arc.
GetNextIsNextOnWalk ==
  oid = <<>> \/ RowWithoutColumn \/ MaxArc \in ToSet(oid) \/ GetNextIsNext

\* The search only compares arcs behind the root of a MIB; it may do so because
\* wherever it continues, its starting point is under that root.
SearchWithinMib ==
  pc \in {"mib", "level", "instance", "refused", "between", "noNode"} => IsPrefix(mib.base, start_oid)

\* Whenever the search goes on in another MIB, its starting point moves forward,
\* or stays where it is while the MIB is one further out; it never comes back.
Advances ==
  \/ OidLess(start_oid, start_oid')
  \/ start_oid' = start_oid /\ Len(mib'.base) < Len(mib.base)
SearchAdvances == [][pc # "start" /\ pc' = "mib" => Advances]_vars

\* At the end exactly the instance that is returned is still held; those that
\* were not accepted, or were overtaken by one of another MIB, are released, and
\* before the next one is asked for: it overwrites their release function.
OnlyResultHeld ==
  /\ pc = "instance" => held = 0
  /\ pc = "found" => held = 1
  /\ pc = "notFound" => held = 0

\* A search ends.
SearchEnds == <>(pc \in {"found", "notFound"})
=============================================================================
