----------------------------- MODULE MCMibTree -----------------------------
(***************************************************************************)
(* Small MIBs and the OIDs around their instances, for model checking      *)
(* MibTree.                                                                *)
(***************************************************************************)
EXTENDS MibTree, TLC

Scalar == [kind |-> "scalar", cols |-> {}, cells |-> {<<0>>}]
Array(oids) == [kind |-> "array", cols |-> oids, cells |-> {<<a, 0>> : a \in oids}]
Table(cols, rows) ==
  [kind |-> "table", cols |-> cols,
   cells |-> {<<1, c>> \o r : c \in {d \in cols : d # 2}, r \in rows}]

\* A scalar in a subtree and one behind the MIB that is nested between them.
Outer == [base |-> <<1, 1>>, trees |-> {<<>>, <<1>>},
          leaves |-> <<1, 0>> :> Scalar @@ <<3>> :> Scalar]
Nested == [base |-> <<1, 1, 2>>, trees |-> {<<>>, <<0>>}, leaves |-> <<1>> :> Array({0, 2})]
\* A MIB that is one leaf node.
Innermost == [base |-> <<1, 1, 2, 2>>, trees |-> {}, leaves |-> <<>> :> Scalar]
\* Column 2 has no rows.
Behind == [base |-> <<1, 2>>, trees |-> {<<>>},
           leaves |-> <<1>> :> Table({1, 2, 3}, {<<1>>, <<1, 2>>})
                   @@ <<2>> :> Table({1}, {<<0>>})]
Empty == [base |-> <<1, 1, 3>>, trees |-> {<<>>}, leaves |-> <<>>]

SomeMibSets == {{Outer, Nested, Innermost, Behind}, {Nested, Innermost, Empty},
                {[Outer EXCEPT !.leaves = <<1, 0>> :> Scalar], Empty, Innermost, Behind}}

\* The theorems about the search are about MIBs like these.
ASSUME TheoremsApply == \A set \in SomeMibSets : Apart(set) /\ NoLargestArc(set)

\* A MIB whose base OID has one arc.
ShortMibSets == {{[Outer EXCEPT !.base = <<1>>], [Behind EXCEPT !.base = <<2>>]}}

Beginnings == UNION {{SubSeq(o, 1, k) : k \in 1 .. Len(o)} :
                     o \in UNION {InstancesOf(m) : m \in UNION (SomeMibSets \cup ShortMibSets)}}
Arcs == 0 .. MaxArc
NearbyOids == Beginnings \cup {Front(p) \o <<a>> : p \in Beginnings, a \in Arcs}
                       \cup {p \o <<a>> : p \in Beginnings, a \in Arcs}

\* OIDs with a row behind a column of the table, behind one it has not, or behind 0
\* in the place of the row entry.
RowOids == {Behind.base \o <<1, entry, col, row>> : entry \in {0, 1}, col \in 0 .. 3, row \in {1, 2}}

\* The empty OID is decoded too.
AnyOids == NearbyOids \cup RowOids \cup {<<>>}
=============================================================================
