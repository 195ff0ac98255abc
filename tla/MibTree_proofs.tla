--------------------------- MODULE MibTree_proofs ---------------------------
(***************************************************************************)
(* Proofs about MibTree, for every set of MIBs and every OID.              *)
(***************************************************************************)
EXTENDS MibTree, FiniteSetTheorems, WellFoundedInduction, TLAPS

\* An instance is held from the moment get_next_instance() returned it: until it is
\* refused, while the MIBs in between are looked for, and at the end.
HeldInv == held = IF pc \in {"refused", "between", "found"} THEN 1 ELSE 0

\* Every step keeps the count of held instances right.
LEMMA HeldInvStep == HeldInv /\ [Next]_vars => HeldInv'
<1> SUFFICES ASSUME HeldInv, [Next]_vars
             PROVE  HeldInv'
  OBVIOUS
<1> USE DEF HeldInv
<1>1. CASE Get
  BY <1>1 DEF Get
<1>2. CASE GetNext
  BY <1>2 DEF GetNext, EnterMib
<1>3. CASE ResolveExact
  BY <1>3 DEF ResolveExact
<1>4. CASE SearchNode
  BY <1>4 DEF SearchNode, ResolveNext
<1>5. CASE LevelUp
  BY <1>5 DEF LevelUp
<1>6. CASE LevelDown
  BY <1>6 DEF LevelDown
<1>7. CASE InstanceFound
  BY <1>7 DEF InstanceFound
<1>7r. CASE RefuseInstance
  BY <1>7r DEF RefuseInstance
<1>8. CASE NodeExhausted
  BY <1>8 DEF NodeExhausted, ResolveNext
<1>9. CASE CheckBetween
  BY <1>9 DEF CheckBetween, EnterMib
<1>10. CASE LeaveMib
  BY <1>10 DEF LeaveMib, EnterMib
<1>11. CASE UNCHANGED vars
  BY <1>11 DEF vars
<1>12. QED
  BY <1>1, <1>2, <1>3, <1>4, <1>5, <1>6, <1>7, <1>7r, <1>8, <1>9, <1>10, <1>11 DEF Next

\* Whatever MIBs there are and whichever instances the caller refuses, a lookup
\* leaves exactly the instance it returns to be released.
THEOREM ResultHeld == Spec => []OnlyResultHeld
<1>1. Init => HeldInv
  BY DEF Init, HeldInv
<1>2. HeldInv => OnlyResultHeld
  BY DEF HeldInv, OnlyResultHeld
<1>3. QED
  BY <1>1, <1>2, HeldInvStep, PTL DEF Spec

-----------------------------------------------------------------------------
(* The order of OIDs.                                                      *)

\* An OID.
OID == Seq(Nat)

\* s is less than t, and differs from it behind its first k arcs.
LessAt(s, t, k) ==
  /\ k \in Nat /\ k <= Len(s) /\ k < Len(t)
  /\ \A j \in 1 .. k : s[j] = t[j]
  /\ k < Len(s) => s[k + 1] < t[k + 1]

\* The elements of a sequence are in its set.
LEMMA ElementOfSeq ==
  ASSUME NEW S, NEW s \in Seq(S), NEW i \in 1 .. Len(s)
  PROVE  s[i] \in S
OBVIOUS

\* The least element of a set of natural numbers.
LEMMA MinOfNats ==
  ASSUME NEW S \in SUBSET Nat, S # {}
  PROVE  Min(S) \in S /\ \A x \in S : Min(S) <= x
<1> DEFINE Less == OpToRel(<, Nat)
<1>1. \A a, b \in Nat : a < b => <<a, b>> \in Less
  BY DEF OpToRel
<1>2. IsWellFoundedOn(Less, Nat)
  BY NatLessThanWellFounded
<1> HIDE DEF Less
<1>3. PICK x \in S : \A y \in S : ~ (<<y, x>> \in Less)
  BY <1>2, WFMin
<1>4. ASSUME NEW y \in S
      PROVE  x =< y
  <2>1. x \in Nat /\ y \in Nat
    OBVIOUS
  <2>2. ~ (y < x)
    BY <1>1, <1>3, <2>1, Zenon
  <2>3. QED
    BY <2>1, <2>2
<1>5. QED
  BY <1>4 DEF Min

\* What it is to be a prefix, arc by arc.
LEMMA PrefixArcs ==
  ASSUME NEW s \in OID, NEW t \in OID
  PROVE  IsPrefix(s, t) <=> Len(s) <= Len(t) /\ \A j \in 1 .. Len(s) : s[j] = t[j]
BY DEF IsPrefix, OID

\* Two OIDs with the same arcs are the same.
LEMMA SameArcs ==
  ASSUME NEW s \in OID, NEW t \in OID, Len(s) = Len(t), \A j \in 1 .. Len(s) : s[j] = t[j]
  PROVE  s = t
BY DEF OID

\* snmp_oid_compare() looks for the first difference.
LEMMA LessWhere ==
  ASSUME NEW s \in OID, NEW t \in OID
  PROVE  OidLess(s, t) <=> \E k \in Nat : LessAt(s, t, k)
<1>1. Len(s) \in Nat /\ Len(t) \in Nat
  BY DEF OID
<1> DEFINE m == Min({Len(s), Len(t)})
<1>2. m \in {Len(s), Len(t)} /\ m <= Len(s) /\ m <= Len(t)
  BY <1>1, MinOfNats
<1> HIDE DEF m
<1>3. ASSUME OidLess(s, t)
      PROVE  \E k \in Nat : LessAt(s, t, k)
  <2>1. CASE IsStrictPrefix(s, t)
    <3>1. Len(s) <= Len(t) /\ s # t /\ \A j \in 1 .. Len(s) : s[j] = t[j]
      BY <2>1, PrefixArcs DEF IsStrictPrefix
    <3>2. Len(s) # Len(t)
      BY <3>1, SameArcs
    <3>3. LessAt(s, t, Len(s))
      BY <1>1, <3>1, <3>2 DEF LessAt
    <3>4. QED
      BY <1>1, <3>3
  <2>2. CASE \E i \in 1 .. m : s[i] < t[i] /\ \A j \in 1 .. i - 1 : s[j] = t[j]
    <3>1. PICK i \in 1 .. m : s[i] < t[i] /\ \A j \in 1 .. i - 1 : s[j] = t[j]
      BY <2>2
    <3>2. LessAt(s, t, i - 1)
      BY <1>1, <1>2, <3>1 DEF LessAt
    <3>3. i - 1 \in Nat
      BY <1>1, <1>2
    <3>4. QED
      BY <3>2, <3>3
  <2>3. QED
    BY <1>3, <2>1, <2>2 DEF OidLess, m
<1>4. ASSUME NEW k \in Nat, LessAt(s, t, k)
      PROVE  OidLess(s, t)
  <2>1. CASE k = Len(s)
    <3>1. IsPrefix(s, t) /\ s # t
      BY <1>1, <1>4, <2>1, PrefixArcs DEF LessAt
    <3>2. QED
      BY <3>1 DEF OidLess, IsStrictPrefix
  <2>2. CASE k < Len(s)
    <3>1. k + 1 \in 1 .. m /\ s[k + 1] < t[k + 1] /\ \A j \in 1 .. (k + 1) - 1 : s[j] = t[j]
      BY <1>1, <1>2, <1>4, <2>2 DEF LessAt
    <3>2. QED
      BY <3>1 DEF OidLess, m
  <2>3. QED
    BY <1>1, <1>4, <2>1, <2>2 DEF LessAt
<1>5. QED
  BY <1>3, <1>4

\* No OID is less than itself.
LEMMA LessIrreflexive ==
  ASSUME NEW s \in OID
  PROVE  ~OidLess(s, s)
<1>1. ASSUME NEW k \in Nat, LessAt(s, s, k)
      PROVE  FALSE
  <2>1. k + 1 \in 1 .. Len(s) /\ s[k + 1] < s[k + 1]
    BY <1>1 DEF LessAt, OID
  <2>2. s[k + 1] \in Nat
    BY <2>1 DEF OID
  <2>3. QED
    BY <2>1, <2>2
<1>2. QED
  BY <1>1, LessWhere

\* The order of OIDs is transitive.
LEMMA LessTransitive ==
  ASSUME NEW s \in OID, NEW t \in OID, NEW u \in OID, OidLess(s, t), OidLess(t, u)
  PROVE  OidLess(s, u)
<1>1. PICK k \in Nat : LessAt(s, t, k)
  BY LessWhere
<1>2. PICK l \in Nat : LessAt(t, u, l)
  BY LessWhere
<1>3. Len(s) \in Nat /\ Len(t) \in Nat /\ Len(u) \in Nat
  BY DEF OID
<1>4. /\ \A j \in 1 .. Len(s) : s[j] \in Nat
      /\ \A j \in 1 .. Len(t) : t[j] \in Nat
      /\ \A j \in 1 .. Len(u) : u[j] \in Nat
  BY DEF OID
<1>5. CASE k <= l
  <2>1. /\ k <= Len(s) /\ k < Len(u)
        /\ \A j \in 1 .. k : s[j] = u[j]
    BY <1>1, <1>2, <1>3, <1>5 DEF LessAt
  <2>2. ASSUME k < Len(s)
        PROVE  s[k + 1] < u[k + 1]
    <3>1. s[k + 1] < t[k + 1] /\ k + 1 \in 1 .. Len(s) /\ k + 1 \in 1 .. Len(t) /\ k + 1 \in 1 .. Len(u)
      BY <1>1, <1>3, <2>1, <2>2 DEF LessAt
    <3>2. t[k + 1] = u[k + 1] \/ t[k + 1] < u[k + 1]
      BY <1>2, <1>3, <1>5, <3>1 DEF LessAt
    <3>3. s[k + 1] \in Nat /\ t[k + 1] \in Nat /\ u[k + 1] \in Nat
      BY <1>4, <3>1
    <3>4. QED
      BY <3>1, <3>2, <3>3
  <2>3. LessAt(s, u, k)
    BY <2>1, <2>2 DEF LessAt
  <2>4. QED
    BY <2>3, LessWhere
<1>6. CASE l < k
  <2>1. /\ l < Len(s) /\ l < Len(t) /\ l < Len(u)
        /\ \A j \in 1 .. l : s[j] = u[j]
        /\ s[l + 1] = t[l + 1]
    BY <1>1, <1>2, <1>3, <1>6 DEF LessAt
  <2>2. s[l + 1] < u[l + 1]
    BY <1>2, <2>1 DEF LessAt
  <2>3. LessAt(s, u, l)
    BY <1>3, <2>1, <2>2 DEF LessAt
  <2>4. QED
    BY <2>3, LessWhere
<1>7. QED
  BY <1>5, <1>6

\* Of two OIDs, only one is less than the other.
LEMMA LessAsymmetric ==
  ASSUME NEW s \in OID, NEW t \in OID, OidLess(s, t)
  PROVE  ~OidLess(t, s)
BY LessTransitive, LessIrreflexive

\* Any two OIDs are ordered.
LEMMA LessTotal ==
  ASSUME NEW s \in OID, NEW t \in OID, ~OidLess(s, t), s # t
  PROVE  OidLess(t, s)
<1>1. Len(s) \in Nat /\ Len(t) \in Nat
  BY DEF OID
<1> DEFINE D == {k \in Nat : \/ k = Len(s) \/ k = Len(t)
                             \/ k < Len(s) /\ k < Len(t) /\ s[k + 1] # t[k + 1]}
<1>2. D \in SUBSET Nat /\ Len(s) \in D /\ Len(t) \in D
  BY <1>1
<1>3. PICK k \in D : \A x \in D : k <= x
  BY <1>2, MinOfNats, Zenon
<1>4. k \in Nat /\ k <= Len(s) /\ k <= Len(t)
  BY <1>2, <1>3
<1>5. \A j \in 1 .. k : s[j] = t[j]
  <2> SUFFICES ASSUME NEW j \in 1 .. k
               PROVE  s[j] = t[j]
    OBVIOUS
  <2>1. j - 1 \in Nat /\ j - 1 < k /\ j - 1 < Len(s) /\ j - 1 < Len(t) /\ (j - 1) + 1 = j
    BY <1>1, <1>4
  <2>2. j - 1 \notin D
    BY <1>2, <1>3, <1>4, <2>1
  <2>3. QED
    BY <2>1, <2>2
<1>6. \/ k = Len(s) \/ k = Len(t)
      \/ k < Len(s) /\ k < Len(t) /\ s[k + 1] # t[k + 1]
  BY <1>3
<1>7. CASE k = Len(s) /\ k = Len(t)
  BY <1>5, <1>7, SameArcs
<1>8. CASE k = Len(s) /\ k < Len(t)
  <2>1. LessAt(s, t, k)
    BY <1>4, <1>5, <1>8 DEF LessAt
  <2>2. QED
    BY <1>4, <2>1, LessWhere
<1>9. CASE k = Len(t) /\ k < Len(s)
  <2>1. LessAt(t, s, k)
    BY <1>4, <1>5, <1>9 DEF LessAt
  <2>2. QED
    BY <1>4, <2>1, LessWhere
<1>10. CASE k < Len(s) /\ k < Len(t) /\ s[k + 1] # t[k + 1]
  <2>0. k + 1 \in 1 .. Len(s) /\ k + 1 \in 1 .. Len(t)
    BY <1>1, <1>4, <1>10
  <2>1. s[k + 1] \in Nat /\ t[k + 1] \in Nat
    BY <2>0, ElementOfSeq DEF OID
  <2>2. CASE s[k + 1] < t[k + 1]
    <3>1. LessAt(s, t, k)
      BY <1>4, <1>5, <1>10, <2>2 DEF LessAt
    <3>2. QED
      BY <1>4, <3>1, LessWhere
  <2>3. CASE t[k + 1] < s[k + 1]
    <3>1. LessAt(t, s, k)
      BY <1>4, <1>5, <1>10, <2>3 DEF LessAt
    <3>2. QED
      BY <1>4, <3>1, LessWhere
  <2>4. QED
    BY <1>10, <2>1, <2>2, <2>3
<1>11. QED
  BY <1>4, <1>6, <1>7, <1>8, <1>9, <1>10, <1>1

\* A longer OID is behind its prefixes.
LEMMA PrefixLess ==
  ASSUME NEW s \in OID, NEW t \in OID, IsPrefix(s, t), s # t
  PROVE  OidLess(s, t) /\ Len(s) < Len(t)
<1>1. OidLess(s, t)
  BY DEF OidLess, IsStrictPrefix
<1>2. Len(s) <= Len(t) /\ \A j \in 1 .. Len(s) : s[j] = t[j]
  BY PrefixArcs
<1>3. Len(s) # Len(t)
  BY <1>2, SameArcs
<1>4. Len(s) \in Nat /\ Len(t) \in Nat
  BY DEF OID
<1>5. QED
  BY <1>1, <1>2, <1>3, <1>4

\* A prefix of a prefix is a prefix.
LEMMA PrefixTransitive ==
  ASSUME NEW s \in OID, NEW t \in OID, NEW u \in OID, IsPrefix(s, t), IsPrefix(t, u)
  PROVE  IsPrefix(s, u)
<1>1. /\ Len(s) <= Len(t) /\ \A j \in 1 .. Len(s) : s[j] = t[j]
      /\ Len(t) <= Len(u) /\ \A j \in 1 .. Len(t) : t[j] = u[j]
      /\ Len(s) \in Nat /\ Len(t) \in Nat /\ Len(u) \in Nat
  BY PrefixArcs DEF OID
<1>2. Len(s) <= Len(u) /\ \A j \in 1 .. Len(s) : s[j] = u[j]
  BY <1>1
<1>3. QED
  BY <1>2, PrefixArcs

\* Of two prefixes of an OID one is a prefix of the other.
LEMMA PrefixesNested ==
  ASSUME NEW s \in OID, NEW t \in OID, NEW u \in OID, IsPrefix(s, u), IsPrefix(t, u),
         Len(s) <= Len(t)
  PROVE  IsPrefix(s, t)
<1>1. /\ Len(s) <= Len(u) /\ \A j \in 1 .. Len(s) : s[j] = u[j]
      /\ Len(t) <= Len(u) /\ \A j \in 1 .. Len(t) : t[j] = u[j]
      /\ Len(s) \in Nat /\ Len(t) \in Nat /\ Len(u) \in Nat
  BY PrefixArcs DEF OID
<1>2. \A j \in 1 .. Len(s) : s[j] = t[j]
  BY <1>1
<1>3. QED
  BY <1>2, PrefixArcs

\* Prefixes of the same length are the same.
LEMMA PrefixSameLength ==
  ASSUME NEW s \in OID, NEW t \in OID, IsPrefix(s, t), Len(t) <= Len(s)
  PROVE  s = t
<1>1. /\ Len(s) <= Len(t) /\ \A j \in 1 .. Len(s) : s[j] = t[j]
      /\ Len(s) \in Nat /\ Len(t) \in Nat
  BY PrefixArcs DEF OID
<1>2. QED
  BY <1>1, SameArcs

\* An OID outside a subtree is before or behind all of it.
LEMMA SubtreeBefore ==
  ASSUME NEW u \in OID, NEW s \in OID, NEW r \in OID, NEW t \in OID,
         IsPrefix(u, s), IsPrefix(u, r), ~IsPrefix(u, t), OidLess(s, t)
  PROVE  OidLess(r, t)
<1>1. /\ Len(u) <= Len(s) /\ \A j \in 1 .. Len(u) : u[j] = s[j]
      /\ Len(u) <= Len(r) /\ \A j \in 1 .. Len(u) : u[j] = r[j]
      /\ Len(u) \in Nat /\ Len(s) \in Nat /\ Len(t) \in Nat /\ Len(r) \in Nat
  BY PrefixArcs DEF OID
<1>2. PICK k \in Nat : LessAt(s, t, k)
  BY LessWhere
<1>3. k < Len(u)
  <2>1. SUFFICES ASSUME Len(u) <= k
                 PROVE  FALSE
    BY <1>1
  <2>2. Len(u) <= Len(t) /\ \A j \in 1 .. Len(u) : u[j] = t[j]
    BY <1>1, <1>2, <2>1 DEF LessAt
  <2>3. QED
    BY <2>2, PrefixArcs
<1>4. k + 1 \in 1 .. Len(u) /\ \A j \in 1 .. k : s[j] = r[j]
  BY <1>1, <1>3
<1>5. s[k + 1] = r[k + 1] /\ k < Len(s) /\ k < Len(r) /\ k < Len(t)
  BY <1>1, <1>2, <1>3, <1>4 DEF LessAt
<1>6. LessAt(r, t, k)
  BY <1>1, <1>2, <1>4, <1>5 DEF LessAt
<1>7. QED
  BY <1>6, LessWhere

\* The other half of it.
LEMMA SubtreeBehind ==
  ASSUME NEW u \in OID, NEW s \in OID, NEW r \in OID, NEW t \in OID,
         IsPrefix(u, s), IsPrefix(u, r), ~IsPrefix(u, t), OidLess(t, s)
  PROVE  OidLess(t, r)
<1>1. /\ Len(u) <= Len(s) /\ \A j \in 1 .. Len(u) : u[j] = s[j]
      /\ Len(u) <= Len(r) /\ \A j \in 1 .. Len(u) : u[j] = r[j]
      /\ Len(u) \in Nat /\ Len(s) \in Nat /\ Len(t) \in Nat /\ Len(r) \in Nat
  BY PrefixArcs DEF OID
<1>2. PICK k \in Nat : LessAt(t, s, k)
  BY LessWhere
<1>3. k < Len(u)
  <2>1. SUFFICES ASSUME Len(u) <= k
                 PROVE  FALSE
    BY <1>1
  <2>2. Len(u) <= Len(t) /\ \A j \in 1 .. Len(u) : u[j] = t[j]
    BY <1>1, <1>2, <2>1 DEF LessAt
  <2>3. QED
    BY <2>2, PrefixArcs
<1>4. k + 1 \in 1 .. Len(u) /\ \A j \in 1 .. k : s[j] = r[j]
  BY <1>1, <1>3
<1>5. s[k + 1] = r[k + 1] /\ k < Len(s) /\ k < Len(r)
  BY <1>1, <1>2, <1>3, <1>4 DEF LessAt
<1>6. LessAt(t, r, k)
  BY <1>1, <1>2, <1>4, <1>5 DEF LessAt
<1>7. QED
  BY <1>6, LessWhere

\* What is between two OIDs of a subtree is in it.
LEMMA SubtreeConvex ==
  ASSUME NEW u \in OID, NEW s \in OID, NEW r \in OID, NEW t \in OID,
         IsPrefix(u, s), IsPrefix(u, r), OidLess(s, t), OidLess(t, r)
  PROVE  IsPrefix(u, t)
<1>1. SUFFICES ASSUME ~IsPrefix(u, t)
               PROVE  FALSE
  OBVIOUS
<1>2. OidLess(r, t)
  BY <1>1, SubtreeBefore
<1>3. QED
  BY <1>2, LessAsymmetric

\* An OID below another one.
LEMMA Concat ==
  ASSUME NEW u \in OID, NEW s \in OID
  PROVE  /\ u \o s \in OID /\ Len(u \o s) = Len(u) + Len(s)
         /\ \A j \in 1 .. Len(u) : (u \o s)[j] = u[j]
         /\ \A j \in 1 .. Len(s) : (u \o s)[Len(u) + j] = s[j]
         /\ IsPrefix(u, u \o s)
<1>1. /\ u \o s \in OID /\ Len(u \o s) = Len(u) + Len(s)
      /\ \A j \in 1 .. Len(u) : (u \o s)[j] = u[j]
      /\ \A j \in 1 .. Len(s) : (u \o s)[Len(u) + j] = s[j]
  BY DEF OID
<1>2. Len(u) \in Nat /\ Len(s) \in Nat
  BY DEF OID
<1>3. Len(u) <= Len(u \o s)
  BY <1>1, <1>2
<1>4. IsPrefix(u, u \o s)
  BY <1>1, <1>3, PrefixArcs
<1>5. QED
  BY <1>1, <1>4

\* The part of an OID behind the first of its two parts.
LEMMA Behind ==
  ASSUME NEW u \in OID, NEW s \in OID
  PROVE  SubSeq(u \o s, Len(u) + 1, Len(u \o s)) = s
<1> DEFINE r == SubSeq(u \o s, Len(u) + 1, Len(u \o s))
<1>1. Len(u) \in Nat /\ Len(s) \in Nat
  BY DEF OID
<1>2. r \in OID /\ Len(r) = Len(s)
  BY <1>1, Concat DEF OID
<1>3. \A j \in 1 .. Len(s) : r[j] = s[j]
  <2> SUFFICES ASSUME NEW j \in 1 .. Len(s)
               PROVE  r[j] = s[j]
    OBVIOUS
  <2>1. r[j] = (u \o s)[Len(u) + j]
    BY <1>1, Concat DEF OID
  <2>2. QED
    BY <2>1, Concat
<1> HIDE DEF r
<1>4. r = s
  BY <1>2, <1>3, SameArcs
<1>5. QED
  BY <1>4 DEF r

\* An OID is its prefix with the rest.
LEMMA SplitBehind ==
  ASSUME NEW u \in OID, NEW t \in OID, IsPrefix(u, t)
  PROVE  /\ SubSeq(t, Len(u) + 1, Len(t)) \in OID
         /\ t = u \o SubSeq(t, Len(u) + 1, Len(t))
<1> DEFINE r == SubSeq(t, Len(u) + 1, Len(t))
<1>1. /\ Len(u) \in Nat /\ Len(t) \in Nat /\ Len(u) <= Len(t)
      /\ \A j \in 1 .. Len(u) : u[j] = t[j]
  BY PrefixArcs DEF OID
<1>2. r \in OID /\ Len(r) = Len(t) - Len(u)
  BY <1>1 DEF OID
<1>3. \A j \in 1 .. Len(r) : r[j] = t[Len(u) + j]
  BY <1>1, <1>2 DEF OID
<1> HIDE DEF r
<1>4. Len(u \o r) = Len(t) /\ u \o r \in OID
  BY <1>1, <1>2, Concat
<1>5. \A j \in 1 .. Len(t) : (u \o r)[j] = t[j]
  <2> SUFFICES ASSUME NEW j \in 1 .. Len(t)
               PROVE  (u \o r)[j] = t[j]
    OBVIOUS
  <2>1. CASE j <= Len(u)
    BY <1>1, <1>2, <2>1, Concat
  <2>2. CASE Len(u) < j
    <3>1. j - Len(u) \in 1 .. Len(r) /\ Len(u) + (j - Len(u)) = j
      BY <1>1, <1>2, <2>2
    <3>2. (u \o r)[Len(u) + (j - Len(u))] = r[j - Len(u)]
      BY <1>2, <3>1, Concat
    <3>3. QED
      BY <1>3, <3>1, <3>2
  <2>3. j \in Nat /\ Len(u) \in Nat
    BY <1>1
  <2>4. j <= Len(u) \/ Len(u) < j
    BY <2>3
  <2>5. QED
    BY <2>1, <2>2, <2>4, Zenon
<1>6. t = u \o r
  BY <1>4, <1>5, SameArcs
<1>7. QED
  BY <1>2, <1>6 DEF r

\* OIDs below the same one are in the order of what is behind it: one half.
LEMMA ConcatKeepsLess ==
  ASSUME NEW u \in OID, NEW s \in OID, NEW t \in OID, OidLess(s, t)
  PROVE  OidLess(u \o s, u \o t)
<1>1. Len(u) \in Nat /\ Len(s) \in Nat /\ Len(t) \in Nat
  BY DEF OID
<1>2. /\ u \o s \in OID /\ Len(u \o s) = Len(u) + Len(s)
      /\ \A j \in 1 .. Len(u) : (u \o s)[j] = u[j]
      /\ \A j \in 1 .. Len(s) : (u \o s)[Len(u) + j] = s[j]
      /\ u \o t \in OID /\ Len(u \o t) = Len(u) + Len(t)
      /\ \A j \in 1 .. Len(u) : (u \o t)[j] = u[j]
      /\ \A j \in 1 .. Len(t) : (u \o t)[Len(u) + j] = t[j]
  BY Concat
<1>3. PICK x, y : x = u \o s /\ y = u \o t
  OBVIOUS
<1>4. ASSUME NEW k \in Nat, LessAt(s, t, k)
      PROVE  LessAt(x, y, Len(u) + k)
  <2>1. \A j \in 1 .. Len(u) + k : x[j] = y[j]
    <3> SUFFICES ASSUME NEW j \in 1 .. Len(u) + k
                 PROVE  x[j] = y[j]
      OBVIOUS
    <3>1. CASE j <= Len(u)
      BY <1>1, <1>2, <1>3, <3>1
    <3>2. CASE Len(u) < j
      <4>1. /\ j - Len(u) \in 1 .. k /\ j - Len(u) \in 1 .. Len(s) /\ j - Len(u) \in 1 .. Len(t)
            /\ Len(u) + (j - Len(u)) = j
        BY <1>1, <1>4, <3>2 DEF LessAt
      <4>2. x[j] = s[j - Len(u)] /\ y[j] = t[j - Len(u)]
        BY <1>2, <1>3, <4>1
      <4>3. QED
        BY <1>4, <4>1, <4>2 DEF LessAt
    <3>3. QED
      BY <1>1, <3>1, <3>2
  <2>2. ASSUME Len(u) + k < Len(x)
        PROVE  x[(Len(u) + k) + 1] < y[(Len(u) + k) + 1]
    <3>1. /\ k < Len(s) /\ k + 1 \in 1 .. Len(s) /\ k + 1 \in 1 .. Len(t)
          /\ (Len(u) + k) + 1 = Len(u) + (k + 1)
      BY <1>1, <1>2, <1>3, <1>4, <2>2 DEF LessAt
    <3>2. x[(Len(u) + k) + 1] = s[k + 1] /\ y[(Len(u) + k) + 1] = t[k + 1]
      BY <1>2, <1>3, <3>1
    <3>3. QED
      BY <1>4, <3>1, <3>2 DEF LessAt
  <2>3. Len(u) + k \in Nat /\ Len(u) + k <= Len(x) /\ Len(u) + k < Len(y)
    BY <1>1, <1>2, <1>3, <1>4 DEF LessAt
  <2>4. QED
    BY <2>1, <2>2, <2>3 DEF LessAt
<1>5. \A k \in Nat : Len(u) + k \in Nat
  BY <1>1
<1>6. QED
  BY <1>2, <1>3, <1>4, <1>5, LessWhere

\* OIDs below the same one are in the order of what is behind it.
LEMMA ConcatLess ==
  ASSUME NEW u \in OID, NEW s \in OID, NEW t \in OID
  PROVE  OidLess(u \o s, u \o t) <=> OidLess(s, t)
<1>1. u \o s \in OID /\ u \o t \in OID
  BY Concat
<1>2. ASSUME OidLess(u \o s, u \o t), ~OidLess(s, t)
      PROVE  FALSE
  <2>1. s # t
    BY <1>1, <1>2, LessIrreflexive
  <2>2. OidLess(u \o t, u \o s)
    BY <1>2, <2>1, LessTotal, ConcatKeepsLess
  <2>3. QED
    BY <1>1, <1>2, <2>2, LessAsymmetric
<1>3. QED
  BY <1>2, ConcatKeepsLess

\* The same for prefixes.
LEMMA ConcatPrefix ==
  ASSUME NEW u \in OID, NEW s \in OID, NEW t \in OID
  PROVE  IsPrefix(u \o s, u \o t) <=> IsPrefix(s, t)
<1>1. Len(u) \in Nat /\ Len(s) \in Nat /\ Len(t) \in Nat
  BY DEF OID
<1>2. /\ u \o s \in OID /\ Len(u \o s) = Len(u) + Len(s)
      /\ \A j \in 1 .. Len(u) : (u \o s)[j] = u[j]
      /\ \A j \in 1 .. Len(s) : (u \o s)[Len(u) + j] = s[j]
      /\ u \o t \in OID /\ Len(u \o t) = Len(u) + Len(t)
      /\ \A j \in 1 .. Len(u) : (u \o t)[j] = u[j]
      /\ \A j \in 1 .. Len(t) : (u \o t)[Len(u) + j] = t[j]
  BY Concat
<1>3. PICK x, y : x = u \o s /\ y = u \o t
  OBVIOUS
<1>4. ASSUME IsPrefix(s, t)
      PROVE  IsPrefix(x, y)
  <2>1. Len(s) <= Len(t) /\ \A j \in 1 .. Len(s) : s[j] = t[j]
    BY <1>4, PrefixArcs
  <2>2. \A j \in 1 .. Len(x) : x[j] = y[j]
    <3> SUFFICES ASSUME NEW j \in 1 .. Len(x)
                 PROVE  x[j] = y[j]
      OBVIOUS
    <3>1. CASE j <= Len(u)
      BY <1>1, <1>2, <1>3, <3>1
    <3>2. CASE Len(u) < j
      <4>1. /\ j - Len(u) \in 1 .. Len(s) /\ j - Len(u) \in 1 .. Len(t)
            /\ Len(u) + (j - Len(u)) = j
        BY <1>1, <1>2, <1>3, <2>1, <3>2
      <4>2. x[j] = s[j - Len(u)] /\ y[j] = t[j - Len(u)]
        BY <1>2, <1>3, <4>1
      <4>3. QED
        BY <2>1, <4>1, <4>2
    <3>3. j \in Nat /\ Len(u) \in Nat
      BY <1>1, <1>2, <1>3
    <3>4. QED
      BY <3>1, <3>2, <3>3
  <2>3. Len(x) <= Len(y)
    BY <1>1, <1>2, <1>3, <2>1
  <2>4. QED
    BY <1>2, <1>3, <2>2, <2>3, PrefixArcs
<1>5. ASSUME IsPrefix(x, y)
      PROVE  IsPrefix(s, t)
  <2>1. Len(x) <= Len(y) /\ \A j \in 1 .. Len(x) : x[j] = y[j]
    BY <1>2, <1>3, <1>5, PrefixArcs
  <2>2. Len(s) <= Len(t)
    BY <1>1, <1>2, <1>3, <2>1
  <2>3. \A j \in 1 .. Len(s) : s[j] = t[j]
    <3> SUFFICES ASSUME NEW j \in 1 .. Len(s)
                 PROVE  s[j] = t[j]
      OBVIOUS
    <3>1. j \in 1 .. Len(t) /\ Len(u) + j \in 1 .. Len(x)
      BY <1>1, <1>2, <1>3, <2>2
    <3>2. x[Len(u) + j] = s[j] /\ y[Len(u) + j] = t[j]
      BY <1>2, <1>3, <3>1
    <3>3. QED
      BY <2>1, <3>1, <3>2
  <2>4. QED
    BY <2>2, <2>3, PrefixArcs
<1>6. QED
  BY <1>3, <1>4, <1>5

\* The arc behind a prefix decides whether an OID is before the prefix with another one.
LEMMA LessThanNode ==
  ASSUME NEW u \in OID, NEW o \in OID, NEW a \in Nat, IsPrefix(u, o), Len(u) < Len(o)
  PROVE  /\ u \o <<a>> \in OID
         /\ OidLess(o, u \o <<a>>) <=> o[Len(u) + 1] < a
<1>1. /\ Len(u) \in Nat /\ Len(o) \in Nat
      /\ \A j \in 1 .. Len(u) : u[j] = o[j]
  BY PrefixArcs DEF OID
<1>2. <<a>> \in OID /\ Len(<<a>>) = 1 /\ <<a>>[1] = a
  BY DEF OID
<1>3. PICK y : y = u \o <<a>>
  OBVIOUS
<1>4. /\ y \in OID /\ Len(y) = Len(u) + 1
      /\ \A j \in 1 .. Len(u) : y[j] = u[j]
      /\ y[Len(u) + 1] = a
  BY <1>2, <1>3, Concat
<1>5. ASSUME o[Len(u) + 1] < a
      PROVE  OidLess(o, y)
  <2>1. LessAt(o, y, Len(u))
    BY <1>1, <1>4, <1>5 DEF LessAt
  <2>2. QED
    BY <1>1, <1>4, <2>1, LessWhere
<1>6. ASSUME OidLess(o, y)
      PROVE  o[Len(u) + 1] < a
  <2>1. PICK k \in Nat : LessAt(o, y, k)
    BY <1>4, <1>6, LessWhere
  <2>2. k <= Len(u) /\ k < Len(o) /\ o[k + 1] < y[k + 1]
    BY <1>1, <1>4, <2>1 DEF LessAt
  <2>3. ASSUME k < Len(u)
        PROVE  FALSE
    <3>1. k + 1 \in 1 .. Len(u) /\ k + 1 \in 1 .. Len(o)
      BY <1>1, <2>3
    <3>2. o[k + 1] = y[k + 1] /\ o[k + 1] \in Nat
      BY <1>1, <1>4, <3>1, ElementOfSeq DEF OID
    <3>3. QED
      BY <2>2, <3>2
  <2>4. k = Len(u)
    BY <1>1, <2>2, <2>3
  <2>5. QED
    BY <1>4, <2>2, <2>4
<1>7. QED
  BY <1>3, <1>4, <1>5, <1>6

\* A finite set of OIDs has a least one.
LEMMA MinimalOid ==
  ASSUME NEW S \in SUBSET OID, S # {}, IsFiniteSet(S)
  PROVE  \E s \in S : \A t \in S : ~OidLess(t, s)
<1> DEFINE Without(T) == T # {} /\ \A s \in T : \E t \in T : OidLess(t, s)
           N == {n \in Nat : \E T \in SUBSET S : Cardinality(T) = n /\ Without(T)}
<1>1. SUFFICES ASSUME Without(S)
               PROVE  FALSE
  OBVIOUS
<1>2. Cardinality(S) \in Nat
  BY FS_CardinalityType
<1>3. N # {}
  BY <1>1, <1>2
<1>4. PICK n \in N : \A x \in N : n <= x
  BY <1>3, MinOfNats
<1>5. PICK T \in SUBSET S : Cardinality(T) = n /\ Without(T)
  BY <1>4
<1>6. PICK s \in T : TRUE
  BY <1>5
<1>7. /\ IsFiniteSet(T \ {s}) /\ Cardinality(T \ {s}) = n - 1
      /\ n \in Nat /\ n - 1 \in Nat
  <2>1. IsFiniteSet(T)
    BY FS_Subset
  <2>2. IsFiniteSet(T \ {s}) /\ Cardinality(T \ {s}) = n - 1
    BY <1>5, <1>6, <2>1, FS_RemoveElement
  <2>3. Cardinality(T \ {s}) \in Nat
    BY <2>2, FS_CardinalityType
  <2>4. n \in Nat
    BY <1>4
  <2>5. QED
    BY <2>2, <2>3, <2>4
<1>8. PICK t \in T : OidLess(t, s)
  BY <1>5, <1>6
<1>9. t \in OID /\ s \in OID /\ t \in T \ {s}
  BY <1>8, LessIrreflexive
<1>10. ~Without(T \ {s})
  <2>1. n - 1 \notin N
    BY <1>4, <1>7
  <2>2. QED
    BY <1>7, <2>1
<1>11. PICK r \in T \ {s} : \A x \in T \ {s} : ~OidLess(x, r)
  BY <1>9, <1>10
<1>12. OidLess(s, r)
  BY <1>5, <1>11
<1>13. r \in OID
  OBVIOUS
<1>14. OidLess(t, r)
  BY <1>8, <1>9, <1>12, <1>13, LessTransitive
<1>15. QED
  BY <1>9, <1>11, <1>14

\* Least() is the one before all others.
LEMMA LeastFacts ==
  ASSUME NEW S \in SUBSET OID, S # {}, IsFiniteSet(S)
  PROVE  Least(S) \in S /\ \A t \in S \ {Least(S)} : OidLess(Least(S), t)
<1>1. PICK s \in S : \A t \in S : ~OidLess(t, s)
  BY MinimalOid
<1>2. \A t \in S \ {s} : OidLess(s, t)
  BY <1>1, LessTotal
<1>3. QED
  BY <1>2 DEF Least

\* And there is only one.
LEMMA LeastIs ==
  ASSUME NEW S \in SUBSET OID, NEW s \in S, \A t \in S \ {s} : OidLess(s, t)
  PROVE  Least(S) = s
<1>1. Least(S) \in S /\ \A t \in S \ {Least(S)} : OidLess(Least(S), t)
  BY DEF Least
<1>2. ASSUME Least(S) # s
      PROVE  FALSE
  <2>1. OidLess(Least(S), s) /\ OidLess(s, Least(S))
    BY <1>1, <1>2
  <2>2. QED
    BY <1>1, <2>1, LessAsymmetric
<1>3. QED
  BY <1>2

-----------------------------------------------------------------------------
(* The MIBs.                                                               *)

\* The base OIDs of the MIBs.
LEMMA BaseFacts ==
  ASSUME mibs \in MibSets
  PROVE  /\ IsFiniteSet(mibs)
         /\ \A m \in mibs : m.base \in OID /\ Len(m.base) \in Nat \ {0}
         /\ NoMib \notin mibs
<1>1. IsFiniteSet(mibs) /\ \A m \in mibs : m.base # <<>> /\ m.base \in Seq(0 .. MaxArc)
  BY MibsAssumption DEF MibsAssumption, WellFormedMib
<1>2. MaxArc \in Nat
  BY ConstantsAssumption DEF ConstantsAssumption
<1>3. ASSUME NEW s \in Seq(0 .. MaxArc)
      PROVE  s \in OID
  BY <1>2, <1>3 DEF OID
<1>4. ASSUME NEW m \in mibs
      PROVE  m.base \in OID /\ Len(m.base) \in Nat \ {0}
  <2>1. m.base \in OID /\ m.base # <<>>
    BY <1>1, <1>3
  <2>2. QED
    BY <2>1 DEF OID
<1>5. NoMib \notin mibs
  BY <1>1 DEF NoMib
<1>6. QED
  BY <1>1, <1>4, <1>5

\* snmp_get_mib_from_oid() returns the innermost MIB around an OID.
LEMMA MibFromOidFacts ==
  ASSUME mibs \in MibSets, NEW o \in OID
  PROVE  /\ MibFromOid(o) = NoMib => \A n \in mibs : ~IsPrefix(n.base, o)
         /\ MibFromOid(o) # NoMib =>
              /\ MibFromOid(o) \in mibs /\ IsPrefix(MibFromOid(o).base, o)
              /\ \A n \in mibs : IsPrefix(n.base, o) => Len(n.base) <= Len(MibFromOid(o).base)
<1> DEFINE around == {m \in mibs : IsPrefix(m.base, o)}
<1>1. CASE around = {}
  BY <1>1 DEF MibFromOid
<1>2. CASE around # {}
  <2> DEFINE D == {d \in Nat : \E m \in around : d = Len(o) - Len(m.base)}
  <2>1. ASSUME NEW m \in around
        PROVE  /\ Len(o) - Len(m.base) \in D
               /\ Len(o) \in Nat /\ Len(m.base) \in Nat
    <3>1. m \in mibs /\ m.base \in OID /\ Len(m.base) \in Nat /\ Len(o) \in Nat
      BY BaseFacts DEF OID
    <3>2. Len(m.base) <= Len(o)
      BY <3>1, PrefixArcs
    <3>3. QED
      BY <3>1, <3>2
  <2>2. D # {}
    BY <1>2, <2>1
  <2>3. PICK d \in D : \A x \in D : d <= x
    BY <2>2, MinOfNats
  <2>4. PICK m \in around : d = Len(o) - Len(m.base)
    BY <2>3
  <2>5. \A n \in around : Len(n.base) <= Len(m.base)
    <3> SUFFICES ASSUME NEW n \in around
                 PROVE  Len(n.base) <= Len(m.base)
      OBVIOUS
    <3>1. Len(o) - Len(m.base) <= Len(o) - Len(n.base)
      BY <2>1, <2>3, <2>4
    <3>2. QED
      BY <2>1, <3>1
  <2>6. MibFromOid(o) = CHOOSE a \in around : \A n \in around : Len(n.base) <= Len(a.base)
    BY <1>2 DEF MibFromOid
  <2>7. MibFromOid(o) \in around /\ \A n \in around : Len(n.base) <= Len(MibFromOid(o).base)
    BY <2>5, <2>6
  <2>8. QED
    BY <1>2, <2>7, BaseFacts
<1>3. QED
  BY <1>1, <1>2

\* snmp_get_next_mib() returns the first MIB behind an OID.
LEMMA NextMibFacts ==
  ASSUME mibs \in MibSets, NEW o \in OID
  PROVE  /\ NextMib(o) = NoMib => o = <<>> \/ \A n \in mibs : ~OidLess(o, n.base)
         /\ NextMib(o) # NoMib =>
              /\ NextMib(o) \in mibs /\ OidLess(o, NextMib(o).base)
              /\ \A n \in mibs : OidLess(o, n.base) => ~OidLess(n.base, NextMib(o).base)
<1> DEFINE behind == {m \in mibs : OidLess(o, m.base)}
           bases == {b \in OID : \E m \in behind : b = m.base}
           f == [m \in behind |-> m.base]
<1>1. CASE o = <<>> \/ behind = {}
  BY <1>1 DEF NextMib
<1>2. CASE o # <<>> /\ behind # {}
  <2>1. \A m \in behind : m.base \in bases
    BY BaseFacts
  <2>2. bases \in SUBSET OID /\ bases # {}
    BY <1>2, <2>1
  <2>3. IsFiniteSet(behind)
    BY BaseFacts, FS_Subset
  <2>4. f \in Surjection(behind, bases)
    BY <2>1 DEF Surjection
  <2>5. IsFiniteSet(bases)
    BY <2>3, <2>4, FS_Surjection
  <2>6. PICK b \in bases : \A c \in bases : ~OidLess(c, b)
    BY <2>2, <2>5, MinimalOid
  <2>7. PICK m \in behind : b = m.base
    BY <2>6
  <2>8. \A n \in behind : ~OidLess(n.base, m.base)
    BY <2>1, <2>6, <2>7
  <2>9. NextMib(o) = CHOOSE a \in behind : \A n \in behind : ~OidLess(n.base, a.base)
    BY <1>2 DEF NextMib, LeastMib
  <2>10. NextMib(o) \in behind /\ \A n \in behind : ~OidLess(n.base, NextMib(o).base)
    BY <2>8, <2>9
  <2>11. QED
    BY <1>2, <2>10, BaseFacts
<1>3. QED
  BY <1>1, <1>2

-----------------------------------------------------------------------------
(* The search stays within a MIB, and only goes forward.                   *)

Searching == {"mib", "level", "instance", "refused", "between", "noNode"}

\* The MIB is one of the agent's and the starting point of the search is under its root.
WithinInv ==
  /\ mibs \in MibSets /\ oid \in OID
  /\ pc \in Searching => mib \in mibs /\ start_oid \in OID /\ IsPrefix(mib.base, start_oid)

\* It holds where the search enters a MIB behind an OID, if there is one.
LEMMA EnterNextMib ==
  ASSUME WithinInv, NEW o \in OID, EnterMib(NextMib(o))
  PROVE  /\ pc' = "notFound" \/ pc' = "mib"
         /\ pc' = "mib" => /\ mib' \in mibs /\ start_oid' \in OID
                           /\ IsPrefix(mib'.base, start_oid')
                           /\ OidLess(o, start_oid')
<1>1. CASE NextMib(o) = NoMib
  BY <1>1 DEF EnterMib
<1>2. CASE NextMib(o) # NoMib
  <2>1. NextMib(o) \in mibs /\ OidLess(o, NextMib(o).base) /\ NextMib(o).base \in OID
    BY <1>2, NextMibFacts, BaseFacts DEF WithinInv
  <2>2. IsPrefix(NextMib(o).base, NextMib(o).base)
    BY <2>1, PrefixArcs DEF OID
  <2>3. QED
    BY <1>2, <2>1, <2>2 DEF EnterMib
<1>3. QED
  BY <1>1, <1>2

\* The MIB around the one that is left.
LEMMA SurroundingFacts ==
  ASSUME WithinInv, pc \in Searching, Len(mib.base) # 1, Surrounding # NoMib
  PROVE  /\ Surrounding \in mibs /\ IsPrefix(Surrounding.base, start_oid)
         /\ Len(Surrounding.base) < Len(mib.base)
         /\ \A n \in mibs : IsPrefix(n.base, start_oid) /\ Len(n.base) < Len(mib.base)
              => Len(n.base) <= Len(Surrounding.base)
<1>1. mib \in mibs /\ mib.base \in OID /\ Len(mib.base) \in Nat \ {0}
  BY BaseFacts DEF WithinInv
<1> DEFINE f == Front(mib.base)
<1>2. f \in OID /\ Len(f) = Len(mib.base) - 1 /\ \A j \in 1 .. Len(f) : f[j] = mib.base[j]
  BY <1>1 DEF Front, OID
<1> HIDE DEF f
<1>3. Surrounding = MibFromOid(f)
  BY DEF Surrounding, f
<1>4. IsPrefix(f, mib.base)
  BY <1>1, <1>2, PrefixArcs
<1>5. IsPrefix(f, start_oid) /\ start_oid \in OID
  BY <1>1, <1>2, <1>4, PrefixTransitive DEF WithinInv
<1>6. /\ Surrounding \in mibs /\ Surrounding.base \in OID /\ IsPrefix(Surrounding.base, f)
      /\ \A n \in mibs : IsPrefix(n.base, f) => Len(n.base) <= Len(Surrounding.base)
  BY <1>2, <1>3, MibFromOidFacts, BaseFacts DEF WithinInv
<1>7. IsPrefix(Surrounding.base, start_oid)
  BY <1>2, <1>5, <1>6, PrefixTransitive
<1>8. Len(Surrounding.base) <= Len(f) /\ Len(Surrounding.base) \in Nat
  BY <1>2, <1>6, PrefixArcs, BaseFacts DEF WithinInv
<1>9. ASSUME NEW n \in mibs, IsPrefix(n.base, start_oid), Len(n.base) < Len(mib.base)
      PROVE  Len(n.base) <= Len(Surrounding.base)
  <2>1. n.base \in OID /\ Len(n.base) \in Nat
    BY BaseFacts DEF WithinInv
  <2>2. Len(n.base) <= Len(f)
    BY <1>1, <1>2, <1>9, <2>1
  <2>3. IsPrefix(n.base, f)
    BY <1>2, <1>5, <1>9, <2>1, <2>2, PrefixesNested
  <2>4. QED
    BY <1>6, <2>3
<1>10. QED
  BY <1>1, <1>2, <1>6, <1>7, <1>8, <1>9

\* Every step keeps the search within a MIB.
LEMMA WithinInvStep == WithinInv /\ [Next]_vars => WithinInv'
<1> SUFFICES ASSUME WithinInv, [Next]_vars
             PROVE  WithinInv'
  OBVIOUS
<1>1. mibs' = mibs /\ oid' = oid
  BY DEF Next, Get, GetNext, ResolveExact, SearchNode, LevelUp, LevelDown, InstanceFound,
         RefuseInstance, NodeExhausted, CheckBetween, LeaveMib, vars, request
<1>2. CASE pc' \in Searching /\ ~(mib' = mib /\ start_oid' = start_oid /\ pc \in Searching)
  <2>1. mib' \in mibs /\ start_oid' \in OID /\ IsPrefix(mib'.base, start_oid')
    <3>1. CASE GetNext
      <4>1. CASE MibFromOid(oid) = NoMib
        BY <1>2, <3>1, <4>1, EnterNextMib DEF GetNext, WithinInv, Searching
      <4>2. CASE MibFromOid(oid) # NoMib
        <5>1. mib' = MibFromOid(oid) /\ start_oid' = oid
          BY <3>1, <4>2 DEF GetNext
        <5>2. QED
          BY <4>2, <5>1, MibFromOidFacts DEF WithinInv
      <4>3. QED
        BY <4>1, <4>2
    <3>2. CASE CheckBetween
      <4>1. EnterMib(MibBetween(start_oid, node_oid)) /\ MibBetween(start_oid, node_oid) # NoMib
        BY <1>2, <3>2 DEF CheckBetween, Searching
      <4>2. MibBetween(start_oid, node_oid) = NextMib(start_oid)
        BY <4>1 DEF MibBetween
      <4>3. start_oid \in OID
        BY <3>2 DEF CheckBetween, WithinInv, Searching
      <4>4. QED
        BY <1>2, <4>1, <4>2, <4>3, EnterNextMib DEF Searching
    <3>3. CASE LeaveMib
      <4>1. pc \in Searching /\ start_oid \in OID
        BY <3>3 DEF LeaveMib, WithinInv, Searching
      <4>2. CASE EnterMib(NextMib(start_oid))
        BY <1>2, <4>1, <4>2, EnterNextMib DEF Searching
      <4>3. CASE ~EnterMib(NextMib(start_oid))
        <5>1. /\ Len(mib.base) # 1 /\ Surrounding # NoMib
              /\ mib' = Surrounding /\ start_oid' = start_oid
          BY <1>2, <3>3, <4>1, <4>3 DEF LeaveMib
        <5>2. QED
          BY <4>1, <5>1, SurroundingFacts
      <4>4. QED
        BY <4>2, <4>3
    <3>4. ASSUME ~GetNext, ~CheckBetween, ~LeaveMib
          PROVE  FALSE
      <4>1. \/ Get \/ ResolveExact \/ SearchNode \/ LevelUp \/ LevelDown
            \/ InstanceFound \/ RefuseInstance \/ NodeExhausted \/ UNCHANGED vars
        BY <3>4 DEF Next
      <4>2. ~Get
        BY <1>2 DEF Get, Searching
      <4>3. mib' = mib /\ start_oid' = start_oid /\ pc \in Searching
        BY <1>2, <4>1, <4>2 DEF ResolveExact, SearchNode, LevelUp, LevelDown, InstanceFound,
                                RefuseInstance, NodeExhausted, vars, Searching
      <4>4. QED
        BY <1>2, <4>3
    <3>5. QED
      BY <3>1, <3>2, <3>3, <3>4
  <2>2. QED
    BY <1>1, <1>2, <2>1 DEF WithinInv
<1>3. CASE ~(pc' \in Searching /\ ~(mib' = mib /\ start_oid' = start_oid /\ pc \in Searching))
  BY <1>1, <1>3 DEF WithinInv
<1>4. QED
  BY <1>2, <1>3

\* Wherever the search for the next instance is, its starting point is under the root of
\* the MIB it is in, whatever MIBs there are and however they are nested: comparing
\* only the arcs behind the root is enough
\* (snmp_mib_tree_resolve_exact(), snmp_mib_tree_resolve_next()).
THEOREM SearchStaysWithinMib == Spec => []SearchWithinMib
<1>1. Init => WithinInv
  <2>1. \A o \in Oids : o \in OID
    BY ConstantsAssumption DEF ConstantsAssumption, OID
  <2>2. QED
    BY <2>1 DEF Init, WithinInv, Searching
<1>2. WithinInv => SearchWithinMib
  BY DEF WithinInv, SearchWithinMib, Searching
<1>3. QED
  BY <1>1, <1>2, WithinInvStep, PTL DEF Spec

\* When every MIB has a base OID of at least two arcs, the search moves on whenever it
\* changes to another MIB: forward, or to a MIB further out from where it is
\* (snmp_get_next_node_instance_from_oid()).
THEOREM SearchGoesForward ==
  ASSUME \A set \in MibSets : \A m \in set : Len(m.base) # 1
  PROVE  Spec => SearchAdvances
<1>1. Init => WithinInv
  <2>1. \A o \in Oids : o \in OID
    BY ConstantsAssumption DEF ConstantsAssumption, OID
  <2>2. QED
    BY <2>1 DEF Init, WithinInv, Searching
<1>2. WithinInv /\ [Next]_vars => [pc # "start" /\ pc' = "mib" => Advances]_vars
  <2> SUFFICES ASSUME WithinInv, [Next]_vars, pc # "start", pc' = "mib", ~UNCHANGED vars
               PROVE  Advances
    OBVIOUS
  <2>1. CASE CheckBetween
    <3>1. EnterMib(MibBetween(start_oid, node_oid)) /\ MibBetween(start_oid, node_oid) # NoMib
      BY <2>1 DEF CheckBetween
    <3>2. MibBetween(start_oid, node_oid) = NextMib(start_oid)
      BY <3>1 DEF MibBetween
    <3>3. start_oid \in OID
      BY <2>1 DEF CheckBetween, WithinInv, Searching
    <3>4. QED
      BY <3>1, <3>2, <3>3, EnterNextMib DEF Advances
  <2>2. CASE LeaveMib
    <3>1. pc \in Searching /\ start_oid \in OID /\ mib \in mibs
      BY <2>2 DEF LeaveMib, WithinInv, Searching
    <3>2. Len(mib.base) # 1
      BY <3>1 DEF WithinInv
    <3>3. CASE EnterMib(NextMib(start_oid))
      BY <3>1, <3>3, EnterNextMib DEF Advances
    <3>4. CASE ~EnterMib(NextMib(start_oid))
      <4>1. Surrounding # NoMib /\ mib' = Surrounding /\ start_oid' = start_oid
        BY <2>2, <3>2, <3>4 DEF LeaveMib
      <4>2. QED
        BY <3>1, <3>2, <4>1, SurroundingFacts DEF Advances
    <3>5. QED
      BY <3>3, <3>4
  <2>3. CASE ~CheckBetween /\ ~LeaveMib
    BY <2>3 DEF Next, Get, GetNext, ResolveExact, SearchNode, ResolveNext, LevelUp, LevelDown,
                InstanceFound, RefuseInstance, NodeExhausted, vars
  <2>4. QED
    BY <2>1, <2>2, <2>3
<1>3. QED
  BY <1>1, <1>2, WithinInvStep, PTL DEF Spec, SearchAdvances

-----------------------------------------------------------------------------
(* The instances of the MIBs.                                              *)

\* What is below an OID begins with it.
LEMMA BelowIsUnder ==
  ASSUME NEW u \in OID, NEW s \in OID, NEW o, o = u \o s
  PROVE  o \in OID /\ IsPrefix(u, o)
BY Concat

\* What is below an OID below an OID.
LEMMA BelowBelow ==
  ASSUME NEW s \in OID, NEW t \in OID, NEW u \in OID
  PROVE  (s \o t) \o u = s \o (t \o u)
BY DEF OID

\* OIDs have arcs.
LEMMA ArcsAreOid ==
  ASSUME NEW s \in Seq(0 .. MaxArc)
  PROVE  s \in OID
BY ConstantsAssumption DEF ConstantsAssumption, OID

\* What the nodes of a MIB are.
LEMMA MibFacts ==
  ASSUME mibs \in MibSets, NEW m \in mibs
  PROVE  /\ m.trees \cup DOMAIN m.leaves \subseteq OID
         /\ m.trees \cap DOMAIN m.leaves = {}
         /\ \A p \in m.trees \cup DOMAIN m.leaves :
              \A k \in 0 .. Len(p) - 1 : SubSeq(p, 1, k) \in m.trees
         /\ \A p \in DOMAIN m.leaves : WellFormedLeaf(m.leaves[p])
<1>1. WellFormedMib(m)
  BY MibsAssumption DEF MibsAssumption
<1>2. m.trees \cup DOMAIN m.leaves \subseteq OID
  BY <1>1, ArcsAreOid DEF WellFormedMib
<1>3. QED
  BY <1>1, <1>2 DEF WellFormedMib

\* A cell of a leaf node is at least one arc.
LEMMA CellFacts ==
  ASSUME NEW leaf, WellFormedLeaf(leaf)
  PROVE  \A c \in leaf.cells : c \in OID /\ c # <<>> /\ Len(c) \in Nat \ {0}
<1>1. leaf.cells \subseteq OID
  BY ArcsAreOid DEF WellFormedLeaf
<1>2. ASSUME NEW c \in leaf.cells
      PROVE  c # <<>>
  <2>1. CASE leaf.kind = "scalar"
    BY <2>1 DEF WellFormedLeaf
  <2>2. CASE leaf.kind = "array"
    <3>1. PICK a \in leaf.cols : c = <<a, 0>>
      BY <2>2 DEF WellFormedLeaf
    <3>2. QED
      BY <3>1
  <2>3. CASE leaf.kind = "table"
    BY <2>3 DEF WellFormedLeaf
  <2>4. QED
    BY <2>1, <2>2, <2>3 DEF WellFormedLeaf
<1>3. ASSUME NEW c \in leaf.cells
      PROVE  Len(c) \in Nat \ {0}
  BY <1>1, <1>2 DEF OID
<1>4. QED
  BY <1>1, <1>2, <1>3

\* get_instance() finds the cells of a leaf node.
LEMMA IsInstanceFacts ==
  ASSUME NEW leaf, WellFormedLeaf(leaf), NEW r \in OID
  PROVE  IsInstance(leaf, r) <=> r \in leaf.cells
<1>1. CASE leaf.kind = "scalar"
  <2>1. leaf.cells = {<<0>>}
    BY <1>1 DEF WellFormedLeaf
  <2>2. QED
    BY <1>1, <2>1 DEF IsInstance
<1>2. CASE leaf.kind = "array"
  <2>1. leaf.cells = {<<a, 0>> : a \in leaf.cols}
    BY <1>2 DEF WellFormedLeaf
  <2>2. IsInstance(leaf, r) <=> Len(r) = 2 /\ r[2] = 0 /\ r[1] \in leaf.cols
    BY <1>2 DEF IsInstance
  <2>3. ASSUME Len(r) = 2, r[2] = 0, r[1] \in leaf.cols
        PROVE  r = <<r[1], 0>>
    BY <2>3 DEF OID
  <2>4. \A a \in leaf.cols : r = <<a, 0>> => Len(r) = 2 /\ r[2] = 0 /\ r[1] = a
    OBVIOUS
  <2>5. QED
    BY <2>1, <2>2, <2>3, <2>4
<1>3. CASE leaf.kind = "table"
  <2>1. \A c \in leaf.cells : Len(c) >= 3 /\ c[1] = 1 /\ c[2] \in leaf.cols
    BY <1>3 DEF WellFormedLeaf
  <2>2. QED
    BY <1>3, <2>1 DEF IsInstance
<1>4. QED
  BY <1>1, <1>2, <1>3 DEF WellFormedLeaf

\* The parts of an instance's OID: the root of its MIB, its leaf node and its cell there.
Parts(m, o, p, c) ==
  /\ p \in DOMAIN m.leaves /\ c \in m.leaves[p].cells
  /\ m.base \in OID /\ p \in OID /\ c \in OID /\ Len(c) \in Nat \ {0}
  /\ m.base \o p \in OID /\ p \o c \in OID /\ o \in OID
  /\ o = m.base \o (p \o c) /\ o = (m.base \o p) \o c
  /\ IsPrefix(m.base, o) /\ IsPrefix(m.base \o p, o)

\* Every instance has these parts.
LEMMA InstanceParts ==
  ASSUME mibs \in MibSets, NEW m \in mibs, NEW o \in InstancesOf(m)
  PROVE  \E p, c : Parts(m, o, p, c)
<1>1. PICK p \in DOMAIN m.leaves : \E c \in m.leaves[p].cells : o = m.base \o p \o c
  BY DEF InstancesOf
<1>2. PICK c \in m.leaves[p].cells : o = (m.base \o p) \o c
  BY <1>1
<1>3. c \in OID /\ Len(c) \in Nat \ {0}
  BY MibFacts, CellFacts
<1>4. p \in OID /\ m.base \in OID
  BY MibFacts, BaseFacts
<1>5. o = m.base \o (p \o c)
  BY <1>2, <1>3, <1>4, BelowBelow, Zenon
<1>6. m.base \o p \in OID
  BY <1>4, Concat, Zenon
<1>7. p \o c \in OID
  BY <1>3, <1>4, Concat, Zenon
<1>8. o \in OID /\ IsPrefix(m.base \o p, o)
  BY <1>2, <1>3, <1>6, BelowIsUnder, Zenon
<1>9. IsPrefix(m.base, o)
  BY <1>4, <1>5, <1>7, BelowIsUnder, Zenon
<1>10. Parts(m, o, p, c)
  BY <1>2, <1>3, <1>4, <1>5, <1>6, <1>7, <1>8, <1>9, Zenon DEF Parts
<1>11. QED
  BY <1>10

\* The other way round.
LEMMA CellIsInstance ==
  ASSUME mibs \in MibSets, NEW m \in mibs, NEW p \in DOMAIN m.leaves, NEW c \in m.leaves[p].cells
  PROVE  /\ m.base \o (p \o c) \in InstancesOf(m) /\ m.base \o (p \o c) \in Instances
         /\ (m.base \o p) \o c = m.base \o (p \o c)
<1>1. c \in OID /\ p \in OID /\ m.base \in OID
  BY MibFacts, CellFacts, BaseFacts
<1>2. m.base \o (p \o c) = (m.base \o p) \o c
  BY <1>1, BelowBelow, Zenon
<1>3. (m.base \o p) \o c \in InstancesOf(m)
  BY DEF InstancesOf
<1>4. QED
  BY <1>2, <1>3 DEF Instances

\* An instance is under no other leaf node of its MIB.
LEMMA LeavesApart ==
  ASSUME mibs \in MibSets, NEW m \in mibs,
         NEW p \in DOMAIN m.leaves, NEW q \in m.trees \cup DOMAIN m.leaves, IsPrefix(p, q)
  PROVE  p = q
<1>1. p \in OID /\ q \in OID
  BY MibFacts
<1>2. /\ Len(p) <= Len(q) /\ \A j \in 1 .. Len(p) : p[j] = q[j]
      /\ Len(p) \in Nat /\ Len(q) \in Nat
  BY <1>1, PrefixArcs DEF OID
<1>3. CASE Len(p) = Len(q)
  BY <1>1, <1>2, <1>3, SameArcs
<1>4. CASE Len(p) < Len(q)
  <2>1. Len(p) \in 0 .. Len(q) - 1
    BY <1>2, <1>4
  <2>2. SubSeq(q, 1, Len(p)) \in m.trees
    BY <2>1, MibFacts
  <2>3. SubSeq(q, 1, Len(p)) = p
    BY <1>1 DEF IsPrefix, OID
  <2>4. QED
    BY <2>2, <2>3, MibFacts
<1>5. QED
  BY <1>2, <1>3, <1>4

\* No MIB is more closely around an instance than its own.
LEMMA InnermostMib ==
  ASSUME mibs \in MibSets, Apart(mibs), NEW m \in mibs, NEW n \in mibs,
         NEW o \in InstancesOf(m), IsPrefix(n.base, o), n # m
  PROVE  Len(n.base) < Len(m.base)
<1>1. SUFFICES ASSUME Len(m.base) <= Len(n.base)
               PROVE  FALSE
  BY BaseFacts
<1>2. PICK p, c : Parts(m, o, p, c)
  BY InstanceParts
<1>3. /\ p \in DOMAIN m.leaves /\ m.base \in OID /\ m.base \o p \in OID /\ o \in OID
      /\ IsPrefix(m.base, o) /\ IsPrefix(m.base \o p, o)
  BY <1>2 DEF Parts
<1>4. n.base \in OID
  BY BaseFacts
<1>5. IsPrefix(m.base, n.base)
  BY <1>1, <1>3, <1>4, PrefixesNested
<1>6. Len(m.base \o p) \in Nat /\ Len(n.base) \in Nat
  BY <1>3, <1>4 DEF OID
<1>7. IsPrefix(m.base \o p, n.base) \/ IsPrefix(n.base, m.base \o p)
  BY <1>3, <1>4, <1>6, PrefixesNested
<1>8. QED
  BY <1>3, <1>5, <1>7 DEF Apart

\* So the MIB that snmp_get_mib_from_oid() returns for an instance is its own.
LEMMA MibOfInstance ==
  ASSUME mibs \in MibSets, Apart(mibs), NEW m \in mibs, NEW o \in InstancesOf(m)
  PROVE  MibFromOid(o) = m
<1>1. o \in OID /\ IsPrefix(m.base, o)
  BY InstanceParts DEF Parts
<1>2. /\ MibFromOid(o) \in mibs /\ IsPrefix(MibFromOid(o).base, o)
      /\ Len(m.base) <= Len(MibFromOid(o).base)
  BY <1>1, MibFromOidFacts
<1>3. ASSUME MibFromOid(o) # m
      PROVE  FALSE
  <2>1. Len(MibFromOid(o).base) < Len(m.base)
    BY <1>2, <1>3, InnermostMib
  <2>2. QED
    BY <1>2, <2>1, BaseFacts
<1>4. QED
  BY <1>3

\* GET finds an OID that is an instance, and no other.
LEMMA GetFinds ==
  ASSUME mibs \in MibSets, Apart(mibs), oid \in OID
  PROVE  (/\ MibFromOid(oid) # NoMib
          /\ \E p \in ExactLeaves(MibFromOid(oid), oid) :
               IsInstance(MibFromOid(oid).leaves[p],
                          SubSeq(Relative(MibFromOid(oid), oid), Len(p) + 1,
                                 Len(Relative(MibFromOid(oid), oid)))))
         <=> oid \in Instances
<1> DEFINE m == MibFromOid(oid)
           rel == Relative(m, oid)
<1>1. ASSUME m # NoMib, NEW p \in ExactLeaves(m, oid),
             IsInstance(m.leaves[p], SubSeq(rel, Len(p) + 1, Len(rel)))
      PROVE  oid \in Instances
  <2>1. m \in mibs /\ IsPrefix(m.base, oid) /\ m.base \in OID
    BY <1>1, MibFromOidFacts, BaseFacts
  <2>2. rel \in OID /\ oid = m.base \o rel
    BY <2>1, SplitBehind DEF Relative
  <2>3. p \in DOMAIN m.leaves /\ IsPrefix(p, rel) /\ p \in OID
    BY <1>1, <2>1, MibFacts DEF ExactLeaves
  <2>4. PICK r : r = SubSeq(rel, Len(p) + 1, Len(rel))
    OBVIOUS
  <2>5. r \in OID /\ rel = p \o r
    BY <2>2, <2>3, <2>4, SplitBehind
  <2>6. r \in m.leaves[p].cells
    BY <1>1, <2>1, <2>3, <2>4, <2>5, MibFacts, IsInstanceFacts
  <2>7. m.base \o (p \o r) \in Instances
    BY <2>1, <2>3, <2>6, CellIsInstance, Zenon
  <2>8. QED
    BY <2>2, <2>5, <2>7, Zenon
<1>2. ASSUME oid \in Instances
      PROVE  /\ m # NoMib
             /\ \E p \in ExactLeaves(m, oid) :
                  IsInstance(m.leaves[p], SubSeq(rel, Len(p) + 1, Len(rel)))
  <2>1. PICK n \in mibs : oid \in InstancesOf(n)
    BY <1>2 DEF Instances
  <2>2. m = n /\ m # NoMib
    BY <2>1, MibOfInstance, BaseFacts
  <2>3. PICK p, c : Parts(m, oid, p, c)
    BY <2>1, <2>2, InstanceParts
  <2>4. rel = p \o c
    <3>1. m.base \in OID /\ p \o c \in OID /\ oid = m.base \o (p \o c)
      BY <2>3 DEF Parts
    <3>2. SubSeq(oid, Len(m.base) + 1, Len(oid)) = p \o c
      BY <3>1, Behind
    <3>3. QED
      BY <3>2 DEF Relative
  <2>5. IsPrefix(p, rel) /\ SubSeq(rel, Len(p) + 1, Len(rel)) = c
    BY <2>3, <2>4, BelowIsUnder, Behind DEF Parts
  <2>6. p \in ExactLeaves(m, oid)
    BY <2>3, <2>5 DEF ExactLeaves, Parts
  <2>7. IsInstance(m.leaves[p], c)
    BY <2>1, <2>2, <2>3, MibFacts, IsInstanceFacts DEF Parts
  <2>8. QED
    BY <2>2, <2>5, <2>6, <2>7
<1>3. QED
  BY <1>1, <1>2

\* A GET is answered from the OID asked for in one step.
GetLookupInv ==
  op = "get" =>
    /\ pc \in {"start", "found", "notFound"}
    /\ GetFindsInstance

\* Every step keeps the answer to a GET right.
LEMMA GetLookupInvStep ==
  ASSUME \A set \in MibSets : Apart(set)
  PROVE  WithinInv /\ GetLookupInv /\ [Next]_vars => GetLookupInv'
<1> SUFFICES ASSUME WithinInv, GetLookupInv, [Next]_vars, op' = "get"
             PROVE  GetLookupInv'
  BY DEF GetLookupInv
<1>1. mibs' = mibs /\ oid' = oid /\ op' = op
  BY DEF Next, Get, GetNext, ResolveExact, SearchNode, LevelUp, LevelDown, InstanceFound,
         RefuseInstance, NodeExhausted, CheckBetween, LeaveMib, vars, request
<1>2. Instances' = Instances
  BY <1>1 DEF Instances, InstancesOf
<1>3. op = "get" /\ mibs \in MibSets /\ oid \in OID /\ Apart(mibs)
  BY <1>1 DEF WithinInv
<1>4. CASE Get
  <2>1. pc' = (IF oid \in Instances THEN "found" ELSE "notFound")
    BY <1>3, <1>4, GetFinds DEF Get
  <2>2. oid \in Instances => node_oid' = oid
    BY <1>3, <1>4, GetFinds DEF Get
  <2>3. QED
    BY <1>1, <1>2, <2>1, <2>2 DEF GetLookupInv, GetFindsInstance
<1>5. CASE UNCHANGED vars
  BY <1>1, <1>2, <1>5 DEF GetLookupInv, GetFindsInstance, vars
<1>6. CASE ~Get /\ ~UNCHANGED vars
  BY <1>3, <1>6 DEF Next, GetNext, ResolveExact, SearchNode, LevelUp, LevelDown, InstanceFound,
                    RefuseInstance, NodeExhausted, CheckBetween, LeaveMib, GetLookupInv
<1>7. QED
  BY <1>4, <1>5, <1>6

\* When the MIBs are apart, GET finds an instance exactly when one of them has one with
\* the OID asked for, although it only looks into the innermost MIB around the OID
\* (snmp_get_node_instance_from_oid(), get_instance() of the node types).
THEOREM GetIsExact ==
  ASSUME \A set \in MibSets : Apart(set)
  PROVE  Spec => []GetFindsInstance
<1>1. Init => WithinInv /\ GetLookupInv
  <2>1. \A o \in Oids : o \in OID
    BY ConstantsAssumption DEF ConstantsAssumption, OID
  <2>2. QED
    BY <2>1 DEF Init, WithinInv, Searching, GetLookupInv, GetFindsInstance
<1>2. GetLookupInv => GetFindsInstance
  BY DEF GetLookupInv, GetFindsInstance
<1>3. QED
  BY <1>1, <1>2, WithinInvStep, GetLookupInvStep, PTL DEF Spec

-----------------------------------------------------------------------------
(* get_next_instance() of the node types.                                  *)

\* An OID is its first arc with the others.
LEMMA HeadAndTail ==
  ASSUME NEW s \in OID, s # <<>>
  PROVE  /\ s[1] \in Nat /\ <<s[1]>> \in OID /\ Tail(s) \in OID
         /\ Len(Tail(s)) = Len(s) - 1 /\ \A j \in 1 .. Len(s) - 1 : Tail(s)[j] = s[j + 1]
         /\ s = <<s[1]>> \o Tail(s)
<1>1. /\ Tail(s) \in OID /\ Len(Tail(s)) = Len(s) - 1 /\ Len(s) \in Nat \ {0}
      /\ \A j \in 1 .. Len(s) - 1 : Tail(s)[j] = s[j + 1]
  BY DEF OID
<1>2. s[1] \in Nat
  BY <1>1 DEF OID
<1>3. PICK h \in OID : h = <<s[1]>> /\ Len(h) = 1 /\ h[1] = s[1]
  <2>1. PICK a \in Nat : a = s[1]
    BY <1>2
  <2>2. <<a>> \in OID /\ Len(<<a>>) = 1 /\ <<a>>[1] = a
    BY DEF OID
  <2>3. QED
    BY <2>1, <2>2, Zenon
<1>4. PICK t : t = Tail(s)
  OBVIOUS
<1>5. /\ h \o t \in OID /\ Len(h \o t) = Len(s)
      /\ (h \o t)[1] = s[1]
      /\ \A j \in 1 .. Len(t) : (h \o t)[1 + j] = t[j]
  BY <1>1, <1>3, <1>4, Concat
<1>6. ASSUME NEW j \in 1 .. Len(s)
      PROVE  (h \o t)[j] = s[j]
  <2>1. CASE j = 1
    BY <1>5, <2>1
  <2>2. CASE j # 1
    <3>1. j - 1 \in 1 .. Len(t) /\ j - 1 \in 1 .. Len(s) - 1 /\ 1 + (j - 1) = j /\ (j - 1) + 1 = j
      BY <1>1, <1>4, <2>2
    <3>2. (h \o t)[1 + (j - 1)] = t[j - 1] /\ t[j - 1] = s[(j - 1) + 1]
      BY <1>1, <1>4, <1>5, <3>1
    <3>3. QED
      BY <3>1, <3>2
  <2>3. QED
    BY <2>1, <2>2
<1>7. s = h \o t
  BY <1>1, <1>5, <1>6, SameArcs
<1>8. QED
  BY <1>1, <1>2, <1>3, <1>4, <1>7

\* OIDs are in the order of their first arcs, and behind the same first arc in that of
\* the others.
LEMMA LessByHead ==
  ASSUME NEW s \in OID, NEW t \in OID, s # <<>>, t # <<>>
  PROVE  /\ s[1] \in Nat /\ t[1] \in Nat /\ Tail(s) \in OID /\ Tail(t) \in OID
         /\ OidLess(s, t) <=> \/ s[1] < t[1]
                              \/ s[1] = t[1] /\ OidLess(Tail(s), Tail(t))
<1>1. s[1] \in Nat /\ t[1] \in Nat /\ Tail(s) \in OID /\ Tail(t) \in OID
  BY HeadAndTail
<1>2. <<s[1]>> \in OID /\ s = <<s[1]>> \o Tail(s) /\ t = <<t[1]>> \o Tail(t)
  BY HeadAndTail
<1>3. CASE s[1] = t[1]
  <2>1. PICK h \in OID, u \in OID, v \in OID :
          /\ h = <<s[1]>> /\ u = Tail(s) /\ v = Tail(t) /\ s = h \o u /\ t = h \o v
    BY <1>1, <1>2, <1>3
  <2>2. OidLess(s, t) <=> OidLess(u, v)
    <3>1. OidLess(h \o u, h \o v) <=> OidLess(u, v)
      BY ConcatLess
    <3>2. s = h \o u /\ t = h \o v
      BY <2>1
    <3>3. QED
      BY <3>1, <3>2
  <2>3. ~(s[1] < t[1])
    BY <1>1, <1>3
  <2>4. QED
    BY <1>1, <1>3, <2>1, <2>2, <2>3
<1>4. ASSUME NEW x \in OID, NEW y \in OID, x # <<>>, y # <<>>, x[1] < y[1]
      PROVE  OidLess(x, y)
  <2>1. 0 < Len(x) /\ 0 < Len(y)
    BY <1>4 DEF OID
  <2>2. LessAt(x, y, 0)
    BY <1>4, <2>1 DEF LessAt
  <2>3. QED
    BY <2>2, LessWhere
<1>5. CASE s[1] < t[1]
  BY <1>1, <1>4, <1>5
<1>6. CASE t[1] < s[1]
  <2>1. OidLess(t, s)
    BY <1>4, <1>6
  <2>2. ~OidLess(s, t)
    BY <2>1, LessAsymmetric
  <2>3. QED
    BY <1>1, <1>6, <2>2
<1>7. QED
  BY <1>1, <1>3, <1>5, <1>6

\* The empty OID is before all others, and nothing is before it.
LEMMA LessEmpty ==
  ASSUME NEW t \in OID
  PROVE  /\ <<>> \in OID
         /\ t # <<>> => OidLess(<<>>, t)
         /\ ~OidLess(t, <<>>)
<1>1. <<>> \in OID /\ Len(<<>>) = 0
  BY DEF OID
<1>2. IsPrefix(<<>>, t)
  <2>1. Len(<<>>) <= Len(t)
    BY <1>1 DEF OID
  <2>2. \A j \in 1 .. Len(<<>>) : <<>>[j] = t[j]
    BY <1>1
  <2>3. QED
    BY <1>1, <2>1, <2>2, PrefixArcs
<1>3. t # <<>> => OidLess(<<>>, t)
  BY <1>1, <1>2, PrefixLess
<1>4. QED
  BY <1>1, <1>3, LessAsymmetric, LessIrreflexive

\* There is one empty OID.
LEMMA EmptyOid ==
  ASSUME NEW s \in OID, Len(s) = 0
  PROVE  s = <<>>
BY DEF OID

\* Only the empty OID is before <<0>>.
LEMMA LessZero ==
  ASSUME NEW s \in OID
  PROVE  <<0>> \in OID /\ (OidLess(s, <<0>>) <=> s = <<>>)
<1>1. <<0>> \in OID /\ <<0>> # <<>> /\ <<0>>[1] = 0 /\ Tail(<<0>>) = <<>>
  BY DEF OID
<1>2. CASE s = <<>>
  BY <1>1, <1>2, LessEmpty
<1>3. CASE s # <<>>
  <2>1. s[1] \in Nat /\ Tail(s) \in OID
    BY <1>1, <1>3, LessByHead
  <2>2. ~(s[1] < 0) /\ ~OidLess(Tail(s), <<>>)
    BY <2>1, LessEmpty
  <2>3. QED
    BY <1>1, <1>3, <2>2, LessByHead
<1>4. QED
  BY <1>2, <1>3

\* The OIDs behind a leaf node for which snmp_table_get_next_instance() gives the next
\* cell: those that name a column before a row.
Regular(leaf, r) ==
  /\ r \in OID
  /\ leaf.kind = "table" => /\ Len(r) > 1 => r[1] # 0
                            /\ Len(r) > 2 => r[2] \in leaf.cols

\* What get_next_instance() promises: the next cell, if there is one.
IsNextCell(leaf, r, next) ==
  LET ahead == {c \in leaf.cells : OidLess(r, c)}
  IN  /\ next = NoInstance => ahead = {}
      /\ next # NoInstance => /\ next \in ahead /\ Regular(leaf, next)
                              /\ \A c \in ahead : ~OidLess(c, next)

\* A scalar node has one instance.
LEMMA NextScalarFacts ==
  ASSUME NEW leaf, WellFormedLeaf(leaf), leaf.kind = "scalar", NEW r \in OID
  PROVE  IsNextCell(leaf, r, NextScalar(leaf, r))
<1>1. leaf.cells = {<<0>>} /\ <<0>> # <<>>
  BY DEF WellFormedLeaf
<1>2. Regular(leaf, <<0>>)
  BY LessZero DEF Regular
<1>3. ~OidLess(<<0>>, <<0>>)
  BY LessZero, LessIrreflexive
<1>4. QED
  BY <1>1, <1>2, <1>3, LessZero DEF IsNextCell, NextScalar, NoInstance

\* The instances of an array of scalars are in the order of their first arcs.
LEMMA NextInArrayFacts ==
  ASSUME NEW leaf, WellFormedLeaf(leaf), leaf.kind = "array", NEW r \in OID,
         leaf.cols \subseteq 0 .. MaxArc - 1
  PROVE  IsNextCell(leaf, r, NextInArray(leaf, r))
<1> DEFINE oids == IF r = <<>> THEN leaf.cols
                   ELSE {a \in leaf.cols : \/ r = <<a>>
                                           \/ (a > r[1] /\ a - r[1] < MaxArc)}
<1>1. leaf.cells = {<<a, 0>> : a \in leaf.cols}
  BY DEF WellFormedLeaf
<1>2. MaxArc \in Nat
  BY ConstantsAssumption DEF ConstantsAssumption
<1>3. leaf.cols \subseteq Nat /\ oids \subseteq leaf.cols
  BY <1>2
<1>4. ASSUME NEW a \in Nat
      PROVE  /\ <<a, 0>> \in OID /\ <<a, 0>> # <<>> /\ Tail(<<a, 0>>) = <<0>>
             /\ <<a, 0>>[1] = a
  BY DEF OID
<1>5. ASSUME NEW a \in leaf.cols
      PROVE  OidLess(r, <<a, 0>>) <=> a \in oids
  <2>1. CASE r = <<>>
    BY <1>3, <1>4, <2>1, LessEmpty
  <2>2. CASE r # <<>>
    <3>1. r[1] \in Nat /\ Tail(r) \in OID
      BY <2>2, LessByHead
    <3>2. a \in Nat /\ a < MaxArc
      BY <1>2
    <3>3. PICK c \in OID : c = <<a, 0>> /\ c # <<>> /\ Tail(c) = <<0>> /\ c[1] = a
      BY <1>4, <3>2
    <3>4. OidLess(r, c) <=> r[1] < a \/ (r[1] = a /\ OidLess(Tail(r), <<0>>))
      <4>1. OidLess(r, c) <=> r[1] < c[1] \/ (r[1] = c[1] /\ OidLess(Tail(r), Tail(c)))
        BY <2>2, <3>3, LessByHead
      <4>2. c[1] = a /\ Tail(c) = <<0>>
        BY <3>3
      <4>3. QED
        BY <4>1, <4>2, Zenon
    <3>5. OidLess(r, c) <=> r[1] < a \/ (r[1] = a /\ Tail(r) = <<>>)
      BY <3>1, <3>4, LessZero
    <3>6. r[1] < a => a - r[1] < MaxArc
      BY <1>2, <3>1, <3>2
    <3>7. r = <<a>> <=> r[1] = a /\ Tail(r) = <<>>
      <4>1. <<a>>[1] = a /\ Tail(<<a>>) = <<>> /\ Len(<<a>>) = 1
        OBVIOUS
      <4>2. ASSUME r[1] = a, Tail(r) = <<>>
            PROVE  r = <<a>>
        <5>0. Len(r) \in Nat /\ Len(Tail(r)) = Len(r) - 1 /\ Len(Tail(r)) = 0
          <6>1. Len(r) \in Nat
            BY DEF OID
          <6>2. Len(Tail(r)) = Len(r) - 1
            BY <2>2, HeadAndTail
          <6>3. QED
            BY <4>2, <6>1, <6>2
        <5>1. Len(r) = 1
          BY <5>0
        <5>2. <<a>> \in OID
          BY <3>2 DEF OID
        <5>3. \A j \in 1 .. Len(r) : r[j] = <<a>>[j]
          BY <4>2, <5>1
        <5>4. QED
          BY <4>1, <5>1, <5>2, <5>3, SameArcs
      <4>3. QED
        BY <4>1, <4>2
    <3>8. a \in oids <=> r = <<a>> \/ (a > r[1] /\ a - r[1] < MaxArc)
      BY <2>2
    <3>9. a > r[1] <=> r[1] < a
      BY <3>1, <3>2
    <3>10. QED
      BY <3>3, <3>5, <3>6, <3>7, <3>8, <3>9
  <2>3. QED
    BY <2>1, <2>2
<1> HIDE DEF oids
<1>6. NextInArray(leaf, r) = IF oids = {} THEN NoInstance ELSE <<Min(oids), 0>>
  BY DEF NextInArray, oids
<1>7. CASE oids = {}
  <2>1. {c \in leaf.cells : OidLess(r, c)} = {}
    BY <1>1, <1>5, <1>7
  <2>2. QED
    BY <1>6, <1>7, <2>1 DEF IsNextCell
<1>8. CASE oids # {}
  <2>1. PICK b : b = Min(oids)
    OBVIOUS
  <2>2. b \in oids /\ b \in leaf.cols /\ b \in Nat /\ \A a \in oids : b <= a
    BY <1>3, <1>8, <2>1, MinOfNats
  <2>3. NextInArray(leaf, r) = <<b, 0>> /\ <<b, 0>> # NoInstance
    BY <1>4, <1>6, <1>8, <2>1, <2>2 DEF NoInstance
  <2>4. <<b, 0>> \in {c \in leaf.cells : OidLess(r, c)}
    BY <1>1, <1>5, <2>2
  <2>5. Regular(leaf, <<b, 0>>)
    BY <1>4, <2>2 DEF Regular
  <2>6. ASSUME NEW a \in oids
        PROVE  ~OidLess(<<a, 0>>, <<b, 0>>)
    <3>1. a \in Nat /\ b <= a
      BY <1>3, <2>2
    <3>2. ~(a < b) /\ ~OidLess(<<0>>, <<0>>)
      BY <2>2, <3>1, LessZero, LessIrreflexive
    <3>3. PICK c \in OID : c = <<a, 0>> /\ c # <<>> /\ Tail(c) = <<0>> /\ c[1] = a
      BY <1>4, <3>1
    <3>4. PICK d \in OID : d = <<b, 0>> /\ d # <<>> /\ Tail(d) = <<0>> /\ d[1] = b
      BY <1>4, <2>2
    <3>5. OidLess(c, d) <=> a < b \/ (a = b /\ OidLess(<<0>>, <<0>>))
      <4>1. OidLess(c, d) <=> c[1] < d[1] \/ (c[1] = d[1] /\ OidLess(Tail(c), Tail(d)))
        BY <3>3, <3>4, LessByHead
      <4>2. c[1] = a /\ Tail(c) = <<0>> /\ d[1] = b /\ Tail(d) = <<0>>
        BY <3>3, <3>4
      <4>3. QED
        BY <4>1, <4>2, Zenon
    <3>6. QED
      BY <3>2, <3>3, <3>4, <3>5
  <2>7. \A c \in {c \in leaf.cells : OidLess(r, c)} : ~OidLess(c, <<b, 0>>)
    BY <1>1, <1>5, <2>6
  <2>8. QED
    BY <2>3, <2>4, <2>5, <2>7 DEF IsNextCell
<1>9. QED
  BY <1>7, <1>8

\* The row part of a cell.
LEMMA RowFacts ==
  ASSUME NEW s \in OID
  PROVE  /\ Row(s) \in OID
         /\ Len(s) < 3 => Row(s) = <<>>
         /\ Len(s) >= 3 => Row(s) # <<>>
         /\ Len(s) >= 2 => /\ s # <<>> /\ Tail(s) \in OID /\ Tail(s) # <<>>
                           /\ s[1] \in Nat /\ s[2] \in Nat /\ Tail(s)[1] = s[2]
                           /\ Tail(Tail(s)) = Row(s)
<1>1. Len(s) \in Nat
  BY DEF OID
<1>2. /\ Row(s) \in OID
      /\ Len(Row(s)) = IF Len(s) < 3 THEN 0 ELSE Len(s) - 2
      /\ \A j \in 1 .. Len(Row(s)) : Row(s)[j] = s[j + 2]
  BY <1>1 DEF Row, OID
<1>3. Len(s) < 3 => Row(s) = <<>>
  BY <1>2 DEF OID
<1>4. Len(s) >= 3 => Row(s) # <<>>
  BY <1>1, <1>2
<1>5. ASSUME Len(s) >= 2
      PROVE  /\ s # <<>> /\ Tail(s) \in OID /\ Tail(s) # <<>>
             /\ s[1] \in Nat /\ s[2] \in Nat /\ Tail(s)[1] = s[2]
             /\ Tail(Tail(s)) = Row(s)
  <2>1. s # <<>>
    BY <1>5
  <2>2. PICK t \in OID : /\ t = Tail(s) /\ Len(t) = Len(s) - 1
                         /\ \A j \in 1 .. Len(s) - 1 : t[j] = s[j + 1]
    BY <2>1, HeadAndTail
  <2>3. Len(t) \in Nat /\ Len(t) >= 1
    BY <1>1, <1>5, <2>2
  <2>4. t # <<>> /\ t[1] = s[2]
    <3>1. t # <<>>
      BY <2>3
    <3>2. 1 \in 1 .. Len(s) - 1
      BY <1>1, <1>5
    <3>3. t[1] = s[1 + 1]
      BY <2>2, <3>2
    <3>4. QED
      BY <3>1, <3>3
  <2>5. PICK u \in OID : /\ u = Tail(t) /\ Len(u) = Len(t) - 1
                         /\ \A j \in 1 .. Len(t) - 1 : u[j] = t[j + 1]
    BY <2>4, HeadAndTail
  <2>6. PICK r \in OID : r = Row(s)
    BY <1>2
  <2>7. Len(u) = Len(s) - 2 /\ Len(r) = Len(s) - 2
    <3>1. Len(Row(s)) = Len(s) - 2
      <4>1. Len(Row(s)) = IF Len(s) < 3 THEN 0 ELSE Len(s) - 2
        BY <1>2
      <4>2. PICK k \in Nat : k = Len(s)
        BY <1>1
      <4>3. k >= 2 => (IF k < 3 THEN 0 ELSE k - 2) = k - 2
        OBVIOUS
      <4>4. QED
        BY <1>5, <4>1, <4>2, <4>3
    <3>2. Len(u) = Len(t) - 1 /\ Len(t) = Len(s) - 1
      BY <2>2, <2>5
    <3>3. Len(u) = Len(s) - 2
      BY <1>1, <3>2
    <3>4. QED
      BY <2>6, <3>1, <3>3
  <2>8. ASSUME NEW j \in 1 .. Len(u)
        PROVE  u[j] = r[j]
    <3>1. /\ j \in 1 .. Len(t) - 1 /\ j + 1 \in 1 .. Len(s) - 1 /\ j \in 1 .. Len(r)
          /\ (j + 1) + 1 = j + 2
      BY <1>1, <2>2, <2>7
    <3>2. u[j] = t[j + 1] /\ t[j + 1] = s[(j + 1) + 1]
      BY <2>2, <2>5, <3>1
    <3>3. r[j] = s[j + 2]
      BY <1>2, <2>6, <3>1
    <3>4. QED
      BY <3>1, <3>2, <3>3
  <2>9. u = r
    BY <2>7, <2>8, SameArcs
  <2>10. s[1] \in Nat /\ t[1] \in Nat
    BY <2>1, <2>4, HeadAndTail
  <2>11. QED
    BY <2>1, <2>2, <2>4, <2>5, <2>6, <2>9, <2>10
<1>6. QED
  BY <1>2, <1>3, <1>4, <1>5

\* Cells are in the order of their columns, and in a column in that of their rows.
LEMMA LessByColumn ==
  ASSUME NEW s \in OID, NEW t \in OID, Len(s) >= 2, Len(t) >= 2
  PROVE  OidLess(s, t) <=> \/ s[1] < t[1]
                           \/ /\ s[1] = t[1]
                              /\ s[2] < t[2] \/ (s[2] = t[2] /\ OidLess(Row(s), Row(t)))
<1>1. /\ s # <<>> /\ Tail(s) \in OID /\ Tail(s) # <<>>
      /\ Tail(s)[1] = s[2] /\ Tail(Tail(s)) = Row(s)
      /\ t # <<>> /\ Tail(t) \in OID /\ Tail(t) # <<>>
      /\ Tail(t)[1] = t[2] /\ Tail(Tail(t)) = Row(t)
  BY RowFacts
<1>2. OidLess(s, t) <=> s[1] < t[1] \/ (s[1] = t[1] /\ OidLess(Tail(s), Tail(t)))
  BY <1>1, LessByHead
<1>3. PICK u \in OID, v \in OID : u = Tail(s) /\ v = Tail(t)
  BY <1>1
<1>4. OidLess(u, v) <=> u[1] < v[1] \/ (u[1] = v[1] /\ OidLess(Tail(u), Tail(v)))
  BY <1>1, <1>3, LessByHead
<1>5. QED
  BY <1>1, <1>2, <1>3, <1>4, Zenon

\* Where snmp_table_get_next_instance() begins with the columns.
Column(r) == IF Len(r) > 1 THEN r[2] ELSE 0

\* The cells behind an OID, by their columns.
LEMMA CellsAhead ==
  ASSUME NEW leaf, WellFormedLeaf(leaf), leaf.kind = "table", NEW r, Regular(leaf, r),
         NEW c \in leaf.cells
  PROVE  /\ c \in OID /\ Len(c) >= 3 /\ c[1] = 1 /\ c[2] \in leaf.cols /\ c[2] \in Nat
         /\ Row(c) \in OID /\ Row(c) # <<>>
         /\ r \in OID /\ Column(r) \in Nat
         /\ IF Len(r) > 0 /\ r[1] > 1 THEN ~OidLess(r, c)
            ELSE OidLess(r, c) <=> \/ Column(r) < c[2]
                                   \/ Column(r) = c[2] /\ OidLess(Row(r), Row(c))
<1>1. c \in OID /\ r \in OID /\ Len(r) \in Nat /\ Len(c) \in Nat
  BY CellFacts DEF Regular, OID
<1>2. Len(c) >= 3 /\ c[1] = 1 /\ c[2] \in leaf.cols
  BY DEF WellFormedLeaf
<1>3. Len(c) >= 2 /\ c[2] \in Nat /\ c # <<>> /\ Row(c) \in OID /\ Row(c) # <<>>
  BY <1>1, <1>2, RowFacts
<1>4. Column(r) \in Nat
  <2>1. CASE Len(r) > 1
    BY <1>1, <2>1, RowFacts DEF Column
  <2>2. CASE ~(Len(r) > 1)
    BY <2>2 DEF Column
  <2>3. QED
    BY <2>1, <2>2
<1>5. IF Len(r) > 0 /\ r[1] > 1 THEN ~OidLess(r, c)
      ELSE OidLess(r, c) <=> \/ Column(r) < c[2]
                             \/ Column(r) = c[2] /\ OidLess(Row(r), Row(c))
  <2>1. CASE Len(r) = 0
    <3>0. r = <<>>
      BY <1>1, <2>1, EmptyOid
    <3>1. r = <<>> /\ Column(r) = 0 /\ Row(r) = <<>>
      <4>1. Len(r) < 3 /\ ~(Len(r) > 1)
        BY <2>1
      <4>2. Row(r) = <<>>
        BY <1>1, <4>1, RowFacts
      <4>3. QED
        BY <3>0, <4>1, <4>2 DEF Column
    <3>2. OidLess(<<>>, c) /\ OidLess(<<>>, Row(c))
      BY <1>1, <1>3, LessEmpty
    <3>3. 0 < c[2] \/ 0 = c[2]
      BY <1>3
    <3>4. QED
      BY <2>1, <3>1, <3>2, <3>3
  <2>2. CASE Len(r) = 1
    <3>1. r # <<>> /\ Column(r) = 0 /\ Row(r) = <<>> /\ ~(Len(r) > 1) /\ Len(r) > 0
      <4>1. Len(r) < 3 /\ ~(Len(r) > 1) /\ Len(r) > 0 /\ r # <<>>
        BY <2>2
      <4>2. Row(r) = <<>>
        BY <1>1, <4>1, RowFacts
      <4>3. QED
        BY <4>1, <4>2 DEF Column
    <3>2. r[1] \in Nat /\ Tail(r) \in OID /\ Len(Tail(r)) = Len(r) - 1
      BY <1>1, <3>1, HeadAndTail
    <3>3. Tail(r) = <<>>
      <4>1. Len(Tail(r)) = 0
        BY <2>2, <3>2
      <4>2. QED
        BY <3>2, <4>1, EmptyOid
    <3>4. Tail(c) \in OID /\ Tail(c) # <<>>
      BY <1>1, <1>3, RowFacts
    <3>5. OidLess(<<>>, Tail(c)) /\ OidLess(<<>>, Row(c))
      BY <1>3, <3>4, LessEmpty
    <3>6. OidLess(r, c) <=> r[1] < c[1] \/ (r[1] = c[1] /\ OidLess(Tail(r), Tail(c)))
      BY <1>1, <1>3, <3>1, LessByHead
    <3>7. OidLess(r, c) <=> r[1] < 1 \/ r[1] = 1
      BY <1>2, <3>3, <3>5, <3>6
    <3>8. 0 < c[2] \/ 0 = c[2]
      BY <1>3
    <3>9. QED
      BY <3>1, <3>2, <3>5, <3>7, <3>8
  <2>3. CASE Len(r) > 1
    <3>1. /\ Len(r) >= 2 /\ Len(r) > 0 /\ r[1] # 0 /\ Column(r) = r[2]
          /\ r[1] \in Nat /\ r[2] \in Nat
      BY <1>1, <2>3, RowFacts DEF Regular, Column
    <3>2. OidLess(r, c) <=> \/ r[1] < 1
                            \/ /\ r[1] = 1
                               /\ r[2] < c[2] \/ (r[2] = c[2] /\ OidLess(Row(r), Row(c)))
      BY <1>1, <1>2, <1>3, <3>1, LessByColumn
    <3>3. ~(r[1] < 1) /\ (r[1] > 1 \/ r[1] = 1)
      BY <3>1
    <3>4. CASE r[1] > 1
      <4>1. ~(r[1] = 1)
        BY <3>1, <3>4
      <4>2. QED
        BY <3>1, <3>2, <3>3, <3>4, <4>1
    <3>5. CASE r[1] = 1
      <4>1. ~(r[1] > 1)
        BY <3>5
      <4>2. QED
        BY <3>1, <3>2, <3>3, <3>5, <4>1
    <3>6. QED
      BY <3>3, <3>4, <3>5
  <2>4. Len(r) = 0 \/ Len(r) = 1 \/ Len(r) > 1
    <3>1. PICK k \in Nat : k = Len(r)
      BY <1>1
    <3>2. k = 0 \/ k = 1 \/ k > 1
      OBVIOUS
    <3>3. QED
      BY <3>1, <3>2
  <2>5. QED
    BY <2>1, <2>2, <2>3, <2>4, Zenon
<1>6. QED
  BY <1>1, <1>2, <1>3, <1>4, <1>5

\* A set of cells has a least one, and it is the next one when they are all there is ahead.
LEMMA LeastCell ==
  ASSUME NEW leaf, WellFormedLeaf(leaf), NEW r \in OID, NEW S \in SUBSET leaf.cells, S # {},
         \A c \in S : OidLess(r, c),
         \A c \in leaf.cells \ S : OidLess(r, c) => \A d \in S : OidLess(d, c),
         leaf.kind = "table"
  PROVE  IsNextCell(leaf, r, Least(S)) /\ Least(S) # NoInstance
<1>1. \A c \in leaf.cells : c \in OID /\ c # <<>>
  BY CellFacts
<1>2. S \in SUBSET OID /\ IsFiniteSet(S)
  BY <1>1, FS_Subset DEF WellFormedLeaf
<1>3. PICK b : b = Least(S)
  OBVIOUS
<1>4. b \in S /\ \A c \in S \ {b} : OidLess(b, c)
  BY <1>2, <1>3, LeastFacts
<1>5. ASSUME NEW c \in leaf.cells, OidLess(r, c)
      PROVE  ~OidLess(c, b)
  <2>1. c = b \/ OidLess(b, c)
    BY <1>4, <1>5
  <2>2. QED
    BY <1>1, <1>4, <2>1, LessAsymmetric, LessIrreflexive
<1>6. Regular(leaf, b)
  <2>1. b \in leaf.cells /\ b[1] = 1 /\ b[2] \in leaf.cols
    BY <1>4 DEF WellFormedLeaf
  <2>2. QED
    BY <1>1, <2>1 DEF Regular
<1>7. b # NoInstance
  BY <1>1, <1>4 DEF NoInstance
<1>8. QED
  BY <1>3, <1>4, <1>5, <1>6, <1>7 DEF IsNextCell

\* A table's cells come column by column.
LEMMA NextInTableFacts ==
  ASSUME NEW leaf, WellFormedLeaf(leaf), leaf.kind = "table", NEW r, Regular(leaf, r),
         leaf.cols \subseteq 0 .. MaxArc - 1
  PROVE  IsNextCell(leaf, r, NextInTable(leaf, r))
<1> DEFINE cols == {c \in leaf.cols : c >= Column(r)}
           behind == CellsBehind(leaf, Min(cols), Row(r))
           later == UNION {CellsBehind(leaf, c, <<>>) :
                             c \in {d \in leaf.cols : d >= NextArc(Min(cols))}}
<1>1. NextInTable(leaf, r) =
        IF (Len(r) > 0 /\ r[1] > 1) \/ cols = {} THEN NoInstance
        ELSE IF behind # {} THEN Least(behind)
        ELSE IF later # {} THEN Least(later)
        ELSE NoInstance
  BY DEF NextInTable, Column
<1>2. r \in OID /\ Len(r) \in Nat
  BY DEF Regular, OID
<1>3. Column(r) \in Nat
  <2>1. CASE Len(r) > 1
    BY <1>2, <2>1, RowFacts DEF Column
  <2>2. CASE ~(Len(r) > 1)
    BY <2>2 DEF Column
  <2>3. QED
    BY <2>1, <2>2
<1>4. MaxArc \in Nat /\ leaf.cols \subseteq Nat
  BY ConstantsAssumption DEF ConstantsAssumption
<1>5. ASSUME \A c \in leaf.cells : ~OidLess(r, c)
      PROVE  IsNextCell(leaf, r, NoInstance)
  BY <1>5 DEF IsNextCell
<1>6. CASE Len(r) > 0 /\ r[1] > 1
  <2>1. \A c \in leaf.cells : ~OidLess(r, c)
    BY <1>6, CellsAhead
  <2>2. QED
    BY <1>1, <1>5, <1>6, <2>1
<1>7. CASE ~(Len(r) > 0 /\ r[1] > 1) /\ cols = {}
  <2>1. ASSUME NEW c \in leaf.cells
        PROVE  ~OidLess(r, c)
    <3>1. /\ c[2] \in leaf.cols /\ c[2] \in Nat
          /\ OidLess(r, c) => Column(r) < c[2] \/ Column(r) = c[2]
      BY <1>7, CellsAhead
    <3>2. ~(c[2] >= Column(r))
      BY <1>7, <3>1
    <3>3. QED
      BY <1>3, <3>1, <3>2
  <2>2. QED
    BY <1>1, <1>5, <1>7, <2>1
<1>8. CASE ~(Len(r) > 0 /\ r[1] > 1) /\ cols # {}
  <2>1. PICK mc : mc = Min(cols)
    OBVIOUS
  <2>2. cols \in SUBSET Nat
    BY <1>4
  <2>3. mc \in cols /\ \A a \in cols : mc <= a
    BY <1>8, <2>1, <2>2, MinOfNats
  <2>4. mc \in leaf.cols /\ mc \in Nat /\ Column(r) <= mc
    BY <1>3, <1>4, <2>3
  <2>5. NextArc(mc) = mc + 1
    <3>1. mc + 1 < MaxArc + 1 /\ mc + 1 \in Nat /\ MaxArc + 1 \in Nat
      BY <1>4, <2>4
    <3>2. (mc + 1) % (MaxArc + 1) = mc + 1
      BY <3>1
    <3>3. QED
      BY <3>2 DEF NextArc
  <2>6. ASSUME NEW c \in leaf.cells
        PROVE  /\ c[2] \in Nat /\ c[2] \in leaf.cols /\ OidLess(<<>>, Row(c))
               /\ OidLess(r, c) <=> mc < c[2] \/ (mc = c[2] /\ OidLess(Row(r), Row(c)))
    <3>1. /\ c[2] \in leaf.cols /\ c[2] \in Nat /\ Row(c) \in OID /\ Row(c) # <<>>
          /\ OidLess(r, c) <=> \/ Column(r) < c[2]
                               \/ Column(r) = c[2] /\ OidLess(Row(r), Row(c))
      BY <1>8, CellsAhead
    <3>2. OidLess(<<>>, Row(c))
      BY <3>1, LessEmpty
    <3>3. CASE Column(r) = mc
      BY <3>1, <3>2, <3>3
    <3>4. CASE Column(r) < mc
      <4>1. Column(r) \notin leaf.cols
        <5>1. SUFFICES ASSUME Column(r) \in leaf.cols
                       PROVE  FALSE
          OBVIOUS
        <5>2. Column(r) \in cols
          BY <1>3, <5>1
        <5>3. mc <= Column(r)
          BY <2>3, <5>2
        <5>4. QED
          BY <1>3, <2>4, <3>4, <5>3
      <4>2. Len(r) < 3
        <5>1. ~(Len(r) > 2)
          <6>1. SUFFICES ASSUME Len(r) > 2
                         PROVE  FALSE
            OBVIOUS
          <6>2. Len(r) > 1
            BY <1>2, <6>1
          <6>3. Column(r) \in leaf.cols
            BY <6>1, <6>2 DEF Regular, Column
          <6>4. QED
            BY <4>1, <6>3
        <5>2. QED
          BY <1>2, <5>1
      <4>3. Row(r) = <<>>
        BY <1>2, <4>2, RowFacts
      <4>4. Column(r) # c[2]
        BY <3>1, <4>1
      <4>5. Column(r) < c[2] <=> c[2] \in cols
        BY <1>3, <3>1, <4>4
      <4>6. c[2] \in cols => mc <= c[2]
        BY <2>3
      <4>7. mc <= c[2] => Column(r) < c[2]
        BY <1>3, <2>4, <3>1, <3>4
      <4>8. Column(r) < c[2] <=> mc < c[2] \/ mc = c[2]
        BY <2>4, <3>1, <4>5, <4>6, <4>7
      <4>9. OidLess(r, c) <=> Column(r) < c[2]
        BY <3>1, <4>4
      <4>10. QED
        BY <3>1, <3>2, <4>3, <4>8, <4>9
    <3>5. QED
      BY <1>3, <2>4, <3>3, <3>4
  <2>7. behind = {c \in leaf.cells : mc = c[2] /\ OidLess(Row(r), Row(c))}
    BY <2>1 DEF CellsBehind
  <2>8. later = {c \in leaf.cells : mc < c[2]}
    <3>1. \A c \in leaf.cells : mc < c[2] <=> c[2] >= mc + 1
      BY <2>4, <2>6
    <3>2. later = UNION {CellsBehind(leaf, c, <<>>) : c \in {d \in leaf.cols : d >= mc + 1}}
      BY <2>1, <2>5
    <3>3. ASSUME NEW c \in leaf.cells, mc < c[2]
          PROVE  c \in later
      <4>1. c[2] \in {d \in leaf.cols : d >= mc + 1} /\ c \in CellsBehind(leaf, c[2], <<>>)
        BY <2>6, <3>1, <3>3 DEF CellsBehind
      <4>2. QED
        BY <3>2, <4>1
    <3>4. ASSUME NEW c \in later
          PROVE  c \in leaf.cells /\ mc < c[2]
      <4>1. PICK d \in leaf.cols : d >= mc + 1 /\ c \in CellsBehind(leaf, d, <<>>)
        BY <3>2
      <4>2. QED
        BY <3>1, <4>1 DEF CellsBehind
    <3>5. QED
      BY <3>3, <3>4
  <2> HIDE DEF cols, behind, later
  <2>9. CASE behind # {}
    <3>1. NextInTable(leaf, r) = Least(behind)
      BY <1>1, <1>8, <2>9
    <3>2. \A c \in behind : OidLess(r, c)
      BY <2>6, <2>7
    <3>3. ASSUME NEW c \in leaf.cells \ behind, OidLess(r, c), NEW d \in behind
          PROVE  OidLess(d, c)
      <4>1. mc < c[2] /\ d[2] = mc /\ d \in leaf.cells
        BY <2>6, <2>7, <3>3
      <4>2. /\ c \in OID /\ d \in OID /\ Len(c) >= 3 /\ Len(d) >= 3 /\ c[1] = 1 /\ d[1] = 1
        BY <4>1, CellsAhead
      <4>3. Len(c) >= 2 /\ Len(d) >= 2
        BY <4>2 DEF OID
      <4>4. OidLess(d, c) <=> \/ d[1] < c[1]
                              \/ /\ d[1] = c[1]
                                 /\ d[2] < c[2] \/ (d[2] = c[2] /\ OidLess(Row(d), Row(c)))
        BY <4>2, <4>3, LessByColumn
      <4>5. QED
        BY <4>1, <4>2, <4>4
    <3>4. behind \in SUBSET leaf.cells
      BY <2>7
    <3>5. QED
      BY <1>2, <2>9, <3>1, <3>2, <3>3, <3>4, LeastCell
  <2>10. CASE behind = {} /\ later # {}
    <3>1. NextInTable(leaf, r) = Least(later)
      BY <1>1, <1>8, <2>10
    <3>2. \A c \in later : OidLess(r, c)
      BY <2>6, <2>8
    <3>3. \A c \in leaf.cells \ later : ~OidLess(r, c)
      BY <2>6, <2>7, <2>8, <2>10
    <3>4. later \in SUBSET leaf.cells
      BY <2>8
    <3>5. QED
      BY <1>2, <2>10, <3>1, <3>2, <3>3, <3>4, LeastCell
  <2>11. CASE behind = {} /\ later = {}
    <3>1. \A c \in leaf.cells : ~OidLess(r, c)
      BY <2>6, <2>7, <2>8, <2>11
    <3>2. QED
      BY <1>1, <1>5, <1>8, <2>11, <3>1
  <2>12. QED
    BY <2>9, <2>10, <2>11
<1>9. QED
  BY <1>6, <1>7, <1>8

\* Whatever a leaf node's type, get_next_instance() returns its next cell.
LEMMA NextInstanceFacts ==
  ASSUME NEW leaf, WellFormedLeaf(leaf), NEW r, Regular(leaf, r),
         leaf.cols \subseteq 0 .. MaxArc - 1
  PROVE  IsNextCell(leaf, r, NextInstance(leaf, r))
<1>1. r \in OID
  BY DEF Regular
<1>2. CASE leaf.kind = "scalar"
  <2>1. NextInstance(leaf, r) = NextScalar(leaf, r)
    BY <1>2 DEF NextInstance
  <2>2. QED
    BY <1>1, <1>2, <2>1, NextScalarFacts
<1>3. CASE leaf.kind = "array"
  <2>1. NextInstance(leaf, r) = NextInArray(leaf, r)
    BY <1>3 DEF NextInstance
  <2>2. QED
    BY <1>1, <1>3, <2>1, NextInArrayFacts
<1>4. CASE leaf.kind = "table"
  <2>1. NextInstance(leaf, r) = NextInTable(leaf, r)
    BY <1>4 DEF NextInstance
  <2>2. QED
    BY <1>4, <2>1, NextInTableFacts
<1>5. QED
  BY <1>2, <1>3, <1>4 DEF WellFormedLeaf

-----------------------------------------------------------------------------
(* The nodes of a MIB and the instances below them.                        *)

\* No OID below another one is before its first subnode.
LEMMA BehindFirstSubnode ==
  ASSUME NEW z \in OID, NEW h \in OID, OidLess(z, h)
  PROVE  /\ z \o <<0>> \in OID /\ OidLess(z, z \o <<0>>) /\ IsPrefix(z, z \o <<0>>)
         /\ ~OidLess(h, z \o <<0>>)
<1>1. <<0>> \in OID /\ Len(<<0>>) = 1
  BY DEF OID
<1>2. PICK y : y = z \o <<0>>
  OBVIOUS
<1>3. y \in OID /\ IsPrefix(z, y) /\ Len(y) = Len(z) + 1 /\ Len(z) \in Nat
  <2>1. y \in OID /\ IsPrefix(z, y) /\ Len(y) = Len(z) + Len(<<0>>)
    BY <1>1, <1>2, Concat
  <2>2. Len(z) \in Nat
    BY DEF OID
  <2>3. QED
    BY <1>1, <2>1, <2>2
<1>4. z # y
  BY <1>3
<1>5. OidLess(z, y)
  BY <1>3, <1>4, PrefixLess
<1>6. CASE IsPrefix(z, h)
  <2>1. Len(z) < Len(h)
    <3>1. z # h
      BY LessIrreflexive
    <3>2. QED
      BY <1>6, <3>1, PrefixLess
  <2>2. Len(z) + 1 \in 1 .. Len(h)
    BY <1>3, <2>1 DEF OID
  <2>3. h[Len(z) + 1] \in Nat
    BY <2>2, ElementOfSeq DEF OID
  <2>4. OidLess(h, y) <=> h[Len(z) + 1] < 0
    BY <1>2, <1>6, <2>1, LessThanNode
  <2>5. QED
    BY <1>2, <1>3, <1>5, <2>3, <2>4
<1>7. CASE ~IsPrefix(z, h)
  <2>1. IsPrefix(z, z)
    BY PrefixArcs DEF OID
  <2>2. OidLess(y, h)
    BY <1>3, <1>7, <2>1, SubtreeBefore
  <2>3. QED
    BY <1>2, <1>3, <1>5, <2>2, LessAsymmetric
<1>8. QED
  BY <1>6, <1>7

\* Going one arc down and up.
LEMMA OneArcDown ==
  ASSUME NEW w \in OID, NEW b \in Nat
  PROVE  /\ w \o <<b>> \in OID /\ w \o <<b>> # <<>> /\ Len(w \o <<b>>) = Len(w) + 1
         /\ (w \o <<b>>)[Len(w) + 1] = b /\ IsPrefix(w, w \o <<b>>)
         /\ Append(w, b) = w \o <<b>>
         /\ Front(w \o <<b>>) = w /\ Last(w \o <<b>>) = b
<1>1. <<b>> \in OID /\ Len(<<b>>) = 1 /\ <<b>>[1] = b
  BY DEF OID
<1>2. PICK y : y = w \o <<b>>
  OBVIOUS
<1>3. /\ y \in OID /\ Len(y) = Len(w) + 1 /\ Len(w) \in Nat /\ IsPrefix(w, y)
      /\ \A j \in 1 .. Len(w) : y[j] = w[j]
      /\ y[Len(w) + 1] = b
  <2>1. /\ y \in OID /\ IsPrefix(w, y) /\ Len(y) = Len(w) + Len(<<b>>)
        /\ \A j \in 1 .. Len(w) : y[j] = w[j]
        /\ \A j \in 1 .. Len(<<b>>) : y[Len(w) + j] = <<b>>[j]
    BY <1>1, <1>2, Concat
  <2>2. Len(w) \in Nat
    BY DEF OID
  <2>3. 1 \in 1 .. Len(<<b>>)
    BY <1>1
  <2>4. y[Len(w) + 1] = b
    BY <1>1, <2>1, <2>3
  <2>5. QED
    BY <1>1, <2>1, <2>2, <2>4
<1>4. y # <<>>
  BY <1>3
<1>5. Last(y) = b
  BY <1>3 DEF Last
<1>6. Append(w, b) = y
  BY <1>2 DEF OID
<1>7. Front(y) = w
  <2>1. PICK f : f = Front(y)
    OBVIOUS
  <2>2. f \in OID /\ Len(f) = Len(w) /\ \A j \in 1 .. Len(w) : f[j] = y[j]
    BY <1>3, <2>1 DEF Front, OID
  <2>3. f = w
    BY <1>3, <2>2, SameArcs
  <2>4. QED
    BY <2>1, <2>3
<1>8. QED
  BY <1>2, <1>3, <1>4, <1>5, <1>6, <1>7

\* The other way round.
LEMMA OneArcUp ==
  ASSUME NEW p \in OID, p # <<>>
  PROVE  /\ Front(p) \in OID /\ Last(p) \in Nat /\ p = Front(p) \o <<Last(p)>>
         /\ Len(p) \in Nat \ {0} /\ Len(Front(p)) = Len(p) - 1
         /\ Front(p) = SubSeq(p, 1, Len(p) - 1)
<1>1. Len(p) \in Nat \ {0}
  BY DEF OID
<1>2. Last(p) \in Nat
  <2>1. Len(p) \in 1 .. Len(p)
    BY <1>1
  <2>2. QED
    BY <2>1, ElementOfSeq DEF OID, Last
<1>3. /\ Front(p) \in OID /\ Len(Front(p)) = Len(p) - 1
      /\ \A j \in 1 .. Len(p) - 1 : Front(p)[j] = p[j]
      /\ Front(p) = SubSeq(p, 1, Len(p) - 1)
  <2>1. PICK n \in Nat : n = Len(p) - 1
    BY <1>1
  <2>2. /\ SubSeq(p, 1, n) \in OID /\ Len(SubSeq(p, 1, n)) = n
        /\ \A j \in 1 .. n : SubSeq(p, 1, n)[j] = p[j]
    BY <1>1, <2>1 DEF OID
  <2>3. Front(p) = SubSeq(p, 1, n)
    BY <2>1 DEF Front
  <2>4. QED
    BY <2>1, <2>2, <2>3
<1>4. PICK f \in OID, l \in Nat : f = Front(p) /\ l = Last(p)
  BY <1>2, <1>3
<1>5. PICK y : y = f \o <<l>>
  OBVIOUS
<1>6. <<l>> \in OID /\ Len(<<l>>) = 1 /\ <<l>>[1] = l
  BY DEF OID
<1>7. /\ y \in OID /\ Len(y) = Len(f) + 1
      /\ \A j \in 1 .. Len(f) : y[j] = f[j]
      /\ y[Len(f) + 1] = l
  BY <1>5, OneArcDown, Concat, <1>6
<1>8. Len(f) + 1 = Len(p)
  BY <1>1, <1>3, <1>4
<1>9. ASSUME NEW j \in 1 .. Len(p)
      PROVE  p[j] = y[j]
  <2>1. CASE j = Len(p)
    BY <1>4, <1>7, <1>8, <2>1 DEF Last
  <2>2. CASE j # Len(p)
    <3>1. j \in 1 .. Len(p) - 1 /\ j \in 1 .. Len(f)
      BY <1>1, <1>3, <1>4, <2>2
    <3>2. QED
      BY <1>3, <1>4, <1>7, <3>1
  <2>3. QED
    BY <2>1, <2>2
<1>10. p = y
  BY <1>7, <1>8, <1>9, SameArcs
<1>11. QED
  BY <1>1, <1>2, <1>3, <1>4, <1>5, <1>10

\* An OID below a node, with the arc of a subnode, is below that subnode.
LEMMA PrefixOneArc ==
  ASSUME NEW w \in OID, NEW t \in OID, NEW b \in Nat, IsPrefix(w, t), Len(w) < Len(t),
         t[Len(w) + 1] = b
  PROVE  IsPrefix(w \o <<b>>, t)
<1>1. PICK v \in OID : v = w \o <<b>>
  BY OneArcDown
<1>2. <<b>> \in OID
  BY DEF OID
<1>3. Len(v) = Len(w) + 1 /\ v[Len(w) + 1] = b /\ \A j \in 1 .. Len(w) : v[j] = w[j]
  BY <1>1, <1>2, OneArcDown, Concat
<1>4. \A j \in 1 .. Len(w) : w[j] = t[j]
  BY PrefixArcs
<1>5. Len(w) \in Nat /\ Len(t) \in Nat
  BY DEF OID
<1>6. ASSUME NEW j \in 1 .. Len(v)
      PROVE  v[j] = t[j]
  <2>1. CASE j = Len(w) + 1
    BY <1>3, <2>1
  <2>2. CASE j # Len(w) + 1
    <3>1. j \in 1 .. Len(w)
      BY <1>3, <1>5, <2>2
    <3>2. QED
      BY <1>3, <1>4, <3>1
  <2>3. QED
    BY <2>1, <2>2
<1>7. Len(v) <= Len(t)
  BY <1>3, <1>5
<1>8. IsPrefix(v, t)
  BY <1>6, <1>7, PrefixArcs
<1>9. QED
  BY <1>1, <1>8

\* The subnodes of a node are the nodes one arc further down.
LEMMA SubnodeFacts ==
  ASSUME mibs \in MibSets, NEW m \in mibs, NEW w \in OID
  PROVE  /\ Subnodes(m, w) \subseteq Nat
         /\ \A b \in Nat : b \in Subnodes(m, w) <=> w \o <<b>> \in m.trees \cup DOMAIN m.leaves
<1> DEFINE nodes == m.trees \cup DOMAIN m.leaves
<1>1. nodes \subseteq OID
  BY MibFacts
<1>2. ASSUME NEW b \in Subnodes(m, w)
      PROVE  b \in Nat /\ w \o <<b>> \in nodes
  <2>1. PICK p \in nodes : p # <<>> /\ Front(p) = w /\ b = Last(p)
    BY DEF Subnodes
  <2>2. QED
    BY <1>1, <2>1, OneArcUp
<1>3. ASSUME NEW b \in Nat, w \o <<b>> \in nodes
      PROVE  b \in Subnodes(m, w)
  <2>1. PICK p : p = w \o <<b>>
    OBVIOUS
  <2>2. p \in nodes /\ p # <<>> /\ Front(p) = w /\ Last(p) = b
    BY <1>3, <2>1, OneArcDown
  <2>3. QED
    BY <2>2 DEF Subnodes
<1>4. QED
  BY <1>2, <1>3

\* An instance below an OID in a MIB is at a leaf node on the way there or below it; in
\* the latter case the OID is that of a tree node and the instance below a subnode of it.
LEMMA InstanceBelow ==
  ASSUME mibs \in MibSets, NEW m \in mibs, NEW h \in InstancesOf(m), NEW w \in OID,
         IsPrefix(m.base \o w, h)
  PROVE  \/ \E q \in DOMAIN m.leaves : IsPrefix(q, w) /\ IsPrefix(m.base \o q, h)
         \/ /\ w \in m.trees /\ Len(m.base \o w) < Len(h)
            /\ h[Len(m.base \o w) + 1] \in Subnodes(m, w)
<1>1. PICK q, c : Parts(m, h, q, c)
  BY InstanceParts
<1>2. /\ q \in DOMAIN m.leaves /\ c \in OID /\ q \in OID /\ m.base \in OID /\ q \o c \in OID
      /\ h = m.base \o (q \o c) /\ IsPrefix(m.base \o q, h) /\ h \in OID
      /\ m.base \o q \in OID
  BY <1>1 DEF Parts
<1>3. Len(q) \in Nat /\ Len(w) \in Nat /\ Len(m.base) \in Nat
  BY <1>2 DEF OID
<1>4. IsPrefix(w, q \o c)
  BY <1>2, ConcatPrefix
<1>5. IsPrefix(q, q \o c)
  BY <1>2, Concat
<1>6. CASE Len(q) <= Len(w)
  <2>1. IsPrefix(q, w)
    BY <1>2, <1>4, <1>5, <1>6, PrefixesNested
  <2>2. QED
    BY <1>2, <2>1
<1>7. CASE Len(w) < Len(q)
  <2>1. IsPrefix(w, q)
    BY <1>2, <1>3, <1>4, <1>5, <1>7, PrefixesNested
  <2>2. w = SubSeq(q, 1, Len(w))
    BY <1>2, <2>1 DEF IsPrefix, OID
  <2>3. w \in m.trees
    <3>1. Len(w) \in 0 .. Len(q) - 1
      BY <1>3, <1>7
    <3>2. QED
      BY <1>2, <2>2, <3>1, MibFacts
  <2>4. Len(w) + 1 \in 1 .. Len(q)
    BY <1>3, <1>7
  <2>5. PICK b \in Nat : b = q[Len(w) + 1]
    BY <1>2, <2>4, ElementOfSeq DEF OID
  <2>6. /\ w \o <<b>> \in OID /\ Len(w \o <<b>>) = Len(w) + 1
        /\ (w \o <<b>>)[Len(w) + 1] = b /\ \A j \in 1 .. Len(w) : (w \o <<b>>)[j] = w[j]
    <3>1. <<b>> \in OID
      BY DEF OID
    <3>2. QED
      BY <3>1, OneArcDown, Concat
  <2>7. PICK v \in OID : v = w \o <<b>>
    BY <2>6
  <2>8. IsPrefix(v, q)
    BY <1>2, <1>7, <2>1, <2>5, <2>7, PrefixOneArc
  <2>9. v \in m.trees \cup DOMAIN m.leaves
    <3>1. CASE v = q
      BY <1>2, <3>1
    <3>2. CASE v # q
      <4>1. Len(v) < Len(q)
        BY <1>2, <2>8, <3>2, PrefixLess
      <4>2. Len(v) \in 0 .. Len(q) - 1
        BY <1>3, <4>1, <2>6, <2>7
      <4>3. v = SubSeq(q, 1, Len(v))
        BY <1>2, <2>8 DEF IsPrefix, OID
      <4>4. QED
        BY <1>2, <4>2, <4>3, MibFacts
    <3>3. QED
      BY <3>1, <3>2
  <2>10. b \in Subnodes(m, w)
    BY <2>7, <2>9, SubnodeFacts
  <2>11. Len(m.base \o w) = Len(m.base) + Len(w) /\ Len(m.base \o q) = Len(m.base) + Len(q)
    BY <1>2, Concat
  <2>12. Len(m.base \o q) <= Len(h) /\ \A j \in 1 .. Len(m.base \o q) : (m.base \o q)[j] = h[j]
    BY <1>2, PrefixArcs
  <2>13. Len(m.base \o w) + 1 \in 1 .. Len(m.base \o q) /\ Len(m.base \o w) < Len(h)
    <3>1. PICK i \in Nat, j \in Nat, k \in Nat, l \in Nat, n \in Nat, t \in Nat :
            /\ i = Len(m.base) /\ j = Len(w) /\ k = Len(q) /\ l = Len(h)
            /\ n = Len(m.base \o w) /\ t = Len(m.base \o q)
      <4>1. Len(h) \in Nat
        <5>1. h \in OID
          BY <1>2
        <5>2. QED
          BY <5>1 DEF OID
      <4>2. Len(m.base \o w) \in Nat /\ Len(m.base \o q) \in Nat
        BY <1>3, <2>11
      <4>3. QED
        BY <1>3, <4>1, <4>2
    <3>2. j < k /\ n = i + j /\ t = i + k /\ t <= l
      BY <1>7, <2>11, <2>12, <3>1
    <3>3. n + 1 \in 1 .. t /\ n < l
      BY <3>2
    <3>4. QED
      BY <3>1, <3>3
  <2>14. (m.base \o q)[Len(m.base) + (Len(w) + 1)] = q[Len(w) + 1]
    <3>1. \A j \in 1 .. Len(q) : (m.base \o q)[Len(m.base) + j] = q[j]
      BY <1>2, Concat
    <3>2. QED
      BY <2>4, <3>1
  <2>15. Len(m.base) + (Len(w) + 1) = Len(m.base \o w) + 1
    <3>1. \A i, j \in Nat : i + (j + 1) = (i + j) + 1
      OBVIOUS
    <3>2. QED
      BY <1>3, <2>11, <3>1
  <2>16. h[Len(m.base \o w) + 1] = b
    BY <2>5, <2>12, <2>13, <2>14, <2>15
  <2>17. QED
    BY <2>3, <2>10, <2>13, <2>16
<1>8. QED
  BY <1>3, <1>6, <1>7

\* An instance is not at a node: its cell is at least one arc.
LEMMA NoInstanceAtNode ==
  ASSUME mibs \in MibSets, NEW m \in mibs, NEW h \in InstancesOf(m),
         NEW p \in m.trees \cup DOMAIN m.leaves
  PROVE  h # m.base \o p
<1>1. SUFFICES ASSUME h = m.base \o p
               PROVE  FALSE
  OBVIOUS
<1>2. PICK q, c : Parts(m, h, q, c)
  BY InstanceParts
<1>3. /\ q \in DOMAIN m.leaves /\ q \in OID /\ c \in OID /\ q \o c \in OID /\ m.base \in OID
      /\ h = m.base \o (q \o c) /\ Len(c) \in Nat \ {0}
  BY <1>2 DEF Parts
<1>4. p \in OID
  BY MibFacts
<1>5. PICK t \in OID : t = q \o c
  BY <1>3
<1>6. SubSeq(h, Len(m.base) + 1, Len(h)) = t
  <2>1. h = m.base \o t /\ m.base \in OID
    BY <1>3, <1>5
  <2>2. SubSeq(m.base \o t, Len(m.base) + 1, Len(m.base \o t)) = t
    BY <2>1, Behind
  <2>3. QED
    BY <2>1, <2>2
<1>7. SubSeq(h, Len(m.base) + 1, Len(h)) = p
  <2>1. m.base \in OID
    BY <1>3
  <2>2. SubSeq(m.base \o p, Len(m.base) + 1, Len(m.base \o p)) = p
    BY <1>4, <2>1, Behind
  <2>3. QED
    BY <1>1, <2>2
<1>8. p = t
  BY <1>6, <1>7
<1>9. IsPrefix(q, t) /\ Len(t) = Len(q) + Len(c)
  BY <1>3, <1>5, Concat
<1>10. q = p
  BY <1>3, <1>8, <1>9, LeavesApart
<1>11. Len(q) \in Nat
  BY <1>3 DEF OID
<1>12. QED
  BY <1>3, <1>8, <1>9, <1>10, <1>11

\* An instance below a leaf node is one of its cells.
LEMMA CellOfLeaf ==
  ASSUME mibs \in MibSets, NEW m \in mibs, NEW h \in InstancesOf(m), NEW p \in DOMAIN m.leaves,
         IsPrefix(m.base \o p, h)
  PROVE  \E c \in m.leaves[p].cells : c \in OID /\ h = (m.base \o p) \o c
<1>1. PICK q, c : Parts(m, h, q, c)
  BY InstanceParts
<1>2. /\ q \in DOMAIN m.leaves /\ q \in OID /\ m.base \in OID /\ m.base \o q \in OID
      /\ c \in OID /\ c \in m.leaves[q].cells /\ h = (m.base \o q) \o c
      /\ IsPrefix(m.base \o q, h) /\ h \in OID
  BY <1>1 DEF Parts
<1>3. p \in OID
  BY MibFacts
<1>4. m.base \o p \in OID
  BY <1>2, <1>3, Concat
<1>5. IsPrefix(m.base \o p, m.base \o q) \/ IsPrefix(m.base \o q, m.base \o p)
  <2>1. Len(m.base \o p) \in Nat /\ Len(m.base \o q) \in Nat
    BY <1>2, <1>4 DEF OID
  <2>2. Len(m.base \o p) <= Len(m.base \o q) \/ Len(m.base \o q) <= Len(m.base \o p)
    BY <2>1
  <2>3. QED
    BY <1>2, <1>4, <2>2, PrefixesNested
<1>6. IsPrefix(p, q) \/ IsPrefix(q, p)
  BY <1>2, <1>3, <1>5, ConcatPrefix
<1>7. p = q
  BY <1>2, <1>6, LeavesApart
<1>8. QED
  BY <1>2, <1>7

\* An instance below a tree node is below one of its subnodes.
LEMMA InstanceBelowTree ==
  ASSUME mibs \in MibSets, NEW m \in mibs, NEW h \in InstancesOf(m), NEW w \in m.trees,
         IsPrefix(m.base \o w, h)
  PROVE  /\ m.base \o w \in OID /\ h \in OID /\ w \in OID
         /\ Len(m.base \o w) < Len(h) /\ h[Len(m.base \o w) + 1] \in Subnodes(m, w)
<1>1. w \in OID /\ m.base \in OID /\ h \in OID
  BY MibFacts, BaseFacts, InstanceParts DEF Parts
<1>2. m.base \o w \in OID
  BY <1>1, Concat
<1>3. ASSUME NEW q \in DOMAIN m.leaves, IsPrefix(q, w)
      PROVE  FALSE
  <2>1. q = w
    BY <1>3, LeavesApart
  <2>2. QED
    BY <2>1, MibFacts
<1>4. QED
  BY <1>1, <1>2, <1>3, InstanceBelow

\* A subnode of a node of a MIB, seen from the root of all OIDs.
LEMMA SubnodeOid ==
  ASSUME mibs \in MibSets, NEW m \in mibs, NEW w \in OID, NEW a \in Nat
  PROVE  /\ m.base \o w \in OID /\ m.base \o (w \o <<a>>) \in OID
         /\ m.base \o (w \o <<a>>) = (m.base \o w) \o <<a>>
         /\ IsPrefix(m.base \o w, m.base \o (w \o <<a>>))
         /\ OidLess(m.base \o w, m.base \o (w \o <<a>>))
<1>1. m.base \in OID /\ <<a>> \in OID
  BY BaseFacts DEF OID
<1>2. PICK u \in OID : u = m.base \o w
  BY <1>1, Concat
<1>3. m.base \o (w \o <<a>>) = (m.base \o w) \o <<a>>
  BY <1>1, BelowBelow, Zenon
<1>4. PICK y \in OID : y = u \o <<a>>
  BY <1>2, OneArcDown
<1>5. IsPrefix(u, y) /\ Len(y) = Len(u) + 1
  BY <1>2, <1>4, OneArcDown
<1>6. u # y
  <2>1. Len(u) \in Nat
    BY DEF OID
  <2>2. QED
    BY <1>5, <2>1
<1>7. OidLess(u, y)
  BY <1>2, <1>5, <1>6, PrefixLess
<1>8. m.base \o (w \o <<a>>) = y
  BY <1>2, <1>3, <1>4
<1>9. QED
  BY <1>2, <1>3, <1>4, <1>5, <1>7, <1>8

-----------------------------------------------------------------------------
(* The steps of a search, for any MIB m, any starting point s and any set  *)
(* "here" of instances of the MIB that are looked for.                     *)

\* The search is at the node w and goes on with its subnodes from a: that is behind the
\* starting point, and no instance was overtaken.
LevelOk(here, m, s, w, a) ==
  /\ w \in m.trees /\ a \in Nat
  /\ OidLess(s, m.base \o (w \o <<a>>))
  /\ \A o \in here : ~OidLess(o, m.base \o (w \o <<a>>))

\* The search is at the leaf node n and goes on with its instances behind r.
InstanceOk(here, m, s, n, r) ==
  \E p \in DOMAIN m.leaves :
    /\ n = m.base \o p /\ Regular(m.leaves[p], r)
    /\ s = n \o r \/ OidLess(s, n \o r)
    /\ \A o \in here : OidLess(n \o r, o)

\* How far the path rel leads down the tree nodes.
LongestPath(m, rel) ==
  LET paths == {p \in m.trees : IsPrefix(p, rel)}
  IN  CHOOSE p \in paths : \A q \in paths : Len(q) <= Len(p)

\* There is such a node when the root is a tree node.
LEMMA LongestPathFacts ==
  ASSUME mibs \in MibSets, NEW m \in mibs, NEW rel \in OID, <<>> \in m.trees
  PROVE  /\ LongestPath(m, rel) \in m.trees /\ LongestPath(m, rel) \in OID
         /\ IsPrefix(LongestPath(m, rel), rel)
         /\ \A q \in m.trees : IsPrefix(q, rel) => Len(q) <= Len(LongestPath(m, rel))
<1> DEFINE paths == {p \in m.trees : IsPrefix(p, rel)}
           D == {d \in Nat : \E p \in paths : d = Len(rel) - Len(p)}
<1>1. ASSUME NEW p \in paths
      PROVE  /\ p \in OID /\ Len(p) \in Nat /\ Len(rel) \in Nat
             /\ Len(rel) - Len(p) \in D
  <2>1. p \in OID
    BY MibFacts
  <2>2. Len(p) \in Nat /\ Len(rel) \in Nat
    BY <2>1 DEF OID
  <2>3. Len(p) <= Len(rel)
    BY <2>1, PrefixArcs
  <2>4. QED
    BY <2>1, <2>2, <2>3
<1>2. <<>> \in paths
  <2>1. <<>> \in OID /\ Len(<<>>) = 0
    BY DEF OID
  <2>2. Len(rel) \in Nat
    BY DEF OID
  <2>3. IsPrefix(<<>>, rel)
    BY <2>1, <2>2, PrefixArcs
  <2>4. QED
    BY <2>3
<1>3. D \in SUBSET Nat /\ D # {}
  BY <1>1, <1>2
<1>4. PICK d \in D : \A x \in D : d <= x
  BY <1>3, MinOfNats
<1>5. PICK p \in paths : d = Len(rel) - Len(p)
  BY <1>4
<1>6. ASSUME NEW q \in paths
      PROVE  Len(q) <= Len(p)
  <2>1. Len(rel) - Len(p) <= Len(rel) - Len(q)
    BY <1>1, <1>4, <1>5
  <2>2. QED
    BY <1>1, <2>1
<1>7. LongestPath(m, rel) \in paths /\ \A q \in paths : Len(q) <= Len(LongestPath(m, rel))
  BY <1>5, <1>6 DEF LongestPath
<1>8. QED
  BY <1>1, <1>7

\* Below the largest arc, NextArc() goes to the next one.
LEMMA NextArcFacts ==
  ASSUME NEW a \in 0 .. MaxArc - 1
  PROVE  NextArc(a) = a + 1 /\ a \in Nat /\ a + 1 \in Nat
<1>1. MaxArc \in Nat
  BY ConstantsAssumption DEF ConstantsAssumption
<1>2. a \in 0 .. MaxArc /\ a + 1 \in 0 .. MaxArc
  BY <1>1
<1>3. \A i \in Nat : i \in 0 .. MaxArc => i % (MaxArc + 1) = i
  BY <1>1
<1>4. QED
  BY <1>1, <1>2, <1>3 DEF NextArc

\* An instance that is not before the level of the search, but below its node, is below a
\* subnode that is still ahead.
LEMMA AheadOfLevel ==
  ASSUME mibs \in MibSets, NEW m \in mibs, NEW h \in InstancesOf(m), NEW w \in m.trees,
         NEW a \in Nat, ~OidLess(h, m.base \o (w \o <<a>>)), IsPrefix(m.base \o w, h)
  PROVE  /\ h[Len(m.base \o w) + 1] \in Subnodes(m, w) /\ h[Len(m.base \o w) + 1] \in Nat
         /\ h[Len(m.base \o w) + 1] >= a
<1>1. PICK u \in OID : u = m.base \o w
  BY InstanceBelowTree
<1>2. h \in OID /\ IsPrefix(u, h) /\ Len(u) < Len(h) /\ h[Len(u) + 1] \in Subnodes(m, w) /\ w \in OID
  BY <1>1, InstanceBelowTree
<1>3. m.base \o (w \o <<a>>) = u \o <<a>>
  <2>1. m.base \o (w \o <<a>>) = (m.base \o w) \o <<a>>
    BY <1>2, SubnodeOid
  <2>2. QED
    BY <1>1, <2>1
<1>4. ~OidLess(h, u \o <<a>>)
  BY <1>3
<1>5. ~(h[Len(u) + 1] < a)
  BY <1>2, <1>4, LessThanNode
<1>6. h[Len(u) + 1] \in Nat
  BY <1>2, SubnodeFacts
<1>7. QED
  BY <1>1, <1>2, <1>5, <1>6

\* An OID between two that are below a node is below that node.
LEMMA BetweenBelow ==
  ASSUME NEW u \in OID, NEW y \in OID, NEW z \in OID, NEW h \in OID,
         IsPrefix(u, y), IsPrefix(u, z), ~OidLess(h, y), OidLess(h, z)
  PROVE  IsPrefix(u, h)
<1>1. CASE h = y
  BY <1>1
<1>2. CASE h # y
  <2>1. OidLess(y, h)
    BY <1>2, LessTotal
  <2>2. QED
    BY <2>1, SubtreeConvex
<1>3. QED
  BY <1>1, <1>2

\* What is at or below a subnode is before the next one.
LEMMA NextSubnode ==
  ASSUME mibs \in MibSets, NEW m \in mibs, NEW w \in OID, NEW a \in Nat, NEW x \in OID,
         IsPrefix(m.base \o (w \o <<a>>), x)
  PROVE  m.base \o (w \o <<a + 1>>) \in OID /\ OidLess(x, m.base \o (w \o <<a + 1>>))
<1>1. PICK u \in OID : u = m.base \o w
  BY SubnodeOid
<1>2. PICK z \in OID : z = m.base \o (w \o <<a>>) /\ z = u \o <<a>>
  BY <1>1, SubnodeOid
<1>3. a + 1 \in Nat
  OBVIOUS
<1>4. PICK y \in OID : y = m.base \o (w \o <<a + 1>>) /\ y = u \o <<a + 1>>
  <2>1. /\ m.base \o (w \o <<a + 1>>) \in OID
        /\ m.base \o (w \o <<a + 1>>) = (m.base \o w) \o <<a + 1>>
    BY <1>3, SubnodeOid
  <2>2. QED
    BY <1>1, <2>1
<1>5. IsPrefix(u, z) /\ Len(z) = Len(u) + 1 /\ z[Len(u) + 1] = a
  <2>1. z = u \o <<a>>
    BY <1>2
  <2>2. /\ IsPrefix(u, u \o <<a>>) /\ Len(u \o <<a>>) = Len(u) + 1
        /\ (u \o <<a>>)[Len(u) + 1] = a
    BY OneArcDown
  <2>3. QED
    BY <2>1, <2>2
<1>6. IsPrefix(z, x)
  BY <1>2
<1>7. IsPrefix(u, x)
  BY <1>5, <1>6, PrefixTransitive
<1>8. Len(u) \in Nat /\ Len(x) \in Nat
  BY DEF OID
<1>9. Len(z) <= Len(x) /\ \A j \in 1 .. Len(z) : z[j] = x[j]
  BY <1>6, PrefixArcs
<1>10. Len(u) < Len(x) /\ x[Len(u) + 1] = a
  BY <1>5, <1>8, <1>9
<1>11. a < a + 1
  OBVIOUS
<1>12. OidLess(x, u \o <<a + 1>>)
  BY <1>3, <1>7, <1>10, <1>11, LessThanNode
<1>13. QED
  BY <1>4, <1>12

\* What is not before a subnode, but before the next one, is at or below it.
LEMMA InSubnode ==
  ASSUME mibs \in MibSets, NEW m \in mibs, NEW h \in InstancesOf(m), NEW w \in m.trees,
         NEW a \in Nat, ~OidLess(h, m.base \o (w \o <<a>>)),
         OidLess(h, m.base \o (w \o <<a + 1>>))
  PROVE  w \o <<a>> \in m.trees \cup DOMAIN m.leaves /\ IsPrefix(m.base \o (w \o <<a>>), h)
<1>1. w \in OID /\ h \in OID /\ a + 1 \in Nat
  <2>1. w \in OID
    BY MibFacts
  <2>2. h \in OID
    BY InstanceParts DEF Parts
  <2>3. QED
    BY <2>1, <2>2
<1>2. PICK u \in OID : u = m.base \o w
  BY <1>1, SubnodeOid
<1>3. PICK z \in OID : z = m.base \o (w \o <<a>>) /\ z = u \o <<a>> /\ IsPrefix(u, z)
  BY <1>1, <1>2, SubnodeOid
<1>4. PICK y \in OID : y = m.base \o (w \o <<a + 1>>) /\ y = u \o <<a + 1>> /\ IsPrefix(u, y)
  <2>1. /\ m.base \o (w \o <<a + 1>>) \in OID
        /\ m.base \o (w \o <<a + 1>>) = (m.base \o w) \o <<a + 1>>
        /\ IsPrefix(m.base \o w, m.base \o (w \o <<a + 1>>))
    BY <1>1, SubnodeOid
  <2>2. QED
    BY <1>2, <2>1
<1>5. ~OidLess(h, z) /\ OidLess(h, y)
  BY <1>3, <1>4
<1>6. IsPrefix(u, h)
  BY <1>1, <1>3, <1>4, <1>5, BetweenBelow
<1>7. IsPrefix(m.base \o w, h)
  BY <1>2, <1>6
<1>8. PICK b \in Nat : b = h[Len(u) + 1] /\ b \in Subnodes(m, w) /\ b >= a
  BY <1>2, <1>7, AheadOfLevel
<1>9. Len(u) < Len(h)
  BY <1>2, <1>7, InstanceBelowTree
<1>10. OidLess(h, u \o <<a + 1>>) <=> h[Len(u) + 1] < a + 1
  BY <1>1, <1>6, <1>9, LessThanNode
<1>11. b < a + 1
  BY <1>4, <1>5, <1>8, <1>10
<1>12. b = a
  BY <1>8, <1>11
<1>13. w \o <<b>> \in m.trees \cup DOMAIN m.leaves
  BY <1>1, <1>8, SubnodeFacts
<1>14. IsPrefix(u \o <<b>>, h)
  BY <1>1, <1>6, <1>8, <1>9, PrefixOneArc
<1>15. QED
  BY <1>3, <1>12, <1>13, <1>14

\* The search goes on with the subnodes of a tree node it has not searched below.
LEMMA ResolvedToNode ==
  ASSUME mibs \in MibSets, NEW m \in mibs, NEW here \in SUBSET OID, NEW w \in m.trees,
         NEW s \in OID, s = m.base \o w \/ OidLess(s, m.base \o w),
         \A h \in here : OidLess(m.base \o w, h)
  PROVE  LevelOk(here, m, s, w, 0)
<1>1. w \in OID /\ 0 \in Nat
  BY MibFacts
<1>2. PICK u \in OID : u = m.base \o w
  BY <1>1, SubnodeOid
<1>3. PICK y \in OID : y = m.base \o (w \o <<0>>) /\ y = u \o <<0>> /\ OidLess(u, y)
  <2>1. /\ m.base \o (w \o <<0>>) \in OID
        /\ m.base \o (w \o <<0>>) = (m.base \o w) \o <<0>>
        /\ OidLess(m.base \o w, m.base \o (w \o <<0>>))
    BY <1>1, SubnodeOid
  <2>2. QED
    BY <1>2, <2>1
<1>4. OidLess(s, y)
  BY <1>2, <1>3, LessTransitive
<1>5. ASSUME NEW h \in here
      PROVE  ~OidLess(h, y)
  <2>1. h \in OID /\ OidLess(u, h)
    BY <1>2
  <2>2. ~OidLess(h, u \o <<0>>)
    BY <2>1, BehindFirstSubnode
  <2>3. QED
    BY <1>3, <2>2
<1>6. QED
  BY <1>1, <1>3, <1>4, <1>5 DEF LevelOk

\* The search goes on with the next subnode when it has searched up to x, at or below one,
\* and that subnode is no node or has nothing left.
LEMMA ResolvedPastSubnode ==
  ASSUME mibs \in MibSets, NEW m \in mibs, NEW here \in SUBSET InstancesOf(m), NEW w \in m.trees,
         NEW a \in Nat, NEW s \in OID, NEW x \in OID, s = x \/ OidLess(s, x),
         IsPrefix(m.base \o (w \o <<a>>), x), \A h \in here : OidLess(x, h),
         w \o <<a>> \in m.trees \cup DOMAIN m.leaves =>
           \A h \in here : ~IsPrefix(m.base \o (w \o <<a>>), h)
  PROVE  LevelOk(here, m, s, w, a + 1)
<1>1. w \in OID /\ a + 1 \in Nat
  BY MibFacts
<1>2. PICK z \in OID : z = m.base \o (w \o <<a>>)
  BY <1>1, SubnodeOid
<1>3. PICK y \in OID : y = m.base \o (w \o <<a + 1>>) /\ OidLess(x, y)
  BY <1>1, NextSubnode
<1>4. OidLess(s, y)
  BY <1>3, LessTransitive
<1>5. ASSUME NEW h \in here, OidLess(h, y)
      PROVE  FALSE
  <2>1. h \in OID /\ h \in InstancesOf(m) /\ OidLess(x, h)
    BY InstanceParts DEF Parts
  <2>2. IsPrefix(z, x)
    BY <1>2
  <2>3. ~OidLess(h, z)
    <3>1. CASE z = x
      BY <2>1, <3>1, LessAsymmetric
    <3>2. CASE z # x
      <4>1. OidLess(z, x)
        BY <2>2, <3>2, PrefixLess
      <4>2. OidLess(z, h)
        BY <2>1, <4>1, LessTransitive
      <4>3. QED
        BY <2>1, <4>2, LessAsymmetric
    <3>3. QED
      BY <3>1, <3>2
  <2>4. ~OidLess(h, m.base \o (w \o <<a>>)) /\ OidLess(h, m.base \o (w \o <<a + 1>>))
    BY <1>2, <1>3, <1>5, <2>3
  <2>5. w \o <<a>> \in m.trees \cup DOMAIN m.leaves /\ IsPrefix(m.base \o (w \o <<a>>), h)
    BY <2>1, <2>4, InSubnode
  <2>6. QED
    BY <2>5
<1>6. QED
  BY <1>1, <1>3, <1>4, <1>5 DEF LevelOk

\* Down the tree nodes of an OID o (the first part of snmp_mib_tree_resolve_next()), which is
\* that of the tree node x or was searched up to x and leads to no tree node: the search goes
\* on at a level that overtakes no instance, or nowhere when none is left.
LEMMA ResolveNextFacts ==
  ASSUME mibs \in MibSets, NEW m \in mibs, NEW here \in SUBSET InstancesOf(m),
         NEW s \in OID, NEW x \in OID, NEW rel \in Seq(0 .. MaxArc - 1), rel \in OID,
         IsPrefix(m.base \o rel, x), s = x \/ OidLess(s, x),
         m.base \o rel = x \/ rel \notin m.trees,
         \A h \in here : OidLess(x, h),
         \A q \in DOMAIN m.leaves : IsPrefix(q, rel) =>
            \A h \in here : ~IsPrefix(m.base \o q, h)
  PROVE  IF <<>> \notin m.trees THEN here = {}
         ELSE LevelOk(here, m, s, LongestPath(m, rel),
                      IF LongestPath(m, rel) = rel THEN 0
                      ELSE NextArc(rel[Len(LongestPath(m, rel)) + 1]))
<1>1. \A h \in here : h \in OID /\ h \in InstancesOf(m)
  BY InstanceParts DEF Parts
<1>2. CASE <<>> \notin m.trees
  <2>1. ASSUME NEW h \in here
        PROVE  FALSE
    <3>1. m.base \in OID /\ <<>> \in OID /\ IsPrefix(m.base, h)
      BY <1>1, InstanceParts, BaseFacts, LessEmpty DEF Parts
    <3>2. m.base \o <<>> = m.base
      BY <3>1 DEF OID
    <3>3. IsPrefix(m.base \o <<>>, h)
      BY <3>1, <3>2
    <3>4. PICK q \in DOMAIN m.leaves : IsPrefix(q, <<>>) /\ IsPrefix(m.base \o q, h)
      BY <1>1, <1>2, <3>1, <3>3, InstanceBelow
    <3>5. q \in OID /\ IsPrefix(<<>>, rel)
      <4>1. Len(<<>>) = 0 /\ Len(rel) \in Nat
        BY DEF OID
      <4>2. IsPrefix(<<>>, rel)
        BY <3>1, <4>1, PrefixArcs
      <4>3. QED
        BY <4>2, MibFacts
    <3>6. IsPrefix(q, rel)
      BY <3>1, <3>4, <3>5, PrefixTransitive
    <3>7. QED
      BY <3>4, <3>6
  <2>2. QED
    BY <1>2, <2>1
<1>3. CASE <<>> \in m.trees
  <2>1. PICK w \in m.trees :
          /\ w = LongestPath(m, rel) /\ w \in OID /\ IsPrefix(w, rel)
          /\ \A q \in m.trees : IsPrefix(q, rel) => Len(q) <= Len(w)
    BY <1>3, LongestPathFacts
  <2>2. CASE w = rel
    <3>1. m.base \o w = x
      BY <2>2
    <3>2. LevelOk(here, m, s, w, 0)
      BY <1>1, <3>1, ResolvedToNode
    <3>3. QED
      BY <1>3, <2>1, <2>2, <3>2
  <2>3. CASE w # rel
    <3>1. Len(w) < Len(rel) /\ Len(rel) \in Nat /\ Len(w) \in Nat
      <4>1. Len(w) < Len(rel)
        BY <2>1, <2>3, PrefixLess
      <4>2. QED
        BY <2>1, <4>1 DEF OID
    <3>2. Len(w) + 1 \in 1 .. Len(rel)
      BY <3>1
    <3>3. PICK a \in 0 .. MaxArc - 1 : a = rel[Len(w) + 1]
      BY <3>2, ElementOfSeq
    <3>4. a \in Nat /\ NextArc(a) = a + 1
      BY NextArcFacts
    <3>5. PICK v \in OID : v = w \o <<a>> /\ Len(v) = Len(w) + 1
      <4>1. w \o <<a>> \in OID /\ Len(w \o <<a>>) = Len(w) + 1
        BY <2>1, <3>4, OneArcDown
      <4>2. QED
        BY <4>1
    <3>6. IsPrefix(v, rel)
      <4>1. IsPrefix(w \o <<a>>, rel)
        BY <2>1, <3>1, <3>3, <3>4, PrefixOneArc
      <4>2. QED
        BY <3>5, <4>1
    <3>7. IsPrefix(m.base \o v, x)
      <4>1. m.base \in OID
        BY BaseFacts
      <4>2. m.base \o v \in OID /\ m.base \o rel \in OID
        BY <4>1, Concat
      <4>3. IsPrefix(m.base \o v, m.base \o rel)
        BY <3>6, <4>1, ConcatPrefix
      <4>4. QED
        BY <4>2, <4>3, PrefixTransitive
    <3>8. v \notin m.trees
      <4>1. ~(Len(v) <= Len(w))
        BY <3>1, <3>5
      <4>2. QED
        BY <2>1, <3>6, <4>1
    <3>9. v \in DOMAIN m.leaves => \A h \in here : ~IsPrefix(m.base \o v, h)
      BY <3>6
    <3>10. LevelOk(here, m, s, w, a + 1)
      <4>1. IsPrefix(m.base \o (w \o <<a>>), x)
        BY <3>5, <3>7
      <4>2. w \o <<a>> \in m.trees \cup DOMAIN m.leaves =>
              \A h \in here : ~IsPrefix(m.base \o (w \o <<a>>), h)
        BY <3>5, <3>8, <3>9
      <4>3. QED
        BY <3>4, <4>1, <4>2, ResolvedPastSubnode
    <3>11. QED
      BY <1>3, <2>1, <2>3, <3>3, <3>4, <3>10
  <2>4. QED
    BY <2>2, <2>3
<1>4. QED
  BY <1>2, <1>3

\* Down to the least subnode that is ahead: no instance is below the ones passed over.
LEMMA LevelDownFacts ==
  ASSUME mibs \in MibSets, NEW m \in mibs, NEW here \in SUBSET InstancesOf(m), NEW s \in OID,
         NEW w, NEW a, LevelOk(here, m, s, w, a),
         NEW b \in Subnodes(m, w), b >= a, \A c \in Subnodes(m, w) : c >= a => b <= c
  PROVE  /\ w \o <<b>> \in m.trees => LevelOk(here, m, s, w \o <<b>>, 0)
         /\ w \o <<b>> \notin m.trees => InstanceOk(here, m, s, m.base \o (w \o <<b>>), <<>>)
<1>1. /\ w \in m.trees /\ w \in OID /\ a \in Nat
      /\ OidLess(s, m.base \o (w \o <<a>>))
      /\ \A h \in here : ~OidLess(h, m.base \o (w \o <<a>>))
  BY MibFacts DEF LevelOk
<1>2. b \in Nat /\ w \o <<b>> \in m.trees \cup DOMAIN m.leaves
  BY <1>1, SubnodeFacts
<1>3. PICK v \in OID : v = w \o <<b>>
  BY <1>1, <1>2, OneArcDown
<1>4. PICK u \in OID : u = m.base \o w
  BY <1>1, SubnodeOid
<1>5. PICK y \in OID : y = m.base \o (w \o <<a>>) /\ y = u \o <<a>> /\ IsPrefix(u, y)
  BY <1>1, <1>4, SubnodeOid
<1>6. PICK z \in OID : z = m.base \o v /\ z = u \o <<b>> /\ IsPrefix(u, z)
  <2>1. /\ m.base \o (w \o <<b>>) \in OID
        /\ m.base \o (w \o <<b>>) = (m.base \o w) \o <<b>>
        /\ IsPrefix(m.base \o w, m.base \o (w \o <<b>>))
    BY <1>1, <1>2, SubnodeOid
  <2>2. QED
    BY <1>3, <1>4, <2>1
<1>7. ~OidLess(z, y)
  <2>1. Len(z) = Len(u) + 1 /\ z[Len(u) + 1] = b /\ Len(u) \in Nat
    BY <1>2, <1>6, OneArcDown DEF OID
  <2>2. Len(u) < Len(z)
    BY <2>1
  <2>3. OidLess(z, u \o <<a>>) <=> z[Len(u) + 1] < a
    <3>1. IsPrefix(u, z) /\ a \in Nat
      BY <1>1, <1>6
    <3>2. QED
      BY <2>2, <3>1, LessThanNode
  <2>4. ~(b < a)
    BY <1>1, <1>2
  <2>5. ~OidLess(z, u \o <<a>>)
    BY <2>1, <2>3, <2>4
  <2>6. QED
    BY <1>5, <2>5
<1>8. OidLess(s, z)
  <2>1. OidLess(s, y)
    BY <1>1, <1>5
  <2>2. CASE y = z
    BY <2>1, <2>2
  <2>3. CASE y # z
    <3>1. OidLess(y, z)
      BY <1>7, <2>3, LessTotal
    <3>2. QED
      BY <2>1, <3>1, LessTransitive
  <2>4. QED
    BY <2>2, <2>3
<1>9. ASSUME NEW h \in here
      PROVE  OidLess(z, h)
  <2>1. h \in OID /\ h \in InstancesOf(m) /\ ~OidLess(h, y)
    BY <1>1, <1>5, InstanceParts DEF Parts
  <2>2. h # z
    BY <1>2, <1>3, <1>6, <2>1, NoInstanceAtNode
  <2>3. ASSUME OidLess(h, z)
        PROVE  FALSE
    <3>1. IsPrefix(u, h)
      BY <1>5, <1>6, <2>1, <2>3, BetweenBelow
    <3>2. IsPrefix(m.base \o w, h) /\ ~OidLess(h, m.base \o (w \o <<a>>))
      BY <1>4, <1>5, <2>1, <3>1
    <3>3. PICK c \in Nat : c = h[Len(u) + 1] /\ c \in Subnodes(m, w) /\ c >= a
      BY <1>1, <1>4, <2>1, <3>2, AheadOfLevel
    <3>4. Len(u) < Len(h)
      BY <1>1, <1>4, <2>1, <3>2, InstanceBelowTree
    <3>5. OidLess(h, u \o <<b>>) <=> h[Len(u) + 1] < b
      BY <1>2, <2>1, <3>1, <3>4, LessThanNode
    <3>6. c < b
      BY <1>6, <2>3, <3>3, <3>5
    <3>7. QED
      BY <1>2, <3>3, <3>6
  <2>4. QED
    BY <2>1, <2>2, <2>3, LessTotal
<1>10. ASSUME v \in m.trees
       PROVE  LevelOk(here, m, s, v, 0)
  <2>1. here \in SUBSET OID
    BY InstanceParts DEF Parts
  <2>2. OidLess(s, m.base \o v) /\ \A h \in here : OidLess(m.base \o v, h)
    BY <1>6, <1>8, <1>9
  <2>3. QED
    BY <1>10, <2>1, <2>2, ResolvedToNode
<1>11. ASSUME v \notin m.trees
       PROVE  InstanceOk(here, m, s, m.base \o v, <<>>)
  <2>1. v \in DOMAIN m.leaves
    BY <1>2, <1>3, <1>11
  <2>2. z \o <<>> = z
    BY DEF OID
  <2>3. Regular(m.leaves[v], <<>>)
    BY LessEmpty DEF Regular
  <2>4. m.base \o v = z
    BY <1>6
  <2>5. QED
    BY <1>8, <1>9, <2>1, <2>2, <2>3, <2>4 DEF InstanceOk
<1>12. QED
  BY <1>3, <1>10, <1>11

\* Up when no subnode is ahead: below the node nothing is left.
LEMMA LevelUpFacts ==
  ASSUME mibs \in MibSets, NEW m \in mibs, NEW here \in SUBSET InstancesOf(m), NEW s \in OID,
         NEW w, NEW a, LevelOk(here, m, s, w, a), \A c \in Subnodes(m, w) : ~(c >= a),
         w \in Seq(0 .. MaxArc - 1)
  PROVE  IF w = <<>> THEN here = {} ELSE LevelOk(here, m, s, Front(w), NextArc(Last(w)))
<1>1. /\ w \in m.trees /\ w \in OID /\ a \in Nat
      /\ OidLess(s, m.base \o (w \o <<a>>))
      /\ \A h \in here : ~OidLess(h, m.base \o (w \o <<a>>))
  BY MibFacts DEF LevelOk
<1>2. ASSUME NEW h \in here
      PROVE  ~IsPrefix(m.base \o w, h)
  <2>1. h \in InstancesOf(m) /\ ~OidLess(h, m.base \o (w \o <<a>>))
    BY <1>1
  <2>2. SUFFICES ASSUME IsPrefix(m.base \o w, h)
                 PROVE  FALSE
    OBVIOUS
  <2>3. h[Len(m.base \o w) + 1] \in Subnodes(m, w) /\ h[Len(m.base \o w) + 1] >= a
    BY <1>1, <2>1, <2>2, AheadOfLevel
  <2>4. QED
    BY <2>3
<1>3. CASE w = <<>>
  <2>1. ASSUME NEW h \in here
        PROVE  FALSE
    <3>1. m.base \in OID /\ IsPrefix(m.base, h)
      BY InstanceParts, BaseFacts DEF Parts
    <3>2. m.base \o <<>> = m.base
      BY <3>1 DEF OID
    <3>3. QED
      BY <1>2, <1>3, <3>1, <3>2
  <2>2. QED
    BY <1>3, <2>1
<1>4. CASE w # <<>>
  <2>1. PICK f \in OID, l \in Nat : f = Front(w) /\ l = Last(w) /\ w = f \o <<l>>
    BY <1>1, <1>4, OneArcUp
  <2>2. f \in m.trees
    <3>1. Len(w) \in Nat \ {0} /\ f = SubSeq(w, 1, Len(w) - 1)
      BY <1>1, <1>4, <2>1, OneArcUp
    <3>2. Len(w) - 1 \in 0 .. Len(w) - 1
      BY <3>1
    <3>3. QED
      BY <1>1, <3>1, <3>2, MibFacts
  <2>3. NextArc(l) = l + 1
    <3>1. Len(w) \in 1 .. Len(w)
      BY <1>1, <1>4, OneArcUp
    <3>2. l \in 0 .. MaxArc - 1
      BY <2>1, <3>1, ElementOfSeq DEF Last
    <3>3. QED
      BY <3>2, NextArcFacts
  <2>4. PICK y \in OID : /\ y = m.base \o (w \o <<a>>) /\ OidLess(s, y)
                         /\ IsPrefix(m.base \o w, y) /\ \A h \in here : ~OidLess(h, y)
    BY <1>1, SubnodeOid
  <2>5. IsPrefix(m.base \o (f \o <<l>>), y) /\ \A h \in here : ~IsPrefix(m.base \o (f \o <<l>>), h)
    BY <1>2, <2>1, <2>4
  <2>6. PICK z \in OID : z = m.base \o (f \o <<l>>)
    BY <2>1, SubnodeOid
  <2>7. PICK x \in OID : x = m.base \o (f \o <<l + 1>>) /\ OidLess(y, x)
    BY <2>1, <2>5, NextSubnode
  <2>8. OidLess(s, x)
    BY <2>4, <2>7, LessTransitive
  <2>9. ASSUME NEW h \in here, OidLess(h, x)
        PROVE  FALSE
    <3>1. h \in OID /\ h \in InstancesOf(m) /\ ~OidLess(h, y)
      BY <2>4, InstanceParts DEF Parts
    <3>2. ~OidLess(h, z)
      <4>1. z = y \/ OidLess(z, y)
        BY <2>5, <2>6, PrefixLess
      <4>2. QED
        BY <3>1, <4>1, LessTransitive
    <3>3. ~OidLess(h, m.base \o (f \o <<l>>)) /\ OidLess(h, m.base \o (f \o <<l + 1>>))
      BY <2>6, <2>7, <2>9, <3>2
    <3>4. IsPrefix(m.base \o (f \o <<l>>), h)
      BY <2>1, <2>2, <3>1, <3>3, InSubnode
    <3>5. QED
      BY <2>5, <3>4
  <2>10. l + 1 \in Nat
    OBVIOUS
  <2>11. LevelOk(here, m, s, f, l + 1)
    BY <2>2, <2>7, <2>8, <2>9, <2>10 DEF LevelOk
  <2>12. QED
    BY <1>4, <2>1, <2>3, <2>11
<1>5. QED
  BY <1>3, <1>4

\* The next instance of a leaf node n, at path p, behind r.
NextOfNode(here, m, s, p, n, inst) ==
  IF inst = NoInstance THEN \A o \in here : ~IsPrefix(n, o)
  ELSE /\ Regular(m.leaves[p], inst) /\ n \o inst \in InstancesOf(m)
       /\ n \o inst \in OID /\ IsPrefix(n, n \o inst)
       /\ OidLess(s, n \o inst) /\ \A o \in here : ~OidLess(o, n \o inst)

\* On with the instances of a leaf node: the next one overtakes none, and when there is no
\* next one, none is left below the node.
LEMMA NextInstanceHere ==
  ASSUME mibs \in MibSets, NEW m \in mibs, NEW here \in SUBSET InstancesOf(m), NEW s \in OID,
         NEW p \in DOMAIN m.leaves, NEW n \in OID, n = m.base \o p, NEW r,
         Regular(m.leaves[p], r), s = n \o r \/ OidLess(s, n \o r),
         \A o \in here : OidLess(n \o r, o), m.leaves[p].cols \subseteq 0 .. MaxArc - 1
  PROVE  NextOfNode(here, m, s, p, n, NextInstance(m.leaves[p], r))
<1> PICK inst : inst = NextInstance(m.leaves[p], r)
  OBVIOUS
<1> SUFFICES NextOfNode(here, m, s, p, n, inst)
  OBVIOUS
<1>1. r \in OID /\ WellFormedLeaf(m.leaves[p]) /\ p \in OID /\ m.base \in OID
  BY MibFacts, BaseFacts DEF Regular
<1>2. IsNextCell(m.leaves[p], r, inst)
  BY <1>1, NextInstanceFacts
<1>3. PICK x \in OID : x = n \o r /\ IsPrefix(n, x)
  BY <1>1, Concat
<1>4. ASSUME NEW o \in here, IsPrefix(n, o)
      PROVE  \E c \in m.leaves[p].cells : c \in OID /\ o = n \o c /\ OidLess(r, c)
  <2>1. o \in InstancesOf(m) /\ IsPrefix(m.base \o p, o)
    BY <1>4
  <2>2. PICK c \in m.leaves[p].cells : c \in OID /\ o = (m.base \o p) \o c
    BY <2>1, CellOfLeaf
  <2>3. OidLess(n \o r, n \o c)
    BY <2>2
  <2>4. OidLess(r, c)
    BY <1>1, <2>2, <2>3, ConcatLess
  <2>5. QED
    BY <2>2, <2>4
<1>5. CASE inst = NoInstance
  BY <1>2, <1>4, <1>5 DEF IsNextCell, NextOfNode
<1>6. CASE inst # NoInstance
  <2>1. /\ inst \in m.leaves[p].cells /\ OidLess(r, inst) /\ Regular(m.leaves[p], inst)
        /\ \A c \in m.leaves[p].cells : OidLess(r, c) => ~OidLess(c, inst)
    BY <1>2, <1>6 DEF IsNextCell
  <2>2. inst \in OID
    BY <1>1, <2>1, CellFacts
  <2>3. PICK z \in OID : z = n \o inst /\ IsPrefix(n, z)
    BY <2>2, Concat
  <2>4. z \in InstancesOf(m)
    <3>1. m.base \o (p \o inst) \in InstancesOf(m) /\ (m.base \o p) \o inst = m.base \o (p \o inst)
      BY <2>1, CellIsInstance
    <3>2. QED
      BY <2>3, <3>1
  <2>5. OidLess(x, z)
    <3>1. OidLess(n \o r, n \o inst)
      BY <1>1, <2>1, <2>2, ConcatLess
    <3>2. QED
      BY <1>3, <2>3, <3>1
  <2>6. OidLess(s, z)
    BY <1>3, <2>5, LessTransitive
  <2>7. ASSUME NEW o \in here, OidLess(o, z)
        PROVE  FALSE
    <3>1. o \in OID /\ OidLess(x, o)
      BY <1>3, InstanceParts DEF Parts
    <3>2. IsPrefix(n, o)
      BY <1>3, <2>3, <2>7, <3>1, SubtreeConvex
    <3>3. PICK c \in m.leaves[p].cells : c \in OID /\ o = n \o c /\ OidLess(r, c)
      BY <1>4, <3>2
    <3>4. OidLess(n \o c, n \o inst)
      BY <2>3, <2>7, <3>3
    <3>5. OidLess(c, inst)
      BY <2>2, <3>3, <3>4, ConcatLess
    <3>6. QED
      BY <2>1, <3>3, <3>5
  <2>8. QED
    BY <1>6, <2>1, <2>3, <2>4, <2>6, <2>7 DEF NextOfNode
<1>7. QED
  BY <1>5, <1>6

-----------------------------------------------------------------------------
(* From MIB to MIB.                                                        *)

\* The starting point s in MIB m of a search for what is behind q: no instance that is sought
\* is before it, and those of MIBs further in have been dealt with.
StartOk(sought, q, m, s) ==
  /\ s \in Seq(0 .. MaxArc - 1)
  /\ s = q \/ OidLess(q, s)
  /\ \A o \in sought : OidLess(s, o)
  /\ \A n \in mibs : IsPrefix(n.base, s) /\ sought \cap InstancesOf(n) # {}
        => Len(n.base) <= Len(m.base)
  /\ \/ s = q /\ \A n \in mibs : IsPrefix(n.base, q) => Len(n.base) <= Len(m.base)
     \/ s = m.base
     \/ \E n \in mibs \ {m} : IsPrefix(m.base, n.base) /\ IsPrefix(n.base, s)

\* No two MIBs around an OID have base OIDs of the same length.
LEMMA BasesDiffer ==
  ASSUME mibs \in MibSets, Apart(mibs), NEW m \in mibs, NEW n \in mibs, NEW o \in OID,
         IsPrefix(m.base, o), IsPrefix(n.base, o), Len(m.base) = Len(n.base)
  PROVE  m = n
<1>1. m.base \in OID /\ n.base \in OID /\ Len(n.base) \in Nat
  BY BaseFacts
<1>2. IsPrefix(m.base, n.base)
  BY <1>1, PrefixesNested
<1>3. m.base = n.base
  BY <1>1, <1>2, PrefixSameLength
<1>4. QED
  BY <1>2, <1>3 DEF Apart

\* The instances of a MIB further out that are behind an OID in the MIB are behind all of it.
LEMMA OutsideMib ==
  ASSUME mibs \in MibSets, Apart(mibs), NEW m \in mibs, NEW n \in mibs, n # m,
         NEW o \in InstancesOf(n), Len(n.base) <= Len(m.base),
         NEW s \in OID, NEW t \in OID, IsPrefix(m.base, s), IsPrefix(m.base, t), OidLess(s, o)
  PROVE  OidLess(t, o)
<1>1. m.base \in OID /\ Len(m.base) \in Nat /\ Len(n.base) \in Nat
  BY BaseFacts
<1>2. o \in OID
  BY InstanceParts DEF Parts
<1>3. ~IsPrefix(m.base, o)
  <2>1. SUFFICES ASSUME IsPrefix(m.base, o)
                 PROVE  FALSE
    OBVIOUS
  <2>2. Len(m.base) < Len(n.base)
    BY <2>1, InnermostMib
  <2>3. QED
    BY <1>1, <2>2
<1>4. QED
  BY <1>1, <1>2, <1>3, SubtreeBefore

\* An instance behind an OID is in a MIB around the OID or behind it.
LEMMA MibBehind ==
  ASSUME mibs \in MibSets, NEW n \in mibs, NEW o \in InstancesOf(n), NEW s \in OID, OidLess(s, o)
  PROVE  /\ IsPrefix(n.base, s) \/ OidLess(s, n.base)
         /\ OidLess(n.base, o)
<1>1. n.base \in OID
  BY BaseFacts
<1>2. o \in OID /\ IsPrefix(n.base, o)
  BY InstanceParts DEF Parts
<1>3. IsPrefix(n.base, n.base)
  BY <1>1, PrefixArcs DEF OID
<1>4. IsPrefix(n.base, s) \/ OidLess(s, n.base)
  BY <1>1, <1>2, <1>3, SubtreeBehind
<1>5. n.base # o
  <2>1. PICK p, c : Parts(n, o, p, c)
    BY InstanceParts
  <2>2. /\ n.base \o p \in OID /\ c \in OID /\ Len(c) \in Nat \ {0} /\ o = (n.base \o p) \o c
        /\ p \in OID
    BY <2>1 DEF Parts
  <2>3. Len(o) = Len(n.base \o p) + Len(c)
    BY <2>2, Concat
  <2>4. Len(n.base \o p) = Len(n.base) + Len(p)
    BY <1>1, <2>2, Concat
  <2>5. Len(n.base) \in Nat /\ Len(p) \in Nat
    BY <1>1, <2>2 DEF OID
  <2>6. \A i, j, k \in Nat : k # 0 => (i + j) + k # i
    OBVIOUS
  <2>7. Len(o) # Len(n.base)
    BY <2>2, <2>3, <2>4, <2>5, <2>6
  <2>8. QED
    BY <2>7
<1>6. QED
  BY <1>1, <1>2, <1>4, <1>5, PrefixLess

\* No instance of a MIB behind an OID is before the next MIB behind the OID.
LEMMA NextMibFirst ==
  ASSUME mibs \in MibSets, NEW n \in mibs, NEW s \in OID, s # <<>>, OidLess(s, n.base)
  PROVE  /\ NextMib(s) \in mibs /\ NextMib(s) # NoMib /\ NextMib(s).base \in OID
         /\ OidLess(s, NextMib(s).base)
         /\ ~OidLess(n.base, NextMib(s).base)
<1>1. NextMib(s) # NoMib
  BY NextMibFacts
<1>2. QED
  BY <1>1, NextMibFacts, BaseFacts

\* What is behind a MIB is behind those that are not behind that one.
LEMMA NotBehind ==
  ASSUME NEW b \in OID, NEW n \in OID, NEW o \in OID, ~OidLess(n, b), OidLess(n, o)
  PROVE  OidLess(b, o)
<1>1. CASE b = n
  BY <1>1
<1>2. CASE b # n
  <2>1. OidLess(b, n)
    BY <1>2, LessTotal
  <2>2. QED
    BY <2>1, LessTransitive
<1>3. QED
  BY <1>1, <1>2

\* Entering a MIB at its root.
LEMMA StartAtRoot ==
  ASSUME mibs \in MibSets, NoLargestArc(mibs), NEW m \in mibs, NEW q, NEW sought,
         q = m.base \/ OidLess(q, m.base), \A o \in sought : OidLess(m.base, o)
  PROVE  StartOk(sought, q, m, m.base)
<1>1. m.base \in Seq(0 .. MaxArc - 1) /\ m.base \in OID
  BY BaseFacts DEF NoLargestArc
<1>2. ASSUME NEW n \in mibs, IsPrefix(n.base, m.base)
      PROVE  Len(n.base) <= Len(m.base)
  <2>1. n.base \in OID
    BY BaseFacts
  <2>2. QED
    BY <1>1, <1>2, <2>1, PrefixArcs
<1>3. QED
  BY <1>1, <1>2 DEF StartOk

\* The search begins in the MIB around the OID asked for, or at the root of the next one.
LEMMA WhereToStart ==
  ASSUME mibs \in MibSets, NoLargestArc(mibs), NEW q \in OID, q \in Seq(0 .. MaxArc - 1),
         q # <<>>, NEW sought \in SUBSET Instances, \A o \in sought : OidLess(q, o)
  PROVE  IF MibFromOid(q) # NoMib THEN StartOk(sought, q, MibFromOid(q), q)
         ELSE IF NextMib(q) # NoMib THEN StartOk(sought, q, NextMib(q), NextMib(q).base)
         ELSE sought = {}
<1>1. CASE MibFromOid(q) # NoMib
  <2>1. \A n \in mibs : IsPrefix(n.base, q) => Len(n.base) <= Len(MibFromOid(q).base)
    BY <1>1, MibFromOidFacts
  <2>2. QED
    BY <1>1, <2>1 DEF StartOk
<1>2. CASE MibFromOid(q) = NoMib
  <2>1. ASSUME NEW o \in sought
        PROVE  /\ NextMib(q) \in mibs /\ NextMib(q) # NoMib
               /\ OidLess(NextMib(q).base, o)
    <3>1. PICK n \in mibs : o \in InstancesOf(n)
      BY DEF Instances
    <3>2. o \in OID /\ n.base \in OID
      BY <3>1, InstanceParts, BaseFacts DEF Parts
    <3>3. ~IsPrefix(n.base, q)
      BY <1>2, MibFromOidFacts
    <3>4. OidLess(q, n.base) /\ OidLess(n.base, o)
      BY <3>1, <3>3, MibBehind
    <3>5. /\ NextMib(q) \in mibs /\ NextMib(q) # NoMib /\ NextMib(q).base \in OID
          /\ ~OidLess(n.base, NextMib(q).base)
      BY <3>4, NextMibFirst
    <3>6. QED
      BY <3>2, <3>4, <3>5, NotBehind
  <2>2. CASE NextMib(q) = NoMib
    BY <1>2, <2>1, <2>2
  <2>3. CASE NextMib(q) # NoMib
    <3>1. NextMib(q) \in mibs /\ OidLess(q, NextMib(q).base)
      BY <2>3, NextMibFacts
    <3>2. StartOk(sought, q, NextMib(q), NextMib(q).base)
      BY <2>1, <3>1, StartAtRoot
    <3>3. QED
      BY <1>2, <2>3, <3>2
  <2>4. QED
    BY <2>2, <2>3
<1>3. QED
  BY <1>1, <1>2

\* What is sought outside a MIB that is being searched is behind all of the MIB, or in a MIB
\* behind the starting point.
LEMMA SoughtElsewhere ==
  ASSUME mibs \in MibSets, Apart(mibs), NEW q, NEW m \in mibs, NEW s \in OID,
         NEW sought \in SUBSET Instances, StartOk(sought, q, m, s), IsPrefix(m.base, s),
         NEW t \in OID, IsPrefix(m.base, t), NEW o \in sought, o \notin InstancesOf(m)
  PROVE  \/ OidLess(t, o) /\ \E n \in mibs : IsPrefix(n.base, s) /\ Len(n.base) < Len(m.base)
         \/ /\ NextMib(s) \in mibs /\ NextMib(s) # NoMib /\ NextMib(s).base \in OID
            /\ OidLess(NextMib(s).base, o)
<1>1. PICK n \in mibs : o \in InstancesOf(n)
  BY DEF Instances
<1>2. o \in OID /\ n.base \in OID /\ m.base \in OID /\ n # m
  BY <1>1, InstanceParts, BaseFacts DEF Parts
<1>3. OidLess(s, o)
  BY DEF StartOk
<1>4. CASE IsPrefix(n.base, s)
  <2>1. Len(n.base) <= Len(m.base)
    BY <1>1, <1>4 DEF StartOk
  <2>2. Len(n.base) # Len(m.base)
    BY <1>2, <1>4, BasesDiffer
  <2>3. Len(n.base) < Len(m.base)
    BY <2>1, <2>2, BaseFacts
  <2>4. OidLess(t, o)
    BY <1>1, <1>2, <1>3, <2>1, OutsideMib
  <2>5. QED
    BY <1>4, <2>3, <2>4
<1>5. CASE ~IsPrefix(n.base, s)
  <2>1. OidLess(s, n.base) /\ OidLess(n.base, o)
    BY <1>1, <1>3, <1>5, MibBehind
  <2>2. s # <<>>
    <3>1. Len(m.base) \in Nat \ {0} /\ Len(m.base) <= Len(s)
      BY <1>2, BaseFacts, PrefixArcs
    <3>2. QED
      BY <3>1
  <2>3. /\ NextMib(s) \in mibs /\ NextMib(s) # NoMib /\ NextMib(s).base \in OID
        /\ ~OidLess(n.base, NextMib(s).base)
    BY <2>1, <2>2, NextMibFirst
  <2>4. OidLess(NextMib(s).base, o)
    BY <1>2, <2>1, <2>3, NotBehind
  <2>5. QED
    BY <2>3, <2>4
<1>6. QED
  BY <1>4, <1>5

\* When an instance of a MIB is the first one sought there, the search goes on in the MIB whose
\* root is before it, if there is one, and otherwise the instance is the first one of all.
LEMMA BetweenFacts ==
  ASSUME mibs \in MibSets, Apart(mibs), NoLargestArc(mibs), NEW q \in OID, NEW m \in mibs,
         NEW s \in OID, NEW sought \in SUBSET Instances, StartOk(sought, q, m, s),
         IsPrefix(m.base, s), NEW t \in sought, t \in InstancesOf(m),
         \A o \in sought : o \in InstancesOf(m) => ~OidLess(o, t)
  PROVE  IF NextMib(s) # NoMib /\ OidLess(NextMib(s).base, t)
         THEN StartOk(sought, q, NextMib(s), NextMib(s).base)
         ELSE \A o \in sought : ~OidLess(o, t)
<1>1. t \in OID /\ IsPrefix(m.base, t) /\ m.base \in OID
  BY InstanceParts, BaseFacts DEF Parts
<1>2. ASSUME NEW o \in sought
      PROVE  o \in OID
  <2>1. PICK n \in mibs : o \in InstancesOf(n)
    BY DEF Instances
  <2>2. QED
    BY <2>1, InstanceParts DEF Parts
<1>3. CASE NextMib(s) # NoMib /\ OidLess(NextMib(s).base, t)
  <2>1. PICK b \in OID : b = NextMib(s).base /\ OidLess(s, b) /\ OidLess(b, t) /\ NextMib(s) \in mibs
    BY <1>3, NextMibFacts, BaseFacts
  <2>2. IsPrefix(m.base, b)
    BY <1>1, <2>1, SubtreeConvex
  <2>3. OidLess(q, b)
    BY <2>1, LessTransitive DEF StartOk
  <2>4. ASSUME NEW o \in sought
        PROVE  OidLess(b, o)
    <3>1. CASE o \in InstancesOf(m)
      BY <1>1, <1>2, <2>1, <3>1, NotBehind
    <3>2. CASE o \notin InstancesOf(m)
      BY <2>1, <2>2, <3>2, SoughtElsewhere
    <3>3. QED
      BY <3>1, <3>2
  <2>5. StartOk(sought, q, NextMib(s), NextMib(s).base)
    BY <2>1, <2>3, <2>4, StartAtRoot
  <2>6. QED
    BY <1>3, <2>5
<1>4. CASE ~(NextMib(s) # NoMib /\ OidLess(NextMib(s).base, t))
  <2>1. ASSUME NEW o \in sought
        PROVE  ~OidLess(o, t)
    <3>1. CASE o \in InstancesOf(m)
      BY <3>1
    <3>2. CASE o \notin InstancesOf(m)
      <4>1. CASE OidLess(t, o)
        BY <1>1, <1>2, <4>1, LessAsymmetric
      <4>2. CASE ~OidLess(t, o)
        <5>1. NextMib(s) # NoMib /\ NextMib(s).base \in OID /\ OidLess(NextMib(s).base, o)
          BY <1>1, <3>2, <4>2, SoughtElsewhere
        <5>2. ~OidLess(NextMib(s).base, t)
          BY <1>4, <5>1
        <5>3. QED
          BY <1>1, <1>2, <5>1, <5>2, LessTransitive
      <4>3. QED
        BY <4>1, <4>2
    <3>3. QED
      BY <3>1, <3>2
  <2>2. QED
    BY <1>4, <2>1
<1>5. QED
  BY <1>3, <1>4

\* Nothing is sought any more in a MIB: on with one nested in it, which is the next one.
LEMMA NestedFacts ==
  ASSUME mibs \in MibSets, Apart(mibs), NoLargestArc(mibs), NEW q \in OID, NEW m \in mibs,
         NEW s \in OID, NEW sought \in SUBSET Instances, StartOk(sought, q, m, s),
         IsPrefix(m.base, s), sought \cap InstancesOf(m) = {},
         NextMib(s) # NoMib, IsPrefix(m.base, NextMib(s).base)
  PROVE  StartOk(sought, q, NextMib(s), NextMib(s).base)
<1>1. PICK b \in OID : /\ b = NextMib(s).base /\ OidLess(s, b) /\ IsPrefix(m.base, b)
                       /\ NextMib(s) \in mibs
  BY NextMibFacts, BaseFacts
<1>2. OidLess(q, b)
  BY <1>1, LessTransitive DEF StartOk
<1>3. ASSUME NEW o \in sought
      PROVE  OidLess(b, o)
  BY <1>1, SoughtElsewhere
<1>4. QED
  BY <1>1, <1>2, <1>3, StartAtRoot

\* On with the MIB around it, from where the search is.
LEMMA SurroundingStart ==
  ASSUME mibs \in MibSets, Apart(mibs), NEW q \in OID, NEW m \in mibs,
         NEW s \in OID, NEW sought \in SUBSET Instances, StartOk(sought, q, m, s),
         IsPrefix(m.base, s), sought \cap InstancesOf(m) = {},
         NEW z \in mibs, IsPrefix(z.base, s), Len(z.base) < Len(m.base),
         \A n \in mibs : IsPrefix(n.base, s) /\ Len(n.base) < Len(m.base)
           => Len(n.base) <= Len(z.base)
  PROVE  StartOk(sought, q, z, s)
<1>1. /\ z.base \in OID /\ m.base \in OID /\ Len(z.base) \in Nat /\ Len(m.base) \in Nat
  BY BaseFacts
<1>2. IsPrefix(z.base, m.base) /\ m # z
  BY <1>1, PrefixesNested
<1>3. ASSUME NEW n \in mibs, IsPrefix(n.base, s), sought \cap InstancesOf(n) # {}
      PROVE  Len(n.base) <= Len(z.base)
  <2>1. Len(n.base) <= Len(m.base) /\ n # m
    BY <1>3 DEF StartOk
  <2>2. Len(n.base) # Len(m.base)
    BY <1>3, <2>1, BasesDiffer
  <2>3. Len(n.base) < Len(m.base)
    BY <2>1, <2>2, BaseFacts
  <2>4. QED
    BY <1>3, <2>3
<1>4. QED
  BY <1>2, <1>3 DEF StartOk

\* There is none around it: on with the next one.
LEMMA NextStart ==
  ASSUME mibs \in MibSets, Apart(mibs), NoLargestArc(mibs), NEW q \in OID, NEW m \in mibs,
         NEW s \in OID, NEW sought \in SUBSET Instances, StartOk(sought, q, m, s),
         IsPrefix(m.base, s), sought \cap InstancesOf(m) = {},
         \A n \in mibs : IsPrefix(n.base, s) => ~(Len(n.base) < Len(m.base))
  PROVE  IF NextMib(s) = NoMib THEN sought = {}
         ELSE StartOk(sought, q, NextMib(s), NextMib(s).base)
<1>1. ASSUME NEW o \in sought
      PROVE  NextMib(s) # NoMib /\ OidLess(NextMib(s).base, o)
  BY SoughtElsewhere
<1>2. CASE NextMib(s) = NoMib
  BY <1>1, <1>2
<1>3. CASE NextMib(s) # NoMib
  <2>1. PICK b \in OID : b = NextMib(s).base /\ OidLess(s, b) /\ NextMib(s) \in mibs
    BY <1>3, NextMibFacts, BaseFacts
  <2>2. OidLess(q, b)
    BY <2>1, LessTransitive DEF StartOk
  <2>3. StartOk(sought, q, NextMib(s), NextMib(s).base)
    BY <1>1, <2>1, <2>2, StartAtRoot
  <2>4. QED
    BY <1>3, <2>3
<1>4. QED
  BY <1>2, <1>3

\* Where no surrounding MIB is found, there is none.
LEMMA NoSurrounding ==
  ASSUME WithinInv, pc \in Searching, Len(mib.base) # 1, Surrounding = NoMib
  PROVE  \A n \in mibs : IsPrefix(n.base, start_oid) => ~(Len(n.base) < Len(mib.base))
<1>1. mib \in mibs /\ mib.base \in OID /\ Len(mib.base) \in Nat \ {0}
      /\ start_oid \in OID /\ IsPrefix(mib.base, start_oid) /\ mibs \in MibSets
  BY BaseFacts DEF WithinInv
<1>2. mib.base # <<>>
  BY <1>1
<1>3. PICK f \in OID : f = Front(mib.base) /\ Len(f) = Len(mib.base) - 1 /\ IsPrefix(f, mib.base)
  <2>1. PICK f \in OID : f = Front(mib.base) /\ Len(f) = Len(mib.base) - 1
    BY <1>1, <1>2, OneArcUp
  <2>2. PICK l \in Nat : mib.base = f \o <<l>>
    BY <1>1, <1>2, <2>1, OneArcUp
  <2>3. IsPrefix(f, f \o <<l>>)
    BY OneArcDown
  <2>4. QED
    BY <2>1, <2>2, <2>3
<1>4. MibFromOid(f) = NoMib
  BY <1>3 DEF Surrounding
<1>5. ASSUME NEW n \in mibs, IsPrefix(n.base, start_oid), Len(n.base) < Len(mib.base)
      PROVE  FALSE
  <2>1. n.base \in OID /\ Len(n.base) \in Nat
    BY <1>1, BaseFacts
  <2>2. Len(n.base) <= Len(f)
    BY <1>1, <1>3, <1>5, <2>1
  <2>3. IsPrefix(f, start_oid)
    BY <1>1, <1>3, PrefixTransitive
  <2>4. IsPrefix(n.base, f)
    BY <1>1, <1>5, <2>1, <2>2, <2>3, PrefixesNested
  <2>5. QED
    BY <1>1, <1>4, <2>4, MibFromOidFacts
<1>6. QED
  BY <1>5

\* An OID through a node below a root, taken apart.
LEMMA PathParts ==
  ASSUME NEW b \in OID, NEW p \in OID, NEW rel \in OID, IsPrefix(p, rel)
  PROVE  /\ SubSeq(rel, Len(p) + 1, Len(rel)) \in OID
         /\ b \o rel = (b \o p) \o SubSeq(rel, Len(p) + 1, Len(rel))
<1>1. PICK r : r = SubSeq(rel, Len(p) + 1, Len(rel))
  OBVIOUS
<1>2. r \in OID /\ rel = p \o r
  BY <1>1, SplitBehind
<1>3. (b \o p) \o r = b \o (p \o r)
  BY <1>2, BelowBelow
<1>4. QED
  BY <1>1, <1>2, <1>3

\* The parts of an OID that leads to or through a leaf node: the OID n of that node and what
\* is behind it.
AtLeaf(m, s, p, n, r) ==
  /\ p \in DOMAIN m.leaves /\ p \in OID /\ m.base \in OID /\ n \in OID /\ r \in OID
  /\ n = m.base \o p /\ Len(n) = Len(m.base) + Len(p) /\ s = n \o r
  /\ r = SubSeq(Relative(m, s), Len(p) + 1, Len(Relative(m, s)))
  /\ SubSeq(s, 1, Len(m.base) + Len(p)) = n
  /\ SubSeq(s, Len(m.base) + Len(p) + 1, Len(s)) = r

\* Every such OID has these parts.
LEMMA ExactParts ==
  ASSUME mibs \in MibSets, NEW m \in mibs, NEW s \in OID, IsPrefix(m.base, s),
         NEW p \in ExactLeaves(m, s)
  PROVE  \E n, r : AtLeaf(m, s, p, n, r)
<1>1. m.base \in OID /\ p \in DOMAIN m.leaves /\ p \in OID /\ IsPrefix(p, Relative(m, s))
  BY BaseFacts, MibFacts DEF ExactLeaves
<1>2. PICK rel \in OID : rel = Relative(m, s) /\ s = m.base \o rel
  BY <1>1, SplitBehind DEF Relative
<1>3. IsPrefix(p, rel)
  BY <1>1, <1>2
<1>4. /\ SubSeq(rel, Len(p) + 1, Len(rel)) \in OID
      /\ m.base \o rel = (m.base \o p) \o SubSeq(rel, Len(p) + 1, Len(rel))
  <2>1. p \in OID /\ m.base \in OID
    BY <1>1
  <2>2. QED
    BY <1>3, <2>1, PathParts, Zenon
<1>5. PICK r \in OID : r = SubSeq(rel, Len(p) + 1, Len(rel))
  BY <1>4
<1>6. PICK n \in OID : n = m.base \o p /\ Len(n) = Len(m.base) + Len(p)
  BY <1>1, Concat
<1>7. s = n \o r
  BY <1>2, <1>4, <1>5, <1>6
<1>8. SubSeq(s, Len(n) + 1, Len(s)) = r
  <2>1. SubSeq(n \o r, Len(n) + 1, Len(n \o r)) = r
    BY Behind
  <2>2. QED
    BY <1>7, <2>1
<1>9. SubSeq(s, 1, Len(n)) = n
  <2>1. IsPrefix(n, n \o r)
    BY Concat
  <2>2. IsPrefix(n, s)
    BY <1>7, <2>1
  <2>3. QED
    BY <2>2 DEF IsPrefix, OID
<1>10. AtLeaf(m, s, p, n, r)
  BY <1>1, <1>2, <1>5, <1>6, <1>7, <1>8, <1>9 DEF AtLeaf
<1>11. QED
  BY <1>10

\* Where a search enters a leaf node that its starting point leads to or through, it goes on
\* behind an OID that names a column before a row.
LEMMA RegularAtStart ==
  ASSUME mibs \in MibSets, Apart(mibs), NEW m \in mibs, NEW s \in OID, oid \in OID,
         NEW sought, StartOk(sought, oid, m, s), IsPrefix(m.base, s), ~RowWithoutColumn,
         NEW p \in ExactLeaves(m, s), NEW n, NEW r, AtLeaf(m, s, p, n, r)
  PROVE  Regular(m.leaves[p], r)
<1>1. /\ p \in DOMAIN m.leaves /\ p \in OID /\ m.base \in OID /\ n \in OID /\ r \in OID
      /\ Len(n) = Len(m.base) + Len(p) /\ s = n \o r /\ n = m.base \o p
      /\ r = SubSeq(Relative(m, s), Len(p) + 1, Len(Relative(m, s)))
  BY DEF AtLeaf
<1>2. CASE s = oid /\ \A k \in mibs : IsPrefix(k.base, oid) => Len(k.base) <= Len(m.base)
  <2>1. MibFromOid(oid) # NoMib /\ MibFromOid(oid) \in mibs
        /\ IsPrefix(MibFromOid(oid).base, oid) /\ Len(m.base) <= Len(MibFromOid(oid).base)
    BY <1>2, MibFromOidFacts
  <2>2. Len(m.base) = Len(MibFromOid(oid).base)
    <3>1. Len(MibFromOid(oid).base) <= Len(m.base)
      BY <1>2, <2>1
    <3>2. Len(m.base) \in Nat /\ Len(MibFromOid(oid).base) \in Nat
      BY <2>1, BaseFacts
    <3>3. QED
      BY <2>1, <3>1, <3>2
  <2>3. MibFromOid(oid) = m
    BY <1>2, <2>1, <2>2, BasesDiffer
  <2>4. p \in ExactLeaves(MibFromOid(oid), oid)
    BY <1>2, <2>3
  <2>5. SubSeq(Relative(MibFromOid(oid), oid), Len(p) + 1, Len(Relative(MibFromOid(oid), oid))) = r
    BY <1>1, <1>2, <2>3
  <2>6. ~(/\ m.leaves[p].kind = "table" /\ Len(r) > 1
          /\ r[1] = 0 \/ (Len(r) > 2 /\ r[2] \notin m.leaves[p].cols))
    BY <2>3, <2>4, <2>5 DEF RowWithoutColumn
  <2>7. Len(r) \in Nat
    BY <1>1 DEF OID
  <2>8. Len(r) > 2 => Len(r) > 1
    BY <2>7
  <2>9. QED
    BY <1>1, <2>6, <2>8 DEF Regular
<1>3. CASE s = m.base
  <2>1. Len(s) = Len(n) + Len(r)
    BY <1>1, Concat
  <2>2. Len(m.base) \in Nat /\ Len(p) \in Nat /\ Len(r) \in Nat
    <3>1. m.base \in OID /\ p \in OID /\ r \in OID
      BY <1>1
    <3>2. QED
      BY <3>1 DEF OID
  <2>3. Len(s) = (Len(m.base) + Len(p)) + Len(r) /\ Len(s) = Len(m.base)
    BY <1>1, <1>3, <2>1
  <2>4. \A i, j, k \in Nat : i = (i + j) + k => k = 0
    OBVIOUS
  <2>5. Len(r) = 0
    BY <2>2, <2>3, <2>4
  <2>6. QED
    BY <1>1, <2>5 DEF Regular
<1>4. ASSUME NEW k \in mibs \ {m}, IsPrefix(m.base, k.base), IsPrefix(k.base, s)
      PROVE  FALSE
  <2>1. k.base \in OID /\ Len(k.base) \in Nat
    BY BaseFacts
  <2>2. IsPrefix(n, s) /\ Len(n) \in Nat
    <3>1. Len(n) \in Nat
      BY <1>1 DEF OID
    <3>2. QED
      BY <1>1, <3>1, BelowIsUnder
  <2>3. IsPrefix(n, k.base) \/ IsPrefix(k.base, n)
    BY <1>1, <1>4, <2>1, <2>2, PrefixesNested
  <2>4. QED
    BY <1>1, <1>4, <2>3 DEF Apart
<1>5. QED
  BY <1>2, <1>3, <1>4 DEF StartOk

-----------------------------------------------------------------------------
(* A search for GETNEXT finds the next instance.                           *)

\* The searches that GetNextIsNextOnWalk is about.
Walk == op = "getNext" /\ oid # <<>> /\ ~RowWithoutColumn /\ MaxArc \notin ToSet(oid)

\* What is looked for: the acceptable instances behind the OID asked for.
Sought == {o \in valid : OidLess(oid, o)}
SoughtIn(m) == Sought \cap InstancesOf(m)

\* Where a search is (at p, in MIB m, ...), it has not overtaken anything that is sought.
SearchOk(p, m, s, n, r, w, a) ==
  /\ p \in Searching => StartOk(Sought, oid, m, s)
  /\ p = "level" => LevelOk(SoughtIn(m), m, s, w, a)
  /\ p \in {"instance", "refused"} => InstanceOk(SoughtIn(m), m, s, n, r)
  /\ p = "between" => n \in SoughtIn(m) /\ \A o \in SoughtIn(m) : ~OidLess(o, n)
  /\ p = "noNode" => SoughtIn(m) = {}
  /\ p = "found" => n \in Sought /\ \A o \in Sought : ~OidLess(o, n)
  /\ p = "notFound" => Sought = {}

WalkInv ==
  /\ valid \subseteq Instances /\ oid \in Seq(0 .. MaxArc)
  /\ Walk /\ pc # "start" =>
       SearchOk(pc, mib, start_oid, node_oid, instance_oid, node_stack, subnode_oid)

\* What the steps of such a search have in common.
Walking ==
  /\ WithinInv /\ Apart(mibs) /\ NoLargestArc(mibs) /\ valid \subseteq Instances /\ Walk
  /\ oid \in Seq(0 .. MaxArc - 1)
  /\ pc # "start" =>
       SearchOk(pc, mib, start_oid, node_oid, instance_oid, node_stack, subnode_oid)
SearchOkNext ==
  SearchOk(pc', mib', start_oid', node_oid', instance_oid', node_stack', subnode_oid')

\* Instances are OIDs.
LEMMA SoughtFacts ==
  ASSUME mibs \in MibSets, valid \subseteq Instances
  PROVE  /\ Sought \in SUBSET Instances /\ Sought \in SUBSET OID
         /\ \A o \in Sought : OidLess(oid, o)
<1>1. ASSUME NEW o \in Instances
      PROVE  o \in OID
  <2>1. PICK n \in mibs : o \in InstancesOf(n)
    BY DEF Instances
  <2>2. QED
    BY <2>1, InstanceParts DEF Parts
<1>2. QED
  BY <1>1 DEF Sought

\* The search begins.
LEMMA GetNextStep == Walking /\ GetNext => SearchOkNext
<1> SUFFICES ASSUME Walking, GetNext
             PROVE  SearchOkNext
  OBVIOUS
<1>1. /\ mibs \in MibSets /\ NoLargestArc(mibs) /\ oid \in OID /\ oid \in Seq(0 .. MaxArc - 1)
      /\ oid # <<>> /\ valid \subseteq Instances
  BY DEF Walking, WithinInv, Walk
<1>2. Sought \in SUBSET Instances /\ \A o \in Sought : OidLess(oid, o)
  BY <1>1, SoughtFacts
<1>3. IF MibFromOid(oid) # NoMib THEN StartOk(Sought, oid, MibFromOid(oid), oid)
      ELSE IF NextMib(oid) # NoMib THEN StartOk(Sought, oid, NextMib(oid), NextMib(oid).base)
      ELSE Sought = {}
  BY <1>1, <1>2, WhereToStart
<1>4. CASE MibFromOid(oid) # NoMib
  <2>1. mib' = MibFromOid(oid) /\ start_oid' = oid /\ pc' = "mib"
    BY <1>4 DEF GetNext
  <2>2. QED
    BY <1>3, <1>4, <2>1 DEF SearchOkNext, SearchOk, Searching
<1>5. CASE MibFromOid(oid) = NoMib
  <2>1. EnterMib(NextMib(oid))
    BY <1>5 DEF GetNext
  <2>2. QED
    BY <1>3, <1>5, <2>1 DEF EnterMib, SearchOkNext, SearchOk, Searching
<1>6. QED
  BY <1>4, <1>5

\* Where a search is.
LEMMA WalkingFacts ==
  ASSUME Walking, pc \in Searching
  PROVE  /\ mibs \in MibSets /\ Apart(mibs) /\ NoLargestArc(mibs) /\ mib \in mibs
         /\ start_oid \in OID /\ IsPrefix(mib.base, start_oid) /\ oid \in OID
         /\ Sought \in SUBSET Instances /\ SoughtIn(mib) \in SUBSET InstancesOf(mib)
         /\ SearchOk(pc, mib, start_oid, node_oid, instance_oid, node_stack, subnode_oid)
         /\ StartOk(Sought, oid, mib, start_oid)
         /\ \A o \in SoughtIn(mib) : OidLess(start_oid, o)
<1>1. /\ mibs \in MibSets /\ Apart(mibs) /\ NoLargestArc(mibs) /\ mib \in mibs
      /\ start_oid \in OID /\ IsPrefix(mib.base, start_oid) /\ oid \in OID
      /\ valid \subseteq Instances
  BY DEF Walking, WithinInv
<1>2. /\ SearchOk(pc, mib, start_oid, node_oid, instance_oid, node_stack, subnode_oid)
      /\ StartOk(Sought, oid, mib, start_oid)
  BY DEF Walking, SearchOk, Searching
<1>3. Sought \in SUBSET Instances
  BY <1>1, SoughtFacts
<1>4. SoughtIn(mib) \in SUBSET InstancesOf(mib) /\ SoughtIn(mib) \in SUBSET Sought
  BY DEF SoughtIn
<1>5. \A o \in SoughtIn(mib) : OidLess(start_oid, o)
  BY <1>2, <1>4 DEF StartOk
<1>6. QED
  BY <1>1, <1>2, <1>3, <1>4, <1>5

\* The starting point leads to or through a leaf node.
LEMMA ResolveExactStep == Walking /\ ResolveExact => SearchOkNext
<1> SUFFICES ASSUME Walking, ResolveExact
             PROVE  SearchOkNext
  OBVIOUS
<1>1. pc = "mib" /\ pc' = "instance" /\ mib' = mib /\ start_oid' = start_oid
  BY DEF ResolveExact
<1>2. /\ mibs \in MibSets /\ Apart(mibs) /\ NoLargestArc(mibs) /\ mib \in mibs
      /\ start_oid \in OID /\ IsPrefix(mib.base, start_oid) /\ oid \in OID
      /\ StartOk(Sought, oid, mib, start_oid)
      /\ \A o \in SoughtIn(mib) : OidLess(start_oid, o)
  BY <1>1, WalkingFacts DEF Searching
<1>3. PICK p \in ExactLeaves(mib, start_oid) :
        /\ node_oid' = SubSeq(start_oid, 1, Len(mib.base) + Len(p))
        /\ instance_oid' = SubSeq(start_oid, Len(mib.base) + Len(p) + 1, Len(start_oid))
  BY DEF ResolveExact
<1>4. PICK n, r : AtLeaf(mib, start_oid, p, n, r)
  BY <1>2, ExactParts
<1>5. Regular(mib.leaves[p], r)
  <2>1. ~RowWithoutColumn
    BY DEF Walking, Walk
  <2>2. QED
    BY <1>2, <1>4, <2>1, RegularAtStart
<1>6. /\ p \in DOMAIN mib.leaves /\ n = mib.base \o p /\ start_oid = n \o r
      /\ node_oid' = n /\ instance_oid' = r
  BY <1>3, <1>4 DEF AtLeaf
<1>7. InstanceOk(SoughtIn(mib), mib, start_oid, n, r)
  BY <1>2, <1>5, <1>6 DEF InstanceOk
<1>8. QED
  BY <1>1, <1>2, <1>6, <1>7 DEF SearchOkNext, SearchOk

\* What snmp_mib_tree_resolve_next() does first.
LEMMA ResolveNextDoes ==
  ASSUME NEW o, NEW rel, ResolveNext(o), rel = Relative(mib, o)
  PROVE  IF <<>> \notin mib.trees THEN pc' = "noNode"
         ELSE /\ pc' = "level" /\ node_stack' = LongestPath(mib, rel)
              /\ subnode_oid' = IF LongestPath(mib, rel) = rel THEN 0
                                ELSE NextArc(rel[Len(LongestPath(mib, rel)) + 1])
BY DEF ResolveNext, LongestPath

\* It leads to where the search has not overtaken anything, in the same MIB.
LEMMA ResolvedOk ==
  ASSUME Walking, pc \in Searching, mib' = mib, start_oid' = start_oid,
         NEW rel \in Seq(0 .. MaxArc - 1), rel \in OID, NEW x \in OID,
         ResolveNext(mib.base \o rel),
         IsPrefix(mib.base \o rel, x), start_oid = x \/ OidLess(start_oid, x),
         mib.base \o rel = x \/ rel \notin mib.trees,
         \A h \in SoughtIn(mib) : OidLess(x, h),
         \A q \in DOMAIN mib.leaves : IsPrefix(q, rel) =>
            \A h \in SoughtIn(mib) : ~IsPrefix(mib.base \o q, h)
  PROVE  SearchOkNext
<1>1. /\ mibs \in MibSets /\ mib \in mibs /\ start_oid \in OID /\ mib.base \in OID
      /\ SoughtIn(mib) \in SUBSET InstancesOf(mib) /\ StartOk(Sought, oid, mib, start_oid)
  BY WalkingFacts, BaseFacts
<1>2. IF <<>> \notin mib.trees THEN SoughtIn(mib) = {}
      ELSE LevelOk(SoughtIn(mib), mib, start_oid, LongestPath(mib, rel),
                   IF LongestPath(mib, rel) = rel THEN 0
                   ELSE NextArc(rel[Len(LongestPath(mib, rel)) + 1]))
  BY <1>1, ResolveNextFacts
<1>3. rel = Relative(mib, mib.base \o rel)
  BY <1>1, Behind DEF Relative
<1>4. IF <<>> \notin mib.trees THEN pc' = "noNode"
      ELSE /\ pc' = "level" /\ node_stack' = LongestPath(mib, rel)
           /\ subnode_oid' = IF LongestPath(mib, rel) = rel THEN 0
                             ELSE NextArc(rel[Len(LongestPath(mib, rel)) + 1])
  BY <1>3, ResolveNextDoes
<1>5. CASE <<>> \notin mib.trees
  BY <1>1, <1>2, <1>4, <1>5 DEF SearchOkNext, SearchOk
<1>6. CASE <<>> \in mib.trees
  <2>1. LevelOk(SoughtIn(mib), mib, start_oid, node_stack', subnode_oid') /\ pc' = "level"
    BY <1>2, <1>4, <1>6
  <2>2. QED
    BY <1>1, <2>1 DEF SearchOkNext, SearchOk
<1>7. QED
  BY <1>5, <1>6

\* Below the root of a MIB, an OID without the largest arc has none.
LEMMA PlainRelative ==
  ASSUME NEW b \in OID, NEW s \in Seq(0 .. MaxArc - 1), s \in OID, IsPrefix(b, s)
  PROVE  /\ SubSeq(s, Len(b) + 1, Len(s)) \in Seq(0 .. MaxArc - 1)
         /\ SubSeq(s, Len(b) + 1, Len(s)) \in OID
         /\ s = b \o SubSeq(s, Len(b) + 1, Len(s))
<1>1. Len(b) \in Nat /\ Len(s) \in Nat /\ Len(b) <= Len(s)
  BY PrefixArcs DEF OID
<1>2. SubSeq(s, Len(b) + 1, Len(s)) \in Seq(0 .. MaxArc - 1)
  <2>1. PICK i \in Nat, k \in Nat : i = Len(b) + 1 /\ k = Len(s) /\ i >= 1
    BY <1>1
  <2>2. PICK S : S = 0 .. MaxArc - 1
    OBVIOUS
  <2>3. \A t \in Seq(S) : \A d \in Nat : d >= 1 => SubSeq(t, d, Len(t)) \in Seq(S)
    OBVIOUS
  <2>4. QED
    BY <2>1, <2>2, <2>3
<1>3. QED
  BY <1>2, SplitBehind

\* The starting point leads to no leaf node.
LEMMA SearchNodeStep == Walking /\ SearchNode => SearchOkNext
<1> SUFFICES ASSUME Walking, SearchNode
             PROVE  SearchOkNext
  OBVIOUS
<1>1. /\ pc = "mib" /\ mib' = mib /\ start_oid' = start_oid /\ pc \in Searching
      /\ ExactLeaves(mib, start_oid) = {} /\ ResolveNext(start_oid)
  BY DEF SearchNode, Searching
<1>2. /\ mibs \in MibSets /\ mib \in mibs /\ start_oid \in OID /\ IsPrefix(mib.base, start_oid)
      /\ StartOk(Sought, oid, mib, start_oid) /\ mib.base \in OID
      /\ \A o \in SoughtIn(mib) : OidLess(start_oid, o)
  BY <1>1, WalkingFacts, BaseFacts
<1>3. start_oid \in Seq(0 .. MaxArc - 1)
  BY <1>2 DEF StartOk
<1>4. PICK rel \in Seq(0 .. MaxArc - 1) :
        rel \in OID /\ rel = Relative(mib, start_oid) /\ start_oid = mib.base \o rel
  BY <1>2, <1>3, PlainRelative DEF Relative
<1>5. \A q \in DOMAIN mib.leaves : ~IsPrefix(q, rel)
  BY <1>1, <1>4 DEF ExactLeaves
<1>6. IsPrefix(start_oid, start_oid)
  BY <1>2, PrefixArcs DEF OID
<1>7. ResolveNext(mib.base \o rel)
  BY <1>1, <1>4
<1>8. QED
  BY <1>1, <1>2, <1>4, <1>5, <1>6, <1>7, ResolvedOk

\* No subnode is ahead: up.
LEMMA LevelUpStep == Walking /\ LevelUp => SearchOkNext
<1> SUFFICES ASSUME Walking, LevelUp
             PROVE  SearchOkNext
  OBVIOUS
<1>1. /\ pc = "level" /\ mib' = mib /\ start_oid' = start_oid /\ pc \in Searching
      /\ Ahead = {}
      /\ IF node_stack = <<>> THEN pc' = "noNode"
         ELSE /\ node_stack' = Front(node_stack)
              /\ subnode_oid' = NextArc(Last(node_stack)) /\ pc' = "level"
  BY DEF LevelUp, Searching
<1>2. /\ mibs \in MibSets /\ mib \in mibs /\ start_oid \in OID /\ NoLargestArc(mibs)
      /\ StartOk(Sought, oid, mib, start_oid) /\ SoughtIn(mib) \in SUBSET InstancesOf(mib)
      /\ LevelOk(SoughtIn(mib), mib, start_oid, node_stack, subnode_oid)
  BY <1>1, WalkingFacts DEF SearchOk
<1>3. node_stack \in mib.trees
  BY <1>2 DEF LevelOk
<1>4. node_stack \in Seq(0 .. MaxArc - 1)
  BY <1>2, <1>3 DEF NoLargestArc
<1>5. \A c \in Subnodes(mib, node_stack) : ~(c >= subnode_oid)
  BY <1>1 DEF Ahead
<1>6. IF node_stack = <<>> THEN SoughtIn(mib) = {}
      ELSE LevelOk(SoughtIn(mib), mib, start_oid, Front(node_stack), NextArc(Last(node_stack)))
  BY <1>2, <1>4, <1>5, LevelUpFacts
<1>7. CASE node_stack = <<>>
  BY <1>1, <1>2, <1>6, <1>7 DEF SearchOkNext, SearchOk
<1>8. CASE node_stack # <<>>
  <2>1. pc' = "level" /\ LevelOk(SoughtIn(mib), mib, start_oid, node_stack', subnode_oid')
    BY <1>1, <1>6, <1>8
  <2>2. QED
    BY <1>1, <1>2, <2>1 DEF SearchOkNext, SearchOk
<1>9. QED
  BY <1>7, <1>8

\* Down to the least one ahead.
LEMMA LevelDownStep == Walking /\ LevelDown => SearchOkNext
<1> SUFFICES ASSUME Walking, LevelDown
             PROVE  SearchOkNext
  OBVIOUS
<1>1. /\ pc = "level" /\ mib' = mib /\ start_oid' = start_oid /\ pc \in Searching
      /\ Ahead # {}
  BY DEF LevelDown, Searching
<1>2. /\ mibs \in MibSets /\ mib \in mibs /\ start_oid \in OID
      /\ StartOk(Sought, oid, mib, start_oid) /\ SoughtIn(mib) \in SUBSET InstancesOf(mib)
      /\ LevelOk(SoughtIn(mib), mib, start_oid, node_stack, subnode_oid)
  BY <1>1, WalkingFacts DEF SearchOk
<1>3. node_stack \in OID
  BY <1>2, MibFacts DEF LevelOk
<1>4. Ahead \in SUBSET Nat
  BY <1>2, <1>3, SubnodeFacts DEF Ahead
<1>5. PICK b : b = Min(Ahead)
  OBVIOUS
<1>6. b \in Ahead /\ \A c \in Ahead : b <= c
  BY <1>1, <1>4, <1>5, MinOfNats
<1>7. /\ b \in Subnodes(mib, node_stack) /\ b >= subnode_oid
      /\ \A c \in Subnodes(mib, node_stack) : c >= subnode_oid => b <= c
  BY <1>6 DEF Ahead
<1>8. PICK w : w = node_stack \o <<b>>
  OBVIOUS
<1>9. Append(node_stack, Min(Ahead)) = w
  <2>1. b \in Nat
    BY <1>4, <1>6
  <2>2. Append(node_stack, b) = node_stack \o <<b>>
    BY <1>3, <2>1, OneArcDown
  <2>3. QED
    BY <1>5, <1>8, <2>2
<1>10. /\ w \in mib.trees => LevelOk(SoughtIn(mib), mib, start_oid, w, 0)
       /\ w \notin mib.trees => InstanceOk(SoughtIn(mib), mib, start_oid, mib.base \o w, <<>>)
  BY <1>2, <1>7, <1>8, LevelDownFacts
<1>11. CASE w \in mib.trees
  <2>1. pc' = "level" /\ node_stack' = w /\ subnode_oid' = 0
    BY <1>1, <1>9, <1>11 DEF LevelDown
  <2>2. QED
    BY <1>1, <1>2, <1>10, <1>11, <2>1 DEF SearchOkNext, SearchOk
<1>12. CASE w \notin mib.trees
  <2>1. pc' = "instance" /\ node_oid' = mib.base \o w /\ instance_oid' = <<>>
    BY <1>1, <1>9, <1>12 DEF LevelDown
  <2>2. QED
    BY <1>1, <1>2, <1>10, <1>12, <2>1 DEF SearchOkNext, SearchOk
<1>13. QED
  BY <1>11, <1>12

\* Where a search is at a leaf node, and what its next instance is.
AtInstance(p, n, r) ==
  /\ mibs \in MibSets /\ mib \in mibs /\ start_oid \in OID /\ mib.base \in OID
  /\ StartOk(Sought, oid, mib, start_oid) /\ SoughtIn(mib) \in SUBSET InstancesOf(mib)
  /\ p \in DOMAIN mib.leaves /\ p \in Seq(0 .. MaxArc - 1) /\ p \in OID /\ n \in OID /\ r \in OID
  /\ n = mib.base \o p /\ n = node_oid /\ r = instance_oid /\ Leaf = mib.leaves[p]
  /\ start_oid = n \o r \/ OidLess(start_oid, n \o r)
  /\ \A o \in SoughtIn(mib) : OidLess(n \o r, o)
  /\ NextOfNode(SoughtIn(mib), mib, start_oid, p, n, NextInstance(Leaf, r))

\* A search at a leaf node has such a place.
LEMMA AtInstanceFacts ==
  ASSUME Walking, pc = "instance"
  PROVE  \E p, n, r : AtInstance(p, n, r)
<1>1. /\ mibs \in MibSets /\ mib \in mibs /\ start_oid \in OID /\ NoLargestArc(mibs)
      /\ StartOk(Sought, oid, mib, start_oid) /\ SoughtIn(mib) \in SUBSET InstancesOf(mib)
      /\ InstanceOk(SoughtIn(mib), mib, start_oid, node_oid, instance_oid) /\ mib.base \in OID
  BY WalkingFacts, BaseFacts DEF SearchOk, Searching
<1>2. PICK p \in DOMAIN mib.leaves :
        /\ node_oid = mib.base \o p /\ Regular(mib.leaves[p], instance_oid)
        /\ start_oid = node_oid \o instance_oid \/ OidLess(start_oid, node_oid \o instance_oid)
        /\ \A o \in SoughtIn(mib) : OidLess(node_oid \o instance_oid, o)
  BY <1>1 DEF InstanceOk
<1>3. /\ p \in Seq(0 .. MaxArc - 1) /\ p \in OID
      /\ mib.leaves[p].cols \subseteq 0 .. MaxArc - 1
  BY <1>1, MibFacts DEF NoLargestArc
<1>4. PICK n \in OID : n = mib.base \o p /\ n = node_oid
  BY <1>1, <1>2, <1>3, Concat
<1>5. Relative(mib, node_oid) = p
  <2>1. SubSeq(mib.base \o p, Len(mib.base) + 1, Len(mib.base \o p)) = p
    BY <1>1, <1>3, Behind
  <2>2. QED
    BY <1>2, <2>1 DEF Relative
<1>6. Leaf = mib.leaves[p]
  BY <1>5 DEF Leaf
<1>7. PICK r \in OID : r = instance_oid
  BY <1>2 DEF Regular
<1>9. /\ Regular(mib.leaves[p], r)
      /\ start_oid = n \o r \/ OidLess(start_oid, n \o r)
      /\ \A o \in SoughtIn(mib) : OidLess(n \o r, o)
  BY <1>2, <1>4, <1>7
<1>10. NextOfNode(SoughtIn(mib), mib, start_oid, p, n, NextInstance(mib.leaves[p], r))
  BY <1>1, <1>3, <1>4, <1>9, NextInstanceHere
<1>11. AtInstance(p, n, r)
  BY <1>1, <1>2, <1>3, <1>4, <1>6, <1>7, <1>9, <1>10 DEF AtInstance
<1>12. QED
  BY <1>11

\* The next instance is what is looked for, or is passed over.
LEMMA InstanceFoundStep == Walking /\ InstanceFound => SearchOkNext
<1> SUFFICES ASSUME Walking, InstanceFound
             PROVE  SearchOkNext
  OBVIOUS
<1>1. pc = "instance" /\ mib' = mib /\ start_oid' = start_oid /\ pc \in Searching
  BY DEF InstanceFound, Searching
<1>2. PICK p, n, r : AtInstance(p, n, r)
  BY <1>1, AtInstanceFacts
<1>3. PICK inst : inst = NextInstance(Leaf, r)
  OBVIOUS
<1>4. /\ n = node_oid /\ r = instance_oid /\ n = mib.base \o p /\ p \in DOMAIN mib.leaves
      /\ StartOk(Sought, oid, mib, start_oid) /\ start_oid \in OID /\ mibs \in MibSets
      /\ oid \in OID /\ mib \in mibs
  BY <1>2 DEF AtInstance, Walking, WithinInv
<1>5. /\ inst # NoInstance /\ instance_oid' = inst
      /\ IF n \o inst \in valid THEN node_oid' = n \o inst /\ pc' = "between"
                                ELSE node_oid' = n /\ pc' = "refused"
  BY <1>1, <1>3, <1>4 DEF InstanceFound
<1>6. PICK x \in OID : /\ x = n \o inst /\ x \in InstancesOf(mib) /\ OidLess(start_oid, x)
                       /\ \A o \in SoughtIn(mib) : ~OidLess(o, x)
                       /\ Regular(mib.leaves[p], inst)
  BY <1>2, <1>3, <1>5 DEF AtInstance, NextOfNode
<1>7. CASE x \in valid
  <2>1. OidLess(oid, x)
    BY <1>4, <1>6, LessTransitive DEF StartOk
  <2>2. x \in SoughtIn(mib)
    BY <1>6, <1>7, <2>1 DEF SoughtIn, Sought
  <2>3. pc' = "between" /\ node_oid' = x
    BY <1>5, <1>6, <1>7
  <2>4. QED
    BY <1>1, <1>4, <1>6, <2>2, <2>3 DEF SearchOkNext, SearchOk
<1>8. CASE x \notin valid
  <2>1. pc' = "refused" /\ node_oid' = n
    BY <1>5, <1>6, <1>8
  <2>2. ASSUME NEW o \in SoughtIn(mib)
        PROVE  OidLess(x, o)
    <3>1. o # x
      BY <1>8 DEF SoughtIn, Sought
    <3>2. o \in OID /\ ~OidLess(o, x)
      BY <1>4, <1>6, InstanceParts DEF SoughtIn, Parts
    <3>3. QED
      BY <3>1, <3>2, LessTotal
  <2>3. InstanceOk(SoughtIn(mib), mib, start_oid, n, inst)
    BY <1>4, <1>6, <2>2 DEF InstanceOk
  <2>4. QED
    BY <1>1, <1>4, <1>5, <2>1, <2>3 DEF SearchOkNext, SearchOk
<1>9. QED
  BY <1>7, <1>8

\* An instance that was refused is released, and the search stays where it is.
LEMMA RefuseInstanceStep == Walking /\ RefuseInstance => SearchOkNext
<1> SUFFICES ASSUME Walking, RefuseInstance
             PROVE  SearchOkNext
  OBVIOUS
<1>1. /\ pc = "refused" /\ pc' = "instance" /\ mib' = mib /\ start_oid' = start_oid
      /\ node_oid' = node_oid /\ instance_oid' = instance_oid
  BY DEF RefuseInstance
<1>2. /\ SearchOk(pc, mib, start_oid, node_oid, instance_oid, node_stack, subnode_oid)
      /\ StartOk(Sought, oid, mib, start_oid)
  BY <1>1, WalkingFacts DEF Searching
<1>3. QED
  BY <1>1, <1>2 DEF SearchOkNext, SearchOk

\* The node has no further instance: on behind it.
LEMMA NodeExhaustedStep == Walking /\ NodeExhausted => SearchOkNext
<1> SUFFICES ASSUME Walking, NodeExhausted
             PROVE  SearchOkNext
  OBVIOUS
<1>1. /\ pc = "instance" /\ mib' = mib /\ start_oid' = start_oid /\ pc \in Searching
      /\ ResolveNext(node_oid)
  BY DEF NodeExhausted, Searching
<1>2. PICK p, n, r : AtInstance(p, n, r)
  BY <1>1, AtInstanceFacts
<1>3. /\ p \in DOMAIN mib.leaves /\ p \in Seq(0 .. MaxArc - 1) /\ p \in OID /\ n \in OID /\ r \in OID
      /\ n = mib.base \o p /\ n = node_oid /\ r = instance_oid
      /\ mibs \in MibSets /\ mib \in mibs
  BY <1>2 DEF AtInstance
<1>4. NextInstance(Leaf, r) = NoInstance
  BY <1>3 DEF NodeExhausted
<1>5. \A o \in SoughtIn(mib) : ~IsPrefix(n, o)
  BY <1>2, <1>4 DEF AtInstance, NextOfNode
<1>6. PICK x \in OID : /\ x = n \o r /\ IsPrefix(n, x)
                       /\ start_oid = x \/ OidLess(start_oid, x)
                       /\ \A o \in SoughtIn(mib) : OidLess(x, o)
  <2>1. PICK x \in OID : x = n \o r /\ IsPrefix(n, x)
    BY <1>3, Concat
  <2>2. /\ start_oid = n \o r \/ OidLess(start_oid, n \o r)
        /\ \A o \in SoughtIn(mib) : OidLess(n \o r, o)
    BY <1>2 DEF AtInstance
  <2>3. QED
    BY <2>1, <2>2
<1>7. ASSUME NEW q \in DOMAIN mib.leaves, IsPrefix(q, p)
      PROVE  q = p
  BY <1>3, <1>7, LeavesApart
<1>8. \A q \in DOMAIN mib.leaves : IsPrefix(q, p) =>
         \A h \in SoughtIn(mib) : ~IsPrefix(mib.base \o q, h)
  BY <1>3, <1>5, <1>7
<1>9. p \notin mib.trees
  BY <1>3, MibFacts
<1>10. ResolveNext(mib.base \o p) /\ IsPrefix(mib.base \o p, x)
  BY <1>1, <1>3, <1>6
<1>11. QED
  BY <1>1, <1>3, <1>6, <1>8, <1>9, <1>10, ResolvedOk

\* Another MIB may begin between the starting point and the instance.
LEMMA CheckBetweenStep == Walking /\ CheckBetween => SearchOkNext
<1> SUFFICES ASSUME Walking, CheckBetween
             PROVE  SearchOkNext
  OBVIOUS
<1>1. pc = "between" /\ pc \in Searching /\ node_oid' = node_oid
  BY DEF CheckBetween, Searching
<1>2. /\ mibs \in MibSets /\ Apart(mibs) /\ NoLargestArc(mibs) /\ mib \in mibs
      /\ start_oid \in OID /\ IsPrefix(mib.base, start_oid) /\ oid \in OID
      /\ Sought \in SUBSET Instances /\ StartOk(Sought, oid, mib, start_oid)
      /\ node_oid \in SoughtIn(mib) /\ \A o \in SoughtIn(mib) : ~OidLess(o, node_oid)
  BY <1>1, WalkingFacts DEF SearchOk
<1>3. PICK t \in Sought : t = node_oid /\ t \in InstancesOf(mib)
  BY <1>2 DEF SoughtIn
<1>4. \A o \in Sought : o \in InstancesOf(mib) => ~OidLess(o, t)
  BY <1>2, <1>3 DEF SoughtIn
<1>5. IF NextMib(start_oid) # NoMib /\ OidLess(NextMib(start_oid).base, t)
      THEN StartOk(Sought, oid, NextMib(start_oid), NextMib(start_oid).base)
      ELSE \A o \in Sought : ~OidLess(o, t)
  BY <1>2, <1>3, <1>4, BetweenFacts
<1>6. CASE NextMib(start_oid) # NoMib /\ OidLess(NextMib(start_oid).base, t)
  <2>1. MibBetween(start_oid, node_oid) = NextMib(start_oid)
    BY <1>3, <1>6 DEF MibBetween
  <2>2. mib' = NextMib(start_oid) /\ pc' = "mib" /\ start_oid' = NextMib(start_oid).base
    BY <1>6, <2>1 DEF CheckBetween, EnterMib
  <2>3. StartOk(Sought, oid, mib', start_oid')
    BY <1>5, <1>6, <2>2
  <2>4. QED
    BY <2>2, <2>3 DEF SearchOkNext, SearchOk
<1>7. CASE ~(NextMib(start_oid) # NoMib /\ OidLess(NextMib(start_oid).base, t))
  <2>1. MibBetween(start_oid, node_oid) = NoMib
    BY <1>3, <1>7 DEF MibBetween
  <2>2. pc' = "found"
    BY <2>1 DEF CheckBetween
  <2>3. node_oid \in Sought /\ \A o \in Sought : ~OidLess(o, node_oid)
    BY <1>3, <1>5, <1>7
  <2>4. QED
    BY <1>1, <2>2, <2>3 DEF SearchOkNext, SearchOk, Searching
<1>8. QED
  BY <1>6, <1>7

\* Nothing is left in the MIB.
LEMMA LeaveMibStep == Walking /\ LeaveMib => SearchOkNext
<1> SUFFICES ASSUME Walking, LeaveMib
             PROVE  SearchOkNext
  OBVIOUS
<1>1. pc = "noNode" /\ pc \in Searching /\ WithinInv
  BY DEF LeaveMib, Searching, Walking
<1>2. /\ mibs \in MibSets /\ Apart(mibs) /\ NoLargestArc(mibs) /\ mib \in mibs
      /\ start_oid \in OID /\ IsPrefix(mib.base, start_oid) /\ oid \in OID
      /\ Sought \in SUBSET Instances /\ StartOk(Sought, oid, mib, start_oid)
      /\ Sought \cap InstancesOf(mib) = {} /\ mib.base \in OID /\ Len(mib.base) \in Nat \ {0}
  BY <1>1, WalkingFacts, BaseFacts DEF SearchOk, SoughtIn
<1>3. ASSUME EnterMib(NextMib(start_oid)),
             IF NextMib(start_oid) = NoMib THEN Sought = {}
             ELSE StartOk(Sought, oid, NextMib(start_oid), NextMib(start_oid).base)
      PROVE  SearchOkNext
  BY <1>3 DEF EnterMib, SearchOkNext, SearchOk, Searching
<1>4. CASE NextMibNested
  <2>1. NextMib(start_oid) # NoMib /\ IsPrefix(mib.base, NextMib(start_oid).base)
    BY <1>4 DEF NextMibNested, IsStrictPrefix
  <2>2. StartOk(Sought, oid, NextMib(start_oid), NextMib(start_oid).base)
    BY <1>2, <2>1, NestedFacts
  <2>3. EnterMib(NextMib(start_oid))
    BY <1>4 DEF LeaveMib
  <2>4. QED
    BY <1>3, <2>1, <2>2, <2>3
<1>5. CASE ~NextMibNested /\ Len(mib.base) = 1
  <2>1. pc' = "mib" /\ mib' = mib /\ start_oid' = start_oid
    BY <1>5 DEF LeaveMib
  <2>2. QED
    BY <1>2, <2>1 DEF SearchOkNext, SearchOk
<1>6. CASE ~NextMibNested /\ Len(mib.base) # 1 /\ Surrounding # NoMib
  <2>1. mib' = Surrounding /\ pc' = "mib" /\ start_oid' = start_oid
    BY <1>6 DEF LeaveMib
  <2>2. PICK z \in mibs :
          /\ z = Surrounding /\ IsPrefix(z.base, start_oid) /\ Len(z.base) < Len(mib.base)
          /\ \A n \in mibs : IsPrefix(n.base, start_oid) /\ Len(n.base) < Len(mib.base)
               => Len(n.base) <= Len(z.base)
    BY <1>1, <1>6, SurroundingFacts
  <2>3. StartOk(Sought, oid, z, start_oid)
    BY <1>2, <2>2, SurroundingStart
  <2>4. QED
    BY <2>1, <2>2, <2>3 DEF SearchOkNext, SearchOk
<1>7. CASE ~NextMibNested /\ Len(mib.base) # 1 /\ Surrounding = NoMib
  <2>1. \A n \in mibs : IsPrefix(n.base, start_oid) => ~(Len(n.base) < Len(mib.base))
    BY <1>1, <1>7, NoSurrounding
  <2>2. IF NextMib(start_oid) = NoMib THEN Sought = {}
        ELSE StartOk(Sought, oid, NextMib(start_oid), NextMib(start_oid).base)
    BY <1>2, <2>1, NextStart
  <2>3. EnterMib(NextMib(start_oid))
    BY <1>7 DEF LeaveMib
  <2>4. QED
    BY <1>3, <2>2, <2>3
<1>8. QED
  BY <1>4, <1>5, <1>6, <1>7

\* A sequence is one of any set its elements are in.
LEMMA SeqOfElements ==
  ASSUME NEW S, NEW T, NEW s \in Seq(S), \A i \in 1 .. Len(s) : s[i] \in T
  PROVE  s \in Seq(T)
OBVIOUS

\* An OID without the largest arc.
LEMMA OrdinaryOid ==
  ASSUME NEW s \in Seq(0 .. MaxArc), MaxArc \notin ToSet(s)
  PROVE  s \in Seq(0 .. MaxArc - 1)
<1>1. MaxArc \in Nat \ {0}
  BY ConstantsAssumption DEF ConstantsAssumption
<1>2. ASSUME NEW i \in 1 .. Len(s)
      PROVE  s[i] \in 0 .. MaxArc - 1
  <2>1. s[i] \in 0 .. MaxArc
    BY ElementOfSeq
  <2>2. s[i] \in ToSet(s)
    <3>1. DOMAIN s = 1 .. Len(s)
      OBVIOUS
    <3>2. QED
      BY <3>1 DEF ToSet
  <2>3. \A a \in 0 .. MaxArc : a # MaxArc => a \in 0 .. MaxArc - 1
    BY <1>1
  <2>4. QED
    BY <2>1, <2>2, <2>3
<1>3. QED
  BY <1>2, SeqOfElements

\* A step that does not go on with the search changes nothing it is about.
LEMMA SameSearch ==
  ASSUME UNCHANGED request, SearchOkNext
  PROVE  SearchOk(pc, mib, start_oid, node_oid, instance_oid, node_stack, subnode_oid)'
BY DEF SearchOkNext, SearchOk, StartOk, Sought, SoughtIn, request

\* What is asked for does not change.
LEMMA SameRequest ==
  ASSUME UNCHANGED request
  PROVE  /\ Walk' = Walk /\ Instances' = Instances
         /\ valid' = valid /\ mibs' = mibs /\ oid' = oid
<1>1. mibs' = mibs /\ valid' = valid /\ op' = op /\ oid' = oid
  BY DEF request
<1>2. MibFromOid(oid)' = MibFromOid(oid)
  BY <1>1 DEF MibFromOid
<1>3. RowWithoutColumn' = RowWithoutColumn
  BY <1>1, <1>2 DEF RowWithoutColumn
<1>4. Walk' = Walk
  BY <1>1, <1>3 DEF Walk
<1>5. Instances' = Instances
  BY <1>1 DEF Instances
<1>6. QED
  BY <1>1, <1>4, <1>5

\* Every step of a search for GETNEXT keeps to the order of the instances.
LEMMA WalkInvStep ==
  ASSUME \A set \in MibSets : Apart(set) /\ NoLargestArc(set)
  PROVE  WithinInv /\ WalkInv /\ [Next]_vars => WalkInv'
<1> SUFFICES ASSUME WithinInv, WalkInv, [Next]_vars
             PROVE  WalkInv'
  OBVIOUS
<1>1. UNCHANGED request
  BY DEF Next, vars, Get, GetNext, ResolveExact, SearchNode, LevelUp, LevelDown,
         InstanceFound, RefuseInstance, NodeExhausted, CheckBetween, LeaveMib
<1>2. /\ Walk' = Walk /\ Instances' = Instances
      /\ valid' = valid /\ mibs' = mibs /\ oid' = oid
  BY <1>1, SameRequest
<1>3. valid' \subseteq Instances' /\ oid' \in Seq(0 .. MaxArc)
  BY <1>2 DEF WalkInv
<1>4. ASSUME Walk, pc' # "start"
      PROVE  SearchOkNext
  <2>1. Walking
    <3>1. MaxArc \notin ToSet(oid) /\ oid \in Seq(0 .. MaxArc)
      BY <1>4 DEF Walk, WalkInv
    <3>2. oid \in Seq(0 .. MaxArc - 1)
      BY <3>1, OrdinaryOid
    <3>3. mibs \in MibSets
      BY DEF WithinInv
    <3>4. QED
      BY <1>4, <3>2, <3>3 DEF Walking, WalkInv
  <2>2. CASE Get
    BY <1>4, <2>2 DEF Get, Walk
  <2>3. CASE GetNext
    BY <2>1, <2>3, GetNextStep
  <2>4. CASE ResolveExact
    BY <2>1, <2>4, ResolveExactStep
  <2>5. CASE SearchNode
    BY <2>1, <2>5, SearchNodeStep
  <2>6. CASE LevelUp
    BY <2>1, <2>6, LevelUpStep
  <2>7. CASE LevelDown
    BY <2>1, <2>7, LevelDownStep
  <2>8. CASE InstanceFound
    BY <2>1, <2>8, InstanceFoundStep
  <2>8r. CASE RefuseInstance
    BY <2>1, <2>8r, RefuseInstanceStep
  <2>9. CASE NodeExhausted
    BY <2>1, <2>9, NodeExhaustedStep
  <2>10. CASE CheckBetween
    BY <2>1, <2>10, CheckBetweenStep
  <2>11. CASE LeaveMib
    BY <2>1, <2>11, LeaveMibStep
  <2>12. CASE UNCHANGED vars
    <3>1. /\ pc' = pc /\ mib' = mib /\ start_oid' = start_oid /\ node_oid' = node_oid
          /\ instance_oid' = instance_oid /\ node_stack' = node_stack
          /\ subnode_oid' = subnode_oid
      BY <2>12 DEF vars, resolving
    <3>2. SearchOk(pc, mib, start_oid, node_oid, instance_oid, node_stack, subnode_oid)
      BY <1>4, <2>1, <3>1 DEF Walking
    <3>3. QED
      BY <3>1, <3>2 DEF SearchOkNext
  <2>13. QED
    BY <2>2, <2>3, <2>4, <2>5, <2>6, <2>7, <2>8, <2>8r, <2>9, <2>10, <2>11, <2>12 DEF Next
<1>5. ASSUME Walk', pc' # "start"
      PROVE  SearchOk(pc, mib, start_oid, node_oid, instance_oid, node_stack, subnode_oid)'
  <2>1. SearchOkNext
    BY <1>2, <1>4, <1>5
  <2>2. QED
    BY <1>1, <2>1, SameSearch
<1>6. QED
  BY <1>3, <1>5 DEF WalkInv

\* What a search that has not overtaken anything ends with.
LEMMA WalkEnds ==
  ASSUME WithinInv, WalkInv
  PROVE  GetNextIsNextOnWalk
<1>1. SUFFICES ASSUME Walk
               PROVE  GetNextIsNext
  BY DEF GetNextIsNextOnWalk, GetNextIsNext, Walk
<1>2. Sought \in SUBSET OID
  BY SoughtFacts DEF WithinInv, WalkInv
<1>3. pc = "notFound" => Sought = {}
  BY <1>1 DEF WalkInv, SearchOk
<1>4. ASSUME pc = "found"
      PROVE  Sought # {} /\ node_oid = Least(Sought)
  <2>1. node_oid \in Sought /\ \A o \in Sought : ~OidLess(o, node_oid)
    BY <1>1, <1>4 DEF WalkInv, SearchOk
  <2>2. \A o \in Sought \ {node_oid} : OidLess(node_oid, o)
    BY <1>2, <2>1, LessTotal
  <2>3. Least(Sought) = node_oid
    BY <1>2, <2>1, <2>2, LeastIs
  <2>4. QED
    BY <2>1, <2>3
<1>5. QED
  BY <1>3, <1>4 DEF GetNextIsNext, Sought

\* When the MIBs are apart and none uses the largest arc, GETNEXT returns the first
\* acceptable instance behind the OID asked for, in whichever MIB that is, and none only
\* when there is none, for every OID that occurs on a walk
\* (snmp_get_next_node_instance_from_oid()).
THEOREM GetNextFindsNext ==
  ASSUME \A set \in MibSets : Apart(set) /\ NoLargestArc(set)
  PROVE  Spec => []GetNextIsNextOnWalk
<1>1. Init => WithinInv /\ WalkInv
  <2>1. \A o \in Oids : o \in OID /\ o \in Seq(0 .. MaxArc)
    BY ConstantsAssumption DEF ConstantsAssumption, OID
  <2>2. Init => valid \subseteq Instances
    BY DEF Init
  <2>3. QED
    BY <2>1, <2>2 DEF Init, WithinInv, Searching, WalkInv
<1>2. WithinInv /\ WalkInv => GetNextIsNextOnWalk
  BY WalkEnds
<1>3. WithinInv /\ WalkInv /\ [Next]_vars => WalkInv'
  BY WalkInvStep
<1>4. QED
  BY <1>1, <1>2, <1>3, WithinInvStep, PTL DEF Spec
=============================================================================
