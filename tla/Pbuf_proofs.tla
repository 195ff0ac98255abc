---------------------------- MODULE Pbuf_proofs ----------------------------
(***************************************************************************)
(* For all sizes of the pool and of memory, any number of pbufs and        *)
(* pointers, and any order of the calls: the reference counts are the      *)
(* pointers there are, and tot_len is the length of each chain.            *)
(***************************************************************************)
EXTENDS PbufStream, TLAPS, FiniteSetTheorems, SequenceTheorems, WellFoundedInduction

-----------------------------------------------------------------------------
(* Numbers and sequences.                                                  *)

\* Induction over the numbers up to m, for a set of numbers.
LEMMA CountingUp ==
  ASSUME NEW m \in Nat, NEW P, 0 \in P, \A n \in 0 .. m - 1 : n \in P => n + 1 \in P
  PROVE  \A n \in 0 .. m : n \in P
<1> DEFINE R == {ss \in Nat \X Nat : ss[1] < ss[2]}
           Others == {n \in 0 .. m : n \notin P}
<1>1. SUFFICES ASSUME Others # {}
               PROVE  FALSE
  OBVIOUS
<1>2. IsWellFoundedOn(R, Nat)
  BY NatLessThanWellFounded, Zenon DEF OpToRel
<1>3. Others \in SUBSET Nat
  OBVIOUS
<1>4. \E x \in Others : \A y \in Others : ~ (<<y, x>> \in R)
  <2> HIDE DEF Others
  <2>1. QED
    BY <1>1, <1>2, <1>3, WFMin
<1>5. \A x \in Nat, y \in Nat : <<y, x>> \in R <=> y < x
  OBVIOUS
<1>6. PICK x \in Others : \A y \in Others : ~ (y < x)
  BY <1>3, <1>4, <1>5
<1>7. x # 0 /\ x - 1 \in 0 .. m - 1 /\ x - 1 \notin Others
  BY <1>6
<1>8. QED
  BY <1>6, <1>7

\* A nonempty set of numbers has a least one.
LEMMA LeastExists ==
  ASSUME NEW S \in SUBSET Nat, S # {}
  PROVE  \E i \in S : \A j \in S : i <= j
<1> DEFINE R == {ss \in Nat \X Nat : ss[1] < ss[2]}
<1>1. IsWellFoundedOn(R, Nat)
  BY NatLessThanWellFounded, Zenon DEF OpToRel
<1>2. \E x \in S : \A y \in S : ~ (<<y, x>> \in R)
  BY <1>1, WFMin
<1>3. \A x \in Nat, y \in Nat : <<y, x>> \in R <=> y < x
  OBVIOUS
<1>4. PICK x \in S : \A y \in S : ~ (y < x)
  BY <1>2, <1>3
<1>5. QED
  BY <1>4

\* What LeastOf returns.
LEMMA LeastOfIs ==
  ASSUME NEW S \in SUBSET Nat, NEW none
  PROVE  IF S = {} THEN LeastOf(S, none) = none
         ELSE LeastOf(S, none) \in S /\ \A j \in S : LeastOf(S, none) <= j
BY LeastExists DEF LeastOf

\* A sequence with another element in front.
LEMMA InFront ==
  ASSUME NEW A, NEW s \in Seq(A), NEW q \in A
  PROVE  /\ <<q>> \o s \in Seq(A) /\ Len(<<q>> \o s) = Len(s) + 1
         /\ (<<q>> \o s)[1] = q
         /\ \A i \in 1 .. Len(s) : (<<q>> \o s)[i + 1] = s[i]
OBVIOUS

-----------------------------------------------------------------------------
(* Heaps.                                                                  *)

\* A struct pbuf.
IsPbuf(b) ==
  /\ b = [contiguous |-> b.contiguous, mem |-> b.mem, payload |-> b.payload,
          tot_len |-> b.tot_len, len |-> b.len, next |-> b.next, ref |-> b.ref]
  /\ b.payload \in Nat /\ b.len \in Nat /\ b.tot_len \in 0 .. Width - 1 /\ b.ref \in Nat

\* No pbufs lead around in a circle.
Grounded(H) == \A S \in SUBSET DOMAIN H : S # {} => \E q \in S : H[q].next \notin S

\* Pbufs in memory, in chains that end.
Linked(H) ==
  /\ DOMAIN H \subseteq Addresses
  /\ \A q \in DOMAIN H : IsPbuf(H[q]) /\ H[q].next \in DOMAIN H \cup {NULL}
  /\ Grounded(H)

\* The reference counts are right, if h are the pointers of users.
Counted(H, h) ==
  /\ h \in [Addresses -> Nat]
  /\ \A p \in DOMAIN H : H[p].ref = h[p] + Cardinality(LinksTo(H, p)) /\ H[p].ref > 0
  /\ \A p \in Addresses \ DOMAIN H : h[p] = 0

\* The lengths of pbufs add up.
Summed(H) ==
  \A q \in DOMAIN H :
    H[q].tot_len = H[q].len + (IF H[q].next = NULL THEN 0 ELSE H[H[q].next].tot_len)

-----------------------------------------------------------------------------
(* Chains.                                                                 *)

\* f are the chains that start in a part of a heap.
Unfolds(H, D, f) ==
  f = [q \in D \cup {NULL} |-> IF q = NULL THEN <<>> ELSE <<q>> \o f[H[q].next]]

\* Where two parts overlap they have the same chains.
LEMMA SameChains ==
  ASSUME NEW H, Linked(H), NEW D \in SUBSET DOMAIN H, NEW E \in SUBSET DOMAIN H,
         \A q \in D : H[q].next \in D \cup {NULL}, \A q \in E : H[q].next \in E \cup {NULL},
         NEW f, NEW g, Unfolds(H, D, f), Unfolds(H, E, g)
  PROVE  \A q \in D \cap E : f[q] = g[q]
<1> DEFINE S == {q \in D \cap E : f[q] # g[q]}
<1>1. SUFFICES ASSUME S # {}
               PROVE  FALSE
  OBVIOUS
<1>2. PICK q \in S : H[q].next \notin S
  BY <1>1 DEF Linked, Grounded
<1>3. NULL \notin D
  BY ConstantsAssumption DEF Linked, ConstantsAssumption
<1>4. f[NULL] = <<>> /\ g[NULL] = <<>>
  BY DEF Unfolds
<1>5. f[H[q].next] = g[H[q].next]
  BY <1>2, <1>4, SMTT(30)
<1>6. f[q] = <<q>> \o f[H[q].next] /\ g[q] = <<q>> \o g[H[q].next]
  <2>1. q \in D /\ q \in E /\ q # NULL
    BY <1>3
  <2>2. QED
    BY <2>1 DEF Unfolds
<1>7. QED
  BY <1>5, <1>6

\* A part of a heap that holds what its pbufs lead to, with its chains.
Part(H, D, f) ==
  /\ D \subseteq DOMAIN H /\ \A q \in D : H[q].next \in D \cup {NULL}
  /\ Unfolds(H, D, f)

\* Each pbuf is in such a part.
LEMMA PartsExist ==
  ASSUME NEW H, Linked(H)
  PROVE  \A q \in DOMAIN H : \E D, f : q \in D /\ Part(H, D, f)
<1> DEFINE In(q) == \E D, f : q \in D /\ Part(H, D, f)
           S == {q \in DOMAIN H : ~ In(q)}
<1>1. SUFFICES ASSUME S # {}
               PROVE  FALSE
  OBVIOUS
<1>2. PICK q \in S : H[q].next \notin S
  BY <1>1 DEF Linked, Grounded
<1>3. q # NULL /\ q \in DOMAIN H /\ NULL \notin DOMAIN H
  BY ConstantsAssumption DEF Linked, ConstantsAssumption
<1>4. \E D, f : H[q].next \in D \cup {NULL} /\ Part(H, D, f)
  <2>1. CASE H[q].next = NULL
    <3> DEFINE f == [x \in {} \cup {NULL} |-> <<>>]
    <3>1. f = [x \in {} \cup {NULL} |-> IF x = NULL THEN <<>> ELSE <<x>> \o f[H[x].next]]
      OBVIOUS
    <3>2. Part(H, {}, f)
      BY <3>1 DEF Part, Unfolds
    <3>3. QED
      BY <2>1, <3>2
  <2>2. CASE H[q].next # NULL
    <3>1. H[q].next \in DOMAIN H
      BY <1>3, <2>2 DEF Linked
    <3>2. In(H[q].next)
      BY <1>2, <3>1
    <3>3. QED
      BY <3>2
  <2>3. QED
    BY <2>1, <2>2
<1>5. PICK D, f : H[q].next \in D \cup {NULL} /\ Part(H, D, f)
  BY <1>4
<1>6. q \notin D
  BY <1>2, <1>5
<1> DEFINE g == [x \in D \cup {q} \cup {NULL} |-> IF x = q THEN <<q>> \o f[H[q].next] ELSE f[x]]
<1>7. \A x \in D \cup {q} \cup {NULL} :
        g[x] = IF x = NULL THEN <<>> ELSE <<x>> \o g[H[x].next]
  <2>1. f[NULL] = <<>>
    BY <1>5 DEF Part, Unfolds
  <2>2. g[NULL] = <<>>
    BY <1>3, <2>1
  <2>3. g[q] = <<q>> \o g[H[q].next]
    <3>1. g[H[q].next] = f[H[q].next]
      BY <1>2, <1>5
    <3>2. QED
      BY <3>1
  <2>4. ASSUME NEW x \in D
        PROVE  g[x] = IF x = NULL THEN <<>> ELSE <<x>> \o g[H[x].next]
    <3>1. H[x].next \in D \cup {NULL} /\ f[x] = IF x = NULL THEN <<>> ELSE <<x>> \o f[H[x].next]
      BY <1>5 DEF Part, Unfolds
    <3>2. g[x] = f[x] /\ g[H[x].next] = f[H[x].next]
      BY <1>3, <1>6, <3>1
    <3>3. QED
      BY <3>1, <3>2
  <2> HIDE DEF g
  <2>5. QED
    BY <1>3, <2>2, <2>3, <2>4
<1>8. Unfolds(H, D \cup {q}, g)
  <2>1. g = [x \in D \cup {q} \cup {NULL} |-> g[x]]
    OBVIOUS
  <2> HIDE DEF g
  <2>2. QED
    BY <1>7, <2>1 DEF Unfolds
<1>9. Part(H, D \cup {q}, g)
  BY <1>3, <1>5, <1>8 DEF Part
<1>10. QED
  BY <1>9

\* The parts together are the heap.
LEMMA ChainsExist ==
  ASSUME NEW H, Linked(H)
  PROVE  \E f : Unfolds(H, DOMAIN H, f)
<1> DEFINE In(q, s) == \E D, f : q \in D /\ Part(H, D, f) /\ s = f[q]
           F == [q \in DOMAIN H \cup {NULL} |-> IF q = NULL THEN <<>> ELSE CHOOSE s : In(q, s)]
<1>1. NULL \notin DOMAIN H
  BY ConstantsAssumption DEF Linked, ConstantsAssumption
<1>2. ASSUME NEW D, NEW f, Part(H, D, f), NEW q \in D
      PROVE  F[q] = f[q]
  <2>1. In(q, f[q])
    BY <1>2
  <2>2. In(q, CHOOSE s : In(q, s))
    BY <2>1
  <2>3. PICK E, g : q \in E /\ Part(H, E, g) /\ (CHOOSE s : In(q, s)) = g[q]
    BY <2>2
  <2>4. f[q] = g[q]
    BY <1>2, <2>3, SameChains DEF Part
  <2>5. q \in DOMAIN H /\ q # NULL
    BY <1>1, <1>2 DEF Part
  <2>6. QED
    BY <2>3, <2>4, <2>5
<1>3. F[NULL] = <<>>
  OBVIOUS
<1> HIDE DEF F
<1>4. ASSUME NEW q \in DOMAIN H
      PROVE  F[q] = <<q>> \o F[H[q].next]
  <2>1. PICK D, f : q \in D /\ Part(H, D, f)
    BY PartsExist
  <2>2. F[q] = f[q] /\ F[H[q].next] = f[H[q].next]
    <3>1. H[q].next \in D \cup {NULL} /\ f[NULL] = <<>>
      BY <2>1 DEF Part, Unfolds
    <3>2. QED
      BY <1>2, <1>3, <2>1, <3>1
  <2>3. f[q] = <<q>> \o f[H[q].next]
    <3>1. q # NULL
      BY <1>1
    <3>2. QED
      BY <2>1, <3>1 DEF Part, Unfolds
  <2>4. QED
    BY <2>2, <2>3
<1>5. F = [q \in DOMAIN H \cup {NULL} |-> F[q]]
  BY DEF F
<1>6. \A q \in DOMAIN H \cup {NULL} : F[q] = IF q = NULL THEN <<>> ELSE <<q>> \o F[H[q].next]
  BY <1>1, <1>3, <1>4
<1>7. Unfolds(H, DOMAIN H, F)
  BY <1>5, <1>6 DEF Unfolds
<1>8. QED
  BY <1>7

\* The chain of a pbuf is the pbuf and the chain of the next one.
LEMMA ChainStep ==
  ASSUME NEW H, Linked(H)
  PROVE  /\ Chain(H, NULL) = <<>>
         /\ \A q \in DOMAIN H : Chain(H, q) = <<q>> \o Chain(H, H[q].next)
<1> DEFINE f == CHOOSE f : Unfolds(H, DOMAIN H, f)
<1>1. Unfolds(H, DOMAIN H, f)
  BY ChainsExist
<1>2. \A q : Chain(H, q) = f[q]
  BY DEF Chain, Unfolds
<1> HIDE DEF f
<1>3. NULL \notin DOMAIN H /\ \A q \in DOMAIN H : H[q].next \in DOMAIN H \cup {NULL}
  BY ConstantsAssumption DEF Linked, ConstantsAssumption
<1>4. f[NULL] = <<>> /\ \A q \in DOMAIN H : f[q] = <<q>> \o f[H[q].next]
  BY <1>1, <1>3 DEF Unfolds
<1>5. QED
  BY <1>2, <1>4

\* What a chain is: linked from its head to its end, and each pbuf once.
LinkedFrom(H, p, c) ==
  /\ c \in Seq(DOMAIN H) /\ Len(c) > 0 /\ c[1] = p
  /\ \A i \in 1 .. Len(c) : H[c[i]].next = IF i = Len(c) THEN NULL ELSE c[i + 1]

IsChain(H, p, c) ==
  /\ LinkedFrom(H, p, c)
  /\ \A i \in 1 .. Len(c), j \in 1 .. Len(c) : c[i] = c[j] => i = j

\* A chain is linked from its head to its end.
LEMMA ChainLinks ==
  ASSUME NEW H, Linked(H)
  PROVE  \A p \in DOMAIN H : LinkedFrom(H, p, Chain(H, p))
<1> DEFINE S == {q \in DOMAIN H : ~ LinkedFrom(H, q, Chain(H, q))}
<1>1. SUFFICES ASSUME S # {}
               PROVE  FALSE
  OBVIOUS
<1>2. PICK q \in S : H[q].next \notin S
  BY <1>1 DEF Linked, Grounded
<1>3. q \in DOMAIN H /\ NULL \notin DOMAIN H /\ H[q].next \in DOMAIN H \cup {NULL}
  BY ConstantsAssumption DEF Linked, ConstantsAssumption
<1>4. PICK s : s = Chain(H, H[q].next)
  OBVIOUS
<1>5. Chain(H, q) = <<q>> \o s
  BY <1>3, <1>4, ChainStep
<1>6. CASE H[q].next = NULL
  <2>1. s = <<>>
    BY <1>4, <1>6, ChainStep
  <2>2. <<q>> \o s = <<q>>
    BY <2>1
  <2>3. LinkedFrom(H, q, <<q>>)
    BY <1>3, <1>6 DEF LinkedFrom
  <2>4. QED
    BY <1>2, <1>5, <2>2, <2>3
<1>7. CASE H[q].next # NULL
  <2>1. LinkedFrom(H, H[q].next, s)
    BY <1>2, <1>3, <1>4, <1>7
  <2>2. PICK c : c = <<q>> \o s
    OBVIOUS
  <2>3. /\ c \in Seq(DOMAIN H) /\ Len(c) = Len(s) + 1 /\ c[1] = q
        /\ \A i \in 1 .. Len(s) : c[i + 1] = s[i]
    <3>1. s \in Seq(DOMAIN H) /\ q \in DOMAIN H
      BY <1>3, <2>1 DEF LinkedFrom
    <3> HIDE DEF S
    <3>2. /\ <<q>> \o s \in Seq(DOMAIN H) /\ Len(<<q>> \o s) = Len(s) + 1
          /\ (<<q>> \o s)[1] = q
          /\ \A i \in 1 .. Len(s) : (<<q>> \o s)[i + 1] = s[i]
      BY <3>1, InFront
    <3>3. QED
      BY <2>2, <3>2
  <2>4. Len(s) \in Nat /\ Len(s) > 0
    BY <2>1 DEF LinkedFrom
  <2>5. ASSUME NEW i \in 1 .. Len(c)
        PROVE  H[c[i]].next = IF i = Len(c) THEN NULL ELSE c[i + 1]
    <3>1. CASE i = 1
      <4>1. H[c[i]].next = s[1] /\ c[1 + 1] = s[1] /\ i # Len(c)
        BY <2>1, <2>3, <2>4, <3>1 DEF LinkedFrom
      <4>2. QED
        BY <3>1, <4>1
    <3>2. CASE i # 1
      <4>1. i - 1 \in 1 .. Len(s)
        BY <2>3, <2>4, <3>2
      <4>2. c[(i - 1) + 1] = s[i - 1] /\ (i - 1) + 1 = i
        BY <2>3, <4>1
      <4>3. H[s[i - 1]].next = IF i - 1 = Len(s) THEN NULL ELSE s[(i - 1) + 1]
        BY <2>1, <4>1 DEF LinkedFrom
      <4>4. i - 1 # Len(s) => c[i + 1] = s[i]
        BY <2>3, <2>4, <4>1
      <4>5. QED
        BY <2>3, <2>4, <4>2, <4>3, <4>4
    <3>3. QED
      BY <3>1, <3>2
  <2>6. LinkedFrom(H, q, c)
    BY <2>3, <2>4, <2>5 DEF LinkedFrom
  <2>7. QED
    BY <1>2, <1>5, <2>2, <2>6
<1>8. QED
  BY <1>6, <1>7

\* Chains are chains: one that came back to a pbuf would not end.
LEMMA ChainIs ==
  ASSUME NEW H, Linked(H), NEW p \in DOMAIN H
  PROVE  IsChain(H, p, Chain(H, p))
<1>1. PICK c : c = Chain(H, p)
  OBVIOUS
<1>2. /\ c \in Seq(DOMAIN H) /\ Len(c) > 0 /\ c[1] = p
      /\ \A i \in 1 .. Len(c) : H[c[i]].next = IF i = Len(c) THEN NULL ELSE c[i + 1]
  <2>1. LinkedFrom(H, p, Chain(H, p))
    BY ChainLinks
  <2>2. QED
    BY <1>1, <2>1 DEF LinkedFrom
<1>3. Len(c) \in Nat
  BY <1>2
<1>4. ASSUME NEW i \in 1 .. Len(c), NEW j \in 1 .. Len(c), i < j, c[i] = c[j]
      PROVE  FALSE
  <2> DEFINE S == {c[k] : k \in i .. j - 1}
  <2>1. S \in SUBSET DOMAIN H /\ c[i] \in S
    BY <1>2, <1>3, <1>4
  <2>2. PICK k \in i .. j - 1 : H[c[k]].next \notin S
    <3>1. \E q \in S : H[q].next \notin S
      <4> HIDE DEF S
      <4>1. QED
        BY <2>1 DEF Linked, Grounded
    <3>2. QED
      BY <3>1
  <2>3. H[c[k]].next = c[k + 1]
    BY <1>2, <1>3, <1>4
  <2>4. c[k + 1] \in S
    <3>1. CASE k = j - 1
      BY <1>4, <2>1, <3>1
    <3>2. CASE k # j - 1
      <4>1. k + 1 \in i .. j - 1
        BY <1>3, <3>2
      <4>2. QED
        BY <4>1
    <3>3. QED
      BY <3>1, <3>2
  <2>5. QED
    BY <2>2, <2>3, <2>4
<1>5. \A i \in 1 .. Len(c), j \in 1 .. Len(c) : c[i] = c[j] => i = j
  BY <1>3, <1>4
<1>6. QED
  BY <1>1, <1>2, <1>5 DEF IsChain, LinkedFrom

-----------------------------------------------------------------------------
(* Counting pointers.                                                      *)

\* Memory is finite, and so are the pointers in it.
LEMMA LinksAreFinite ==
  ASSUME NEW H, DOMAIN H \subseteq Addresses, NEW p
  PROVE  IsFiniteSet(LinksTo(H, p)) /\ Cardinality(LinksTo(H, p)) \in Nat
<1>1. IsFiniteSet(Addresses)
  BY ConstantsAssumption DEF ConstantsAssumption
<1>2. LinksTo(H, p) \subseteq Addresses
  BY DEF LinksTo
<1>3. QED
  BY <1>1, <1>2, FS_Subset, FS_CardinalityType

\* Sets of no, one, and one more element.
LEMMA FewElements ==
  ASSUME NEW S, IsFiniteSet(S)
  PROVE  /\ Cardinality(S) = 0 => S = {}
         /\ \A x \in S : /\ Cardinality(S) >= 1
                         /\ Cardinality(S) = 1 => S = {x}
                         /\ Cardinality(S \ {x}) = Cardinality(S) - 1
         /\ \A x : x \notin S => Cardinality(S \cup {x}) = Cardinality(S) + 1
<1>1. Cardinality(S) \in Nat /\ (Cardinality(S) = 0 => S = {})
  BY FS_CardinalityType, FS_EmptySet
<1>2. ASSUME NEW x \in S
      PROVE  /\ Cardinality(S) >= 1
             /\ Cardinality(S) = 1 => S = {x}
             /\ Cardinality(S \ {x}) = Cardinality(S) - 1
  <2>1. IsFiniteSet(S \ {x}) /\ Cardinality(S \ {x}) = Cardinality(S) - 1
    BY FS_RemoveElement
  <2>2. Cardinality(S \ {x}) \in Nat /\ (Cardinality(S \ {x}) = 0 => S \ {x} = {})
    BY <2>1, FS_CardinalityType, FS_EmptySet
  <2>3. QED
    BY <1>1, <2>1, <2>2
<1>3. \A x : x \notin S => Cardinality(S \cup {x}) = Cardinality(S) + 1
  BY FS_AddElement
<1>4. QED
  BY <1>1, <1>2, <1>3

\* One pointer of a user less.
LEMMA DropOne ==
  ASSUME NEW H, NEW h, Linked(H), Counted(H, h),
         NEW p \in DOMAIN H, h[p] > 0, H[p].ref # 1
  PROVE  /\ Linked([H EXCEPT ![p].ref = @ - 1])
         /\ Counted([H EXCEPT ![p].ref = @ - 1], [h EXCEPT ![p] = @ - 1])
<1> DEFINE G == [H EXCEPT ![p].ref = @ - 1]
           g == [h EXCEPT ![p] = @ - 1]
<1>1. p \in Addresses /\ h[p] \in Nat /\ IsPbuf(H[p]) /\ H[p].ref > 0 /\ h \in [Addresses -> Nat]
  BY DEF Linked, Counted
<1>2. DOMAIN G = DOMAIN H /\ (\A q \in DOMAIN H : q # p => G[q] = H[q])
      /\ G[p] = [H[p] EXCEPT !.ref = @ - 1]
  OBVIOUS
<1>3. G[p].next = H[p].next /\ G[p].ref = H[p].ref - 1 /\ IsPbuf(G[p])
  <2>1. PICK b : b = H[p]
    OBVIOUS
  <2>2. [b EXCEPT !.ref = @ - 1].next = b.next /\ [b EXCEPT !.ref = @ - 1].ref = b.ref - 1
        /\ IsPbuf([b EXCEPT !.ref = @ - 1])
    <3>1. IsPbuf(b) /\ b.ref > 0
      BY <1>1, <2>1
    <3>2. QED
      BY <3>1 DEF IsPbuf
  <2>3. QED
    BY <1>2, <2>1, <2>2
<1>4. \A q \in DOMAIN H : G[q].next = H[q].next
  BY <1>2, <1>3
<1>5. \A q : LinksTo(G, q) = LinksTo(H, q)
  <2> HIDE DEF G
  <2>1. QED
    BY <1>2, <1>4 DEF LinksTo
<1>6. /\ g[p] = h[p] - 1 /\ g \in [Addresses -> Nat]
      /\ \A q \in Addresses : q # p => g[q] = h[q]
  BY <1>1
<1> HIDE DEF G, g
<1>7. Linked(G)
  <2>1. \A q \in DOMAIN H : IsPbuf(G[q])
    BY <1>2, <1>3 DEF Linked
  <2>2. Grounded(G)
    BY <1>2, <1>4 DEF Linked, Grounded
  <2>3. QED
    BY <1>2, <1>4, <2>1, <2>2 DEF Linked
<1>8. Counted(G, g)
  <2>1. G[p].ref = g[p] + Cardinality(LinksTo(G, p)) /\ G[p].ref > 0
    <3>1. H[p].ref = h[p] + Cardinality(LinksTo(H, p)) /\ Cardinality(LinksTo(H, p)) \in Nat
      BY LinksAreFinite DEF Counted, Linked
    <3>2. QED
      BY <1>1, <1>3, <1>5, <1>6, <3>1
  <2>2. ASSUME NEW q \in DOMAIN H, q # p
        PROVE  G[q].ref = g[q] + Cardinality(LinksTo(G, q)) /\ G[q].ref > 0
    BY <1>2, <1>5, <1>6, <2>2 DEF Counted, Linked
  <2>3. \A q \in Addresses \ DOMAIN G : g[q] = 0
    BY <1>2, <1>6 DEF Counted
  <2>4. QED
    BY <1>2, <1>6, <2>1, <2>2, <2>3 DEF Counted
<1>9. QED
  BY <1>7, <1>8 DEF G, g

\* The first pbufs of a chain.
First(c, k) == {c[i] : i \in 1 .. k}

\* One user points to the first, and each of them to the next one only.
OwnedPrefix(H, h, c, k) ==
  \A i \in 1 .. k : /\ h[c[i]] = IF i = 1 THEN 1 ELSE 0
                    /\ LinksTo(H, c[i]) = IF i = 1 THEN {} ELSE {c[i - 1]}

\* Pbufs at the beginning of a chain whose reference count is 1 are such a prefix.
LEMMA PrefixLinks ==
  ASSUME NEW H, NEW h, Linked(H), Counted(H, h), NEW p, NEW c, IsChain(H, p, c), h[p] > 0,
         NEW k \in 1 .. Len(c), \A i \in 1 .. k : H[c[i]].ref = 1
  PROVE  OwnedPrefix(H, h, c, k)
<1>1. ASSUME NEW i \in 1 .. k
      PROVE  /\ h[c[i]] = IF i = 1 THEN 1 ELSE 0
             /\ LinksTo(H, c[i]) = IF i = 1 THEN {} ELSE {c[i - 1]}
  <2>1. c \in Seq(DOMAIN H) /\ Len(c) \in Nat /\ c[1] = p /\ i \in 1 .. Len(c)
    BY DEF IsChain, LinkedFrom
  <2>2. c[i] \in DOMAIN H /\ c[i] \in Addresses
    BY <2>1 DEF Linked
  <2>3. h[c[i]] \in Nat /\ 1 = h[c[i]] + Cardinality(LinksTo(H, c[i]))
    BY <2>2 DEF Counted
  <2>4. IsFiniteSet(LinksTo(H, c[i])) /\ Cardinality(LinksTo(H, c[i])) \in Nat
    BY LinksAreFinite DEF Linked
  <2>5. CASE i = 1
    <3>1. Cardinality(LinksTo(H, c[i])) = 0 /\ h[c[i]] = 1
      BY <2>1, <2>3, <2>4, <2>5
    <3>2. QED
      BY <2>4, <2>5, <3>1, FewElements
  <2>6. CASE i # 1
    <3>1. i - 1 \in 1 .. Len(c) /\ i - 1 # Len(c)
      BY <2>1, <2>6
    <3>2. H[c[i - 1]].next = c[i] /\ c[i - 1] \in DOMAIN H
      <4>1. (i - 1) + 1 = i
        BY <2>1
      <4>2. QED
        BY <2>1, <3>1, <4>1 DEF IsChain, LinkedFrom
    <3>3. c[i - 1] \in LinksTo(H, c[i])
      BY <3>2 DEF LinksTo
    <3>4. Cardinality(LinksTo(H, c[i])) >= 1
      BY <2>4, <3>3, FewElements
    <3>5. Cardinality(LinksTo(H, c[i])) = 1 /\ h[c[i]] = 0
      BY <2>3, <2>4, <3>4
    <3>6. LinksTo(H, c[i]) = {c[i - 1]}
      BY <2>4, <3>3, <3>5, FewElements
    <3>7. QED
      BY <2>6, <3>5, <3>6
  <2>7. QED
    BY <2>5, <2>6
<1>2. QED
  BY <1>1 DEF OwnedPrefix

\* What is left of a heap whose pbufs do not lead to those that are gone.
LEMMA RestLinked ==
  ASSUME NEW H, Linked(H), NEW D \in SUBSET DOMAIN H,
         \A q \in D : H[q].next \in D \cup {NULL}
  PROVE  Linked(Restrict(H, D))
<1>1. PICK G : G = Restrict(H, D)
  OBVIOUS
<1>2. DOMAIN G = D /\ \A q \in D : G[q] = H[q]
  BY <1>1 DEF Restrict
<1>3. Grounded(G)
  BY <1>2 DEF Linked, Grounded
<1>4. \A q \in D : IsPbuf(G[q]) /\ G[q].next \in D \cup {NULL}
  BY <1>2 DEF Linked
<1>5. Linked(G)
  BY <1>2, <1>3, <1>4 DEF Linked
<1>6. QED
  BY <1>1, <1>5

\* The user's pointer moves from the first of the pbufs that are gone to the first that stays.
MovedOn(h, p, c, k) ==
  [q \in Addresses |-> IF q = p THEN h[q] - 1
                       ELSE IF k < Len(c) /\ q = c[k + 1] THEN h[q] + 1
                       ELSE h[q]]

\* The pbufs that stay are linked and counted, the first of them by one pbuf less.
Staying(H, h, p, c, k, G) ==
  /\ Linked(G) /\ Counted(G, MovedOn(h, p, c, k))
  /\ k < Len(c) => LinksTo(G, c[k + 1]) = LinksTo(H, c[k + 1]) \ {c[k]}

\* Without the first pbufs of a chain, if each had only one pointer to it, the others
\* stay linked and counted.
LEMMA PrefixGone ==
  ASSUME NEW H, NEW h, Linked(H), Counted(H, h), NEW p, NEW c, IsChain(H, p, c), h[p] > 0,
         NEW k \in 1 .. Len(c), \A i \in 1 .. k : H[c[i]].ref = 1
  PROVE  Staying(H, h, p, c, k, Restrict(H, DOMAIN H \ First(c, k)))
<1>1. PICK D : D = DOMAIN H \ First(c, k)
  OBVIOUS
<1>2. PICK G : G = Restrict(H, D)
  OBVIOUS
<1>3. DOMAIN G = D /\ \A q \in D : G[q] = H[q]
  BY <1>2 DEF Restrict
<1>4. \A i \in 1 .. k : /\ h[c[i]] = IF i = 1 THEN 1 ELSE 0
                        /\ LinksTo(H, c[i]) = IF i = 1 THEN {} ELSE {c[i - 1]}
  <2>1. OwnedPrefix(H, h, c, k)
    BY PrefixLinks
  <2>2. QED
    BY <2>1 DEF OwnedPrefix
<1>5. /\ c \in Seq(DOMAIN H) /\ Len(c) \in Nat /\ Len(c) > 0 /\ c[1] = p /\ k \in Nat /\ k >= 1
      /\ \A i \in 1 .. Len(c) : c[i] \in DOMAIN H
      /\ \A i \in 1 .. Len(c) : H[c[i]].next = IF i = Len(c) THEN NULL ELSE c[i + 1]
      /\ \A i \in 1 .. Len(c), j \in 1 .. Len(c) : c[i] = c[j] => i = j
  BY DEF IsChain, LinkedFrom
<1>6. NULL \notin DOMAIN H
  BY ConstantsAssumption DEF Linked, ConstantsAssumption
<1>7. ASSUME NEW q \in D
      PROVE  H[q].next \in D \cup {NULL}
  <2>1. ASSUME H[q].next \in First(c, k)
        PROVE  FALSE
    <3>1. PICK i \in 1 .. k : H[q].next = c[i]
      BY <2>1 DEF First
    <3>2. q \in LinksTo(H, c[i])
      BY <1>1, <3>1 DEF LinksTo
    <3>3. i # 1 /\ q = c[i - 1]
      BY <1>4, <3>2
    <3>4. i - 1 \in 1 .. k
      BY <3>3
    <3>5. q \in First(c, k)
      BY <3>3, <3>4 DEF First
    <3>6. QED
      BY <1>1, <3>5
  <2>2. QED
    BY <1>1, <2>1 DEF Linked
<1>8. Linked(G)
  BY <1>1, <1>2, <1>7, RestLinked
<1>9. ASSUME NEW x \in D, NEW y \in First(c, k), H[y].next = x
      PROVE  k < Len(c) /\ x = c[k + 1] /\ y = c[k]
  <2>1. PICK i \in 1 .. k : y = c[i]
    BY <1>9 DEF First
  <2>2. i # Len(c) /\ x = c[i + 1]
    <3>1. i \in 1 .. Len(c) /\ x \in DOMAIN H /\ x # NULL /\ H[c[i]].next = x
      BY <1>1, <1>5, <1>6, <1>9, <2>1
    <3>2. QED
      BY <1>5, <3>1
  <2>3. i = k
    <3>1. i # k => i + 1 \in 1 .. k
      BY <1>5
    <3>2. QED
      BY <1>1, <2>2, <3>1 DEF First
  <2>4. QED
    BY <1>5, <2>1, <2>2, <2>3
<1>10. ASSUME NEW x \in D
       PROVE  LinksTo(G, x) = IF k < Len(c) /\ x = c[k + 1] THEN LinksTo(H, x) \ {c[k]}
                              ELSE LinksTo(H, x)
  <2>1. LinksTo(G, x) = LinksTo(H, x) \ First(c, k)
    BY <1>1, <1>3 DEF LinksTo
  <2>2. \A y \in LinksTo(H, x) \cap First(c, k) : k < Len(c) /\ x = c[k + 1] /\ y = c[k]
    BY <1>9 DEF LinksTo
  <2>3. c[k] \in First(c, k)
    BY <1>5 DEF First
  <2>4. QED
    BY <2>1, <2>2, <2>3
<1>11. k < Len(c) => c[k + 1] \in D
  <2>1. ASSUME k < Len(c), c[k + 1] \in First(c, k)
        PROVE  FALSE
    <3>1. PICK i \in 1 .. k : c[k + 1] = c[i]
      BY <2>1 DEF First
    <3>2. k + 1 \in 1 .. Len(c) /\ i \in 1 .. Len(c)
      BY <1>5, <2>1
    <3>3. QED
      BY <1>5, <3>1, <3>2
  <2>2. ASSUME k < Len(c)
        PROVE  k + 1 \in 1 .. Len(c)
    BY <1>5, <2>2
  <2>3. QED
    BY <1>1, <1>5, <2>1, <2>2
<1>12. PICK g : g = MovedOn(h, p, c, k)
  OBVIOUS
<1>13. \A q \in Addresses : g[q] = IF q = p THEN h[q] - 1
                                  ELSE IF k < Len(c) /\ q = c[k + 1] THEN h[q] + 1
                                  ELSE h[q]
  BY <1>12 DEF MovedOn
<1>14. p \in First(c, k)
  BY <1>5 DEF First
<1>15. D \subseteq Addresses /\ p \in Addresses /\ h \in [Addresses -> Nat]
  BY <1>1, <1>5 DEF Linked, Counted
<1>16. g \in [Addresses -> Nat]
  <2>1. \A q \in Addresses : g[q] \in Nat
    BY <1>13, <1>15
  <2>2. QED
    BY <1>12, <2>1 DEF MovedOn
<1>17. ASSUME NEW x \in D
       PROVE  G[x].ref = g[x] + Cardinality(LinksTo(G, x)) /\ G[x].ref > 0
  <2>1. H[x].ref = h[x] + Cardinality(LinksTo(H, x)) /\ H[x].ref > 0
    BY <1>1 DEF Counted
  <2>2. x # p /\ G[x].ref = H[x].ref /\ x \in Addresses
    BY <1>1, <1>3, <1>14, <1>15
  <2>3. CASE k < Len(c) /\ x = c[k + 1]
    <3>1. IsFiniteSet(LinksTo(H, x)) /\ Cardinality(LinksTo(H, x)) \in Nat
      BY LinksAreFinite DEF Linked
    <3>2. c[k] \in LinksTo(H, x)
      <4>1. k \in 1 .. Len(c) /\ k # Len(c)
        BY <2>3
      <4>2. H[c[k]].next = x
        BY <1>5, <2>3, <4>1
      <4>3. QED
        BY <1>5, <4>1, <4>2 DEF LinksTo
    <3>3. Cardinality(LinksTo(G, x)) = Cardinality(LinksTo(H, x)) - 1
      BY <1>10, <2>3, <3>1, <3>2, FewElements
    <3>4. g[x] = h[x] + 1 /\ h[x] \in Nat
      BY <1>13, <1>15, <2>2, <2>3
    <3>5. QED
      BY <2>1, <2>2, <3>1, <3>3, <3>4
  <2>4. CASE ~ (k < Len(c) /\ x = c[k + 1])
    BY <1>10, <1>13, <2>1, <2>2, <2>4
  <2>5. QED
    BY <2>3, <2>4
<1>18. ASSUME NEW x \in Addresses \ D
       PROVE  g[x] = 0
  <2>1. CASE x \in First(c, k)
    <3>1. PICK i \in 1 .. k : x = c[i]
      BY <2>1 DEF First
    <3>2. CASE i = 1
      <4>1. x = p /\ h[c[i]] = 1
        BY <1>4, <1>5, <3>1, <3>2
      <4>2. g[p] = h[p] - 1
        BY <1>13, <1>15
      <4>3. QED
        BY <3>1, <4>1, <4>2
    <3>3. CASE i # 1
      <4>1. x # p
        <5>1. i \in 1 .. Len(c) /\ 1 \in 1 .. Len(c)
          BY <1>5
        <5>2. QED
          BY <1>5, <3>1, <3>3, <5>1
      <4>2. QED
        BY <1>4, <1>11, <1>13, <3>1, <3>3, <4>1
    <3>4. QED
      BY <3>2, <3>3
  <2>2. CASE x \notin First(c, k)
    <3>1. x \in Addresses \ DOMAIN H
      BY <1>1, <2>2
    <3>2. h[x] = 0
      BY <3>1 DEF Counted
    <3>3. QED
      BY <1>11, <1>13, <1>14, <2>2, <3>2
  <2>3. QED
    BY <2>1, <2>2
<1>19. Counted(G, g)
  BY <1>3, <1>16, <1>17, <1>18 DEF Counted
<1>20. QED
  BY <1>1, <1>2, <1>8, <1>10, <1>11, <1>12, <1>19 DEF Staying

\* A heap that agrees with another one has the same pointers.
LEMMA EqualHeap ==
  ASSUME NEW H, NEW h, Linked(H), Counted(H, h), NEW G,
         DOMAIN G = DOMAIN H, \A q \in DOMAIN H : G[q] = H[q]
  PROVE  Linked(G) /\ Counted(G, h)
<1>1. \A q : LinksTo(G, q) = LinksTo(H, q)
  BY DEF LinksTo
<1>2. Grounded(G)
  BY DEF Linked, Grounded
<1>3. Linked(G)
  BY <1>2 DEF Linked
<1>4. Counted(G, h)
  BY <1>1 DEF Counted
<1>5. QED
  BY <1>3, <1>4

\* Some pbufs of a heap, with reference counts of their own.
Reduced(H, G) ==
  /\ DOMAIN G \subseteq DOMAIN H
  /\ \A q \in DOMAIN G : G[q] = [H[q] EXCEPT !.ref = G[q].ref]

\* One reference less to a pbuf of what is left of a heap.
LEMMA ReducedByOne ==
  ASSUME NEW H, NEW G, Linked(H), NEW D \in SUBSET DOMAIN H, G = Restrict(H, D), NEW p
  PROVE  Reduced(H, G) /\ Reduced(H, [G EXCEPT ![p].ref = @ - 1])
<1>1. DOMAIN G = D /\ \A q \in D : G[q] = H[q]
  BY DEF Restrict
<1>2. \A q \in D : H[q] = [H[q] EXCEPT !.ref = H[q].ref]
  BY DEF Linked, IsPbuf
<1>3. Reduced(H, G)
  BY <1>1, <1>2 DEF Reduced
<1>4. PICK F : F = [G EXCEPT ![p].ref = @ - 1]
  OBVIOUS
<1>5. DOMAIN F = D
      /\ \A q \in D : F[q] = IF q = p THEN [H[q] EXCEPT !.ref = @ - 1] ELSE H[q]
  BY <1>1, <1>4
<1>6. ASSUME NEW q \in D
      PROVE  F[q] = [H[q] EXCEPT !.ref = F[q].ref]
  <2>1. PICK b : b = H[q]
    OBVIOUS
  <2>2. [b EXCEPT !.ref = @ - 1] = [b EXCEPT !.ref = [b EXCEPT !.ref = @ - 1].ref]
    <3>1. IsPbuf(b)
      BY <2>1 DEF Linked
    <3>2. QED
      BY <3>1 DEF IsPbuf
  <2>3. QED
    BY <1>2, <1>5, <2>1, <2>2
<1>7. QED
  BY <1>3, <1>4, <1>5, <1>6 DEF Reduced

\* What pbuf_free() leaves: the pointer of the caller is gone and nothing else.
Freeing(H, h, p, G) == Linked(G) /\ Counted(G, [h EXCEPT ![p] = @ - 1]) /\ Reduced(H, G)

\* pbuf_free() keeps the heap linked and counted.
LEMMA FreedKeeps ==
  ASSUME NEW H, NEW h, Linked(H), Counted(H, h), NEW p \in DOMAIN H, h[p] > 0
  PROVE  Freeing(H, h, p, Freed(H, p))
<1>1. PICK c : c = Chain(H, p)
  OBVIOUS
<1>2. IsChain(H, p, c)
  BY <1>1, ChainIs
<1>3. /\ c \in Seq(DOMAIN H) /\ Len(c) \in Nat /\ Len(c) > 0 /\ c[1] = p
      /\ DOMAIN c = 1 .. Len(c)
      /\ \A i \in 1 .. Len(c), j \in 1 .. Len(c) : c[i] = c[j] => i = j
  BY <1>2 DEF IsChain, LinkedFrom
<1>4. PICK last : last = LeastOf({i \in DOMAIN c : H[c[i]].ref # 1}, Len(c) + 1)
  OBVIOUS
<1>5. /\ last \in 1 .. Len(c) + 1
      /\ \A i \in 1 .. last - 1 : H[c[i]].ref = 1
      /\ last <= Len(c) => H[c[last]].ref # 1
  <2> DEFINE S == {i \in DOMAIN c : H[c[i]].ref # 1}
  <2>1. S \in SUBSET Nat /\ S \subseteq 1 .. Len(c)
    BY <1>3
  <2>2. IF S = {} THEN last = Len(c) + 1 ELSE last \in S /\ \A j \in S : last <= j
    <3> HIDE DEF S
    <3>1. last = LeastOf(S, Len(c) + 1)
      BY <1>4 DEF S
    <3>2. QED
      BY <2>1, <3>1, LeastOfIs
  <2>3. CASE S = {}
    BY <1>3, <2>2, <2>3
  <2>4. CASE S # {}
    BY <1>3, <2>2, <2>4
  <2>5. QED
    BY <2>3, <2>4
<1>6. PICK k : k = last - 1
  OBVIOUS
<1>7. k \in 0 .. Len(c)
  BY <1>3, <1>5, <1>6
<1>8. PICK rest : rest = Restrict(H, DOMAIN H \ First(c, k))
  OBVIOUS
<1>9. Freed(H, p) = IF last > Len(c) THEN rest ELSE [rest EXCEPT ![c[last]].ref = @ - 1]
  BY <1>1, <1>4, <1>6, <1>8 DEF Freed, First
<1>10. PICK g : g = [h EXCEPT ![p] = @ - 1]
  OBVIOUS
<1>11. h \in [Addresses -> Nat] /\ DOMAIN H \subseteq Addresses
  BY DEF Counted, Linked
<1>12. DOMAIN g = Addresses /\ \A q \in Addresses : g[q] = IF q = p THEN h[q] - 1 ELSE h[q]
  BY <1>10, <1>11
<1>13. CASE k = 0
  <2>1. last = 1
    BY <1>5, <1>6, <1>13
  <2>2. DOMAIN rest = DOMAIN H /\ \A q \in DOMAIN H : rest[q] = H[q]
    BY <1>8, <1>13 DEF Restrict, First
  <2>3. Linked(rest) /\ Counted(rest, h)
    BY <2>2, EqualHeap
  <2>4. rest[p].ref # 1
    BY <1>3, <1>5, <2>1, <2>2
  <2>5. Linked([rest EXCEPT ![p].ref = @ - 1]) /\ Counted([rest EXCEPT ![p].ref = @ - 1], g)
    BY <1>10, <2>2, <2>3, <2>4, DropOne
  <2>6. Reduced(H, [rest EXCEPT ![p].ref = @ - 1])
    BY <1>8, ReducedByOne
  <2>7. Freed(H, p) = [rest EXCEPT ![p].ref = @ - 1]
    <3>1. ~ (last > Len(c)) /\ c[last] = p
      BY <1>3, <2>1
    <3>2. QED
      BY <1>9, <3>1
  <2>8. QED
    BY <1>10, <2>5, <2>6, <2>7 DEF Freeing
<1>14. CASE k # 0
  <2>1. k \in 1 .. Len(c) /\ \A i \in 1 .. k : H[c[i]].ref = 1
    BY <1>5, <1>6, <1>7, <1>14
  <2>2. PICK m : m = MovedOn(h, p, c, k)
    OBVIOUS
  <2>3. Linked(rest) /\ Counted(rest, m)
    BY <1>2, <1>8, <2>1, <2>2, PrefixGone DEF Staying
  <2>4. m \in [Addresses -> Nat]
        /\ \A q \in Addresses : m[q] = IF q = p THEN h[q] - 1
                                       ELSE IF k < Len(c) /\ q = c[k + 1] THEN h[q] + 1
                                       ELSE h[q]
    BY <2>2, <2>3 DEF MovedOn, Counted
  <2>5. CASE k = Len(c)
    <3>1. m = g
      <4>1. \A q \in Addresses : m[q] = g[q]
        BY <1>3, <1>12, <2>4, <2>5
      <4>2. m = [q \in Addresses |-> m[q]] /\ g = [q \in Addresses |-> g[q]]
        BY <1>10, <1>11, <1>12, <2>4
      <4>3. QED
        BY <4>1, <4>2
    <3>2. Freed(H, p) = rest
      <4>1. last > Len(c)
        BY <1>3, <1>5, <1>6, <2>5
      <4>2. QED
        BY <1>9, <4>1
    <3>3. QED
      BY <1>8, <1>10, <2>3, <3>1, <3>2, ReducedByOne DEF Freeing
  <2>6. CASE k # Len(c)
    <3>1. k < Len(c) /\ last = k + 1 /\ last \in 1 .. Len(c)
      BY <1>3, <1>5, <1>6, <1>7, <2>6
    <3>2. PICK x : x = c[last]
      OBVIOUS
    <3>3. x \in DOMAIN H /\ x # p /\ H[x].ref # 1
      BY <1>3, <1>5, <2>1, <3>1, <3>2
    <3>4. x \notin First(c, k)
      <4>1. ASSUME NEW i \in 1 .. k, x = c[i]
            PROVE  FALSE
        <5>1. i \in 1 .. Len(c) /\ i # last /\ c[i] = c[last]
          BY <1>3, <1>7, <3>1, <3>2, <4>1
        <5>2. QED
          BY <1>3, <3>1, <5>1
      <4>2. QED
        BY <4>1 DEF First
    <3>5. x \in DOMAIN rest /\ rest[x].ref # 1
      BY <1>8, <3>3, <3>4 DEF Restrict
    <3>6. m[x] = h[x] + 1 /\ m[x] > 0 /\ x \in Addresses
      BY <1>11, <2>4, <3>1, <3>2, <3>3
    <3>7. Linked([rest EXCEPT ![x].ref = @ - 1])
          /\ Counted([rest EXCEPT ![x].ref = @ - 1], [m EXCEPT ![x] = @ - 1])
      BY <2>3, <3>5, <3>6, DropOne
    <3>8. [m EXCEPT ![x] = @ - 1] = g
      <4>1. PICK n : n = [m EXCEPT ![x] = @ - 1]
        OBVIOUS
      <4>2. DOMAIN n = Addresses /\ n = [q \in Addresses |-> n[q]]
            /\ \A q \in Addresses : n[q] = IF q = x THEN m[q] - 1 ELSE m[q]
        BY <2>4, <4>1
      <4>3. \A q \in Addresses : n[q] = g[q]
        <5>1. h[x] \in Nat
          BY <1>11, <3>6
        <5>2. g[x] = n[x]
          BY <1>12, <3>3, <3>6, <4>2, <5>1
        <5>3. \A q \in Addresses : q # x => n[q] = g[q]
          BY <1>12, <2>4, <3>1, <3>2, <4>2
        <5>4. QED
          BY <5>2, <5>3
      <4>4. g = [q \in Addresses |-> g[q]]
        BY <1>10, <1>11, <1>12
      <4>5. QED
        BY <4>1, <4>2, <4>3, <4>4
    <3>9. Reduced(H, [rest EXCEPT ![x].ref = @ - 1])
      BY <1>8, ReducedByOne
    <3>10. Freed(H, p) = [rest EXCEPT ![x].ref = @ - 1]
      BY <1>3, <1>9, <3>1, <3>2
    <3>11. QED
      BY <1>10, <3>7, <3>8, <3>9, <3>10 DEF Freeing
  <2>7. QED
    BY <2>5, <2>6
<1>15. QED
  BY <1>13, <1>14

-----------------------------------------------------------------------------
(* What a call may do to a heap.                                           *)

\* The payload lies within the buffer.
Buffered(b) == b.mem \in Seq(ToSet(b.mem)) /\ b.payload + b.len <= Len(b.mem)

\* A heap as it is between two calls, if h are the pointers of users.
HeapOk(H, h) ==
  /\ Linked(H) /\ Counted(H, h) /\ Summed(H)
  /\ \A q \in DOMAIN H : Buffered(H[q])

\* A sequence is one over its elements.
LEMMA SeqOfElements ==
  ASSUME NEW A, NEW s \in Seq(A)
  PROVE  s \in Seq(ToSet(s)) /\ Len(s) \in Nat
<1>1. \A i \in 1 .. Len(s) : s[i] \in ToSet(s)
  BY DEF ToSet
<1>2. QED
  BY <1>1

\* So is a function over the first numbers.
LEMMA FunctionIsSeq ==
  ASSUME NEW n \in Nat, NEW s, s = [i \in 1 .. n |-> s[i]]
  PROVE  s \in Seq(ToSet(s)) /\ Len(s) = n
<1>1. \A i \in 1 .. n : s[i] \in ToSet(s)
  BY DEF ToSet
<1>2. QED
  BY <1>1

\* A heap has the same lengths and pointers as another one, and other bytes.
SameShape(H, G) ==
  /\ DOMAIN G = DOMAIN H
  /\ \A q \in DOMAIN H : /\ G[q] = [H[q] EXCEPT !.mem = G[q].mem]
                         /\ G[q].mem \in Seq(ToSet(G[q].mem))
                         /\ Len(G[q].mem) = Len(H[q].mem)

\* Another buffer of the same size.
OtherBytes(b, d) ==
  d = [b EXCEPT !.mem = d.mem] /\ d.mem \in Seq(ToSet(d.mem)) /\ Len(d.mem) = Len(b.mem)

\* With other bytes a pbuf is as well-formed as before, with the same lengths and links.
LEMMA OtherBytesKeep ==
  ASSUME NEW b, NEW d, IsPbuf(b), Buffered(b), OtherBytes(b, d)
  PROVE  /\ IsPbuf(d) /\ Buffered(d)
         /\ d.next = b.next /\ d.ref = b.ref /\ d.len = b.len /\ d.tot_len = b.tot_len
         /\ d.payload = b.payload
<1>1. PICK m : m = d.mem
  OBVIOUS
<1>2. d = [b EXCEPT !.mem = m]
  BY <1>1 DEF OtherBytes
<1>3. IsPbuf(d) /\ d.next = b.next /\ d.ref = b.ref /\ d.len = b.len /\ d.tot_len = b.tot_len
      /\ d.payload = b.payload
  BY <1>2 DEF IsPbuf
<1>4. Buffered(d)
  BY <1>3 DEF Buffered, OtherBytes
<1>5. QED
  BY <1>3, <1>4

\* Writing payload changes nothing else.
LEMMA SameShapeKeeps ==
  ASSUME NEW H, NEW h, HeapOk(H, h), NEW G, SameShape(H, G)
  PROVE  HeapOk(G, h)
<1>1. \A q \in DOMAIN H : OtherBytes(H[q], G[q])
  BY DEF SameShape, OtherBytes
<1>2. DOMAIN G = DOMAIN H
  BY DEF SameShape
<1>3. \A q \in DOMAIN H : IsPbuf(H[q]) /\ Buffered(H[q])
  BY DEF HeapOk, Linked
<1>4. \A q \in DOMAIN H :
        /\ IsPbuf(G[q]) /\ Buffered(G[q])
        /\ G[q].next = H[q].next /\ G[q].ref = H[q].ref /\ G[q].len = H[q].len
        /\ G[q].tot_len = H[q].tot_len
  BY <1>1, <1>3, OtherBytesKeep
<1>5. \A q : LinksTo(G, q) = LinksTo(H, q)
  BY <1>2, <1>4 DEF LinksTo
<1>6. Grounded(G)
  BY <1>2, <1>4 DEF HeapOk, Linked, Grounded
<1>7. Linked(G)
  BY <1>2, <1>4, <1>6 DEF HeapOk, Linked
<1>8. Counted(G, h)
  BY <1>2, <1>4, <1>5 DEF HeapOk, Counted
<1>9. Summed(G)
  <2>1. \A q \in DOMAIN H : H[q].next \in DOMAIN H \cup {NULL}
    BY DEF HeapOk, Linked
  <2>2. QED
    BY <1>2, <1>4, <2>1 DEF HeapOk, Summed
<1>10. QED
  BY <1>2, <1>4, <1>7, <1>8, <1>9 DEF HeapOk

\* Some pbufs of a heap whose lengths add up, linked among themselves.
LEMMA ReducedKeeps ==
  ASSUME NEW H, NEW G, NEW h, Linked(H), Linked(G), Counted(G, h), Reduced(H, G),
         \A q \in DOMAIN G :
           /\ H[q].tot_len = H[q].len + (IF H[q].next = NULL THEN 0 ELSE H[H[q].next].tot_len)
           /\ Buffered(H[q])
  PROVE  HeapOk(G, h)
<1>1. ASSUME NEW q \in DOMAIN G
      PROVE  /\ G[q].next = H[q].next /\ G[q].len = H[q].len /\ G[q].tot_len = H[q].tot_len
             /\ Buffered(G[q])
  <2>1. PICK b, r : b = H[q] /\ r = G[q].ref
    OBVIOUS
  <2>2. G[q] = [b EXCEPT !.ref = r] /\ IsPbuf(b) /\ Buffered(b)
    BY <2>1 DEF Reduced, Linked
  <2>3. [b EXCEPT !.ref = r].next = b.next /\ [b EXCEPT !.ref = r].len = b.len
        /\ [b EXCEPT !.ref = r].tot_len = b.tot_len /\ [b EXCEPT !.ref = r].mem = b.mem
        /\ [b EXCEPT !.ref = r].payload = b.payload
    BY <2>2 DEF IsPbuf
  <2>4. Buffered([b EXCEPT !.ref = r])
    BY <2>2, <2>3 DEF Buffered
  <2>5. QED
    BY <2>1, <2>2, <2>3, <2>4
<1>2. \A q \in DOMAIN G : G[q].next \in DOMAIN G \cup {NULL}
  BY DEF Linked
<1>3. Summed(G)
  BY <1>1, <1>2 DEF Summed
<1>4. QED
  BY <1>1, <1>3 DEF HeapOk

\* pbuf_free() keeps a heap in order.
LEMMA FreedOk ==
  ASSUME NEW H, NEW h, HeapOk(H, h), NEW p \in DOMAIN H, h[p] > 0
  PROVE  HeapOk(Freed(H, p), [h EXCEPT ![p] = @ - 1])
<1>1. PICK G : G = Freed(H, p)
  OBVIOUS
<1>2. Freeing(H, h, p, G)
  BY <1>1, FreedKeeps DEF HeapOk
<1>3. PICK g : g = [h EXCEPT ![p] = @ - 1]
  OBVIOUS
<1>4. Linked(H) /\ Linked(G) /\ Counted(G, g) /\ Reduced(H, G)
  BY <1>2, <1>3 DEF Freeing, HeapOk
<1>5. \A q \in DOMAIN G :
        /\ H[q].tot_len = H[q].len + (IF H[q].next = NULL THEN 0 ELSE H[H[q].next].tot_len)
        /\ Buffered(H[q])
  BY <1>4 DEF HeapOk, Summed, Reduced
<1>6. QED
  BY <1>1, <1>3, <1>4, <1>5, ReducedKeeps

-----------------------------------------------------------------------------
(* Allocating.                                                             *)

\* A new pbuf, which one user points to.
LEMMA AddedKeeps ==
  ASSUME NEW H, NEW h, HeapOk(H, h), NEW p \in Addresses \ DOMAIN H, NEW b,
         IsPbuf(b), Buffered(b), b.next = NULL, b.ref = 1, b.tot_len = b.len
  PROVE  HeapOk(With(H, p, b), [h EXCEPT ![p] = 1])
<1>1. PICK G : G = With(H, p, b)
  OBVIOUS
<1>2. DOMAIN G = DOMAIN H \cup {p} /\ G[p] = b /\ \A q \in DOMAIN H : G[q] = H[q]
  BY <1>1 DEF With
<1>3. PICK g : g = [h EXCEPT ![p] = 1]
  OBVIOUS
<1>4. h \in [Addresses -> Nat]
  BY DEF HeapOk, Counted
<1>5. g \in [Addresses -> Nat] /\ g[p] = 1 /\ \A q \in Addresses : q # p => g[q] = h[q]
  BY <1>3, <1>4
<1>6. \A q \in DOMAIN H : H[q].next \in DOMAIN H \cup {NULL}
  BY DEF HeapOk, Linked
<1>7. p # NULL /\ NULL \notin DOMAIN H /\ DOMAIN H \subseteq Addresses
  BY ConstantsAssumption DEF ConstantsAssumption, HeapOk, Linked
<1>8. Grounded(G)
  <2>1. ASSUME NEW S \in SUBSET DOMAIN G, S # {}
        PROVE  \E q \in S : G[q].next \notin S
    <3>1. CASE p \in S /\ NULL \in S
      BY <1>2, <1>7, <3>1
    <3>2. CASE p \in S /\ NULL \notin S
      BY <1>2, <3>2
    <3>3. CASE p \notin S
      <4>1. S \in SUBSET DOMAIN H
        BY <1>2, <3>3
      <4>2. PICK q \in S : H[q].next \notin S
        BY <2>1, <4>1 DEF HeapOk, Linked, Grounded
      <4>3. QED
        BY <1>2, <4>1, <4>2
    <3>4. QED
      BY <3>1, <3>2, <3>3
  <2>2. QED
    BY <2>1 DEF Grounded
<1>9. Linked(G)
  <2>1. \A q \in DOMAIN H : IsPbuf(H[q])
    BY DEF HeapOk, Linked
  <2>2. \A q \in DOMAIN G : IsPbuf(G[q]) /\ G[q].next \in DOMAIN G \cup {NULL}
    BY <1>2, <1>6, <2>1
  <2>3. QED
    BY <1>2, <1>7, <1>8, <2>2 DEF Linked
<1>10. LinksTo(G, p) = {} /\ \A q \in DOMAIN H : LinksTo(G, q) = LinksTo(H, q)
  <2>1. ASSUME NEW x \in DOMAIN G
        PROVE  G[x].next # p
    BY <1>2, <1>6, <1>7
  <2>2. \A q \in DOMAIN H : LinksTo(G, q) = LinksTo(H, q)
    BY <1>2, <1>7 DEF LinksTo
  <2>3. QED
    BY <2>1, <2>2 DEF LinksTo
<1>11. Counted(G, g)
  <2>1. Cardinality({}) = 0
    BY FS_EmptySet
  <2>2. G[p].ref = g[p] + Cardinality(LinksTo(G, p)) /\ G[p].ref > 0
    BY <1>2, <1>5, <1>10, <2>1
  <2>3. ASSUME NEW q \in DOMAIN H
        PROVE  G[q].ref = g[q] + Cardinality(LinksTo(G, q)) /\ G[q].ref > 0
    <3>1. H[q].ref = h[q] + Cardinality(LinksTo(H, q)) /\ H[q].ref > 0
      BY DEF HeapOk, Counted
    <3>2. q \in Addresses /\ q # p
      BY <1>7
    <3>3. QED
      BY <1>2, <1>5, <1>10, <3>1, <3>2
  <2>4. \A q \in Addresses \ DOMAIN G : g[q] = 0
    BY <1>2, <1>5 DEF HeapOk, Counted
  <2>5. QED
    BY <1>2, <1>5, <2>2, <2>3, <2>4 DEF Counted
<1>12. Summed(G)
  <2>1. ASSUME NEW q \in DOMAIN H
        PROVE  G[q].tot_len = G[q].len + (IF G[q].next = NULL THEN 0 ELSE G[G[q].next].tot_len)
    <3>1. H[q].tot_len = H[q].len + (IF H[q].next = NULL THEN 0 ELSE H[H[q].next].tot_len)
      BY DEF HeapOk, Summed
    <3>2. QED
      BY <1>2, <1>6, <3>1
  <2>2. G[p].tot_len = G[p].len + (IF G[p].next = NULL THEN 0 ELSE G[G[p].next].tot_len)
    <3>1. b.len \in Nat
      BY DEF IsPbuf
    <3>2. QED
      BY <1>2, <3>1
  <2>3. QED
    BY <1>2, <2>1, <2>2 DEF Summed
<1>13. \A q \in DOMAIN G : Buffered(G[q])
  BY <1>2 DEF HeapOk
<1>14. QED
  BY <1>1, <1>3, <1>9, <1>11, <1>12, <1>13 DEF HeapOk

\* The buffer of a new pbuf.
LEMMA FreshIs ==
  ASSUME NEW n \in Nat
  PROVE  Fresh(n) \in Seq({0}) /\ Len(Fresh(n)) = n
BY DEF Fresh

\* A pbuf that nothing but its user points to.
IsNew(b, headroom, len, tot_len) ==
  /\ IsPbuf(b) /\ Buffered(b) /\ b.next = NULL /\ b.ref = 1
  /\ b.len = len /\ b.tot_len = tot_len /\ b.payload = headroom

\* What pbuf_init_alloced_pbuf() makes.
LEMMA AllocedIs ==
  ASSUME NEW contiguous, NEW headroom \in Nat, NEW A, NEW bytes \in Seq(A),
         NEW tot_len \in 0 .. Width - 1
  PROVE  IsNew(Alloced(contiguous, headroom, bytes, tot_len), headroom, Len(bytes), tot_len)
<1>1. PICK m : m = Fresh(headroom) \o bytes
  OBVIOUS
<1>2. m \in Seq({0} \cup A) /\ Len(m) = headroom + Len(bytes)
  <2>1. PICK B, f : B = {0} \cup A /\ f = Fresh(headroom)
    OBVIOUS
  <2>2. f \in Seq({0}) /\ Len(f) = headroom
    BY <2>1, FreshIs
  <2>3. f \in Seq(B) /\ bytes \in Seq(B)
    BY <2>1, <2>2
  <2>4. f \o bytes \in Seq(B) /\ Len(f \o bytes) = Len(f) + Len(bytes)
    BY <2>3
  <2>5. QED
    BY <1>1, <2>1, <2>2, <2>4
<1>3. m \in Seq(ToSet(m))
  BY <1>2, SeqOfElements
<1>4. PICK b : b = [contiguous |-> contiguous, mem |-> m, payload |-> headroom,
                    tot_len |-> tot_len, len |-> Len(bytes), next |-> NULL, ref |-> 1]
  OBVIOUS
<1>5. b = Alloced(contiguous, headroom, bytes, tot_len)
  BY <1>1, <1>4 DEF Alloced
<1>6. Len(bytes) \in Nat
  OBVIOUS
<1>7. IsPbuf(b)
  BY <1>4, <1>6 DEF IsPbuf
<1>8. Buffered(b)
  BY <1>2, <1>3, <1>4, <1>6 DEF Buffered
<1>9. QED
  BY <1>4, <1>5, <1>7, <1>8 DEF IsNew

\* Headers are aligned within a pool pbuf.
LEMMA AlignIs ==
  ASSUME NEW n \in Nat
  PROVE  Align(n) \in Nat /\ Align(n) < n + Alignment
<1>1. Alignment \in Nat /\ Alignment > 0
  BY ConstantsAssumption DEF ConstantsAssumption
<1>2. PICK a, m : a = Alignment /\ m = n + Alignment - 1
  OBVIOUS
<1>3. m \in Nat /\ a \in Nat /\ a > 0
  BY <1>1, <1>2
<1>4. m \div a \in Nat /\ (m \div a) * a <= m
  BY <1>3
<1>5. (m \div a) * a \in Nat
  BY <1>3, <1>4
<1>6. Align(n) = (m \div a) * a
  BY <1>2 DEF Align
<1>7. QED
  BY <1>1, <1>2, <1>4, <1>5, <1>6

\* pbuf_alloc(), PBUF_RAM, keeps a heap in order.
LEMMA RamOk ==
  ASSUME NEW H, NEW h, HeapOk(H, h), NEW p \in Addresses \ DOMAIN H,
         NEW layer \in Nat, NEW length \in 0 .. Width - 1
  PROVE  HeapOk(With(H, p, AllocedRam(layer, length)), [h EXCEPT ![p] = 1])
<1>1. PICK b : b = AllocedRam(layer, length)
  OBVIOUS
<1>2. Align(layer) \in Nat /\ Fresh(length) \in Seq({0}) /\ Len(Fresh(length)) = length
  <2>1. length \in Nat
    BY ConstantsAssumption DEF ConstantsAssumption
  <2>2. QED
    BY <2>1, AlignIs, FreshIs
<1>3. IsNew(b, Align(layer), length, length)
  BY <1>1, <1>2, AllocedIs DEF AllocedRam
<1>4. QED
  BY <1>1, <1>3, AddedKeeps DEF IsNew

\* pbuf_alloc_reference() keeps a heap in order.
LEMMA ReferenceOk ==
  ASSUME NEW H, NEW h, HeapOk(H, h), NEW p \in Addresses \ DOMAIN H, NEW mem \in External
  PROVE  HeapOk(With(H, p, Alloced(FALSE, 0, mem, Len(mem))), [h EXCEPT ![p] = 1])
<1>1. mem \in Seq(ToSet(mem)) /\ Len(mem) \in 0 .. Width - 1
  BY ConstantsAssumption DEF ConstantsAssumption
<1>2. PICK b : b = Alloced(FALSE, 0, mem, Len(mem))
  OBVIOUS
<1>3. IsNew(b, 0, Len(mem), Len(mem))
  BY <1>1, <1>2, AllocedIs
<1>4. QED
  BY <1>2, <1>3, AddedKeeps DEF IsNew

-----------------------------------------------------------------------------
(* Writing.                                                                *)

\* All pbufs of a heap are structs with a buffer.
Structs(H) == \A q \in DOMAIN H : IsPbuf(H[q]) /\ Buffered(H[q])

\* A pbuf itself has the same shape.
LEMMA SameBytes ==
  ASSUME NEW b, IsPbuf(b), Buffered(b)
  PROVE  OtherBytes(b, b)
BY DEF IsPbuf, Buffered, OtherBytes

\* Bytes written into a buffer leave it as it is otherwise.
LEMMA FilledIs ==
  ASSUME NEW b, IsPbuf(b), Buffered(b), NEW offset, NEW bytes
  PROVE  OtherBytes(b, Filled(b, offset, bytes))
<1>1. b.mem \in Seq(ToSet(b.mem))
  BY DEF Buffered
<1>2. PICK n \in Nat : DOMAIN b.mem = 1 .. n /\ Len(b.mem) = n
  BY <1>1
<1>3. PICK m : m = [i \in 1 .. n |-> LET j == i - b.payload - offset
                                    IN  IF j \in DOMAIN bytes THEN bytes[j] ELSE b.mem[i]]
  OBVIOUS
<1>4. m = [i \in 1 .. n |-> m[i]]
  BY <1>3
<1>5. m \in Seq(ToSet(m)) /\ Len(m) = n
  BY <1>4, FunctionIsSeq
<1>6. Filled(b, offset, bytes) = [b EXCEPT !.mem = m]
  BY <1>2, <1>3 DEF Filled, IsPbuf
<1>7. PICK d : d = [b EXCEPT !.mem = m]
  OBVIOUS
<1>8. d.mem = m
  BY <1>7 DEF IsPbuf
<1>9. OtherBytes(b, d)
  BY <1>2, <1>5, <1>7, <1>8 DEF OtherBytes
<1>10. QED
  BY <1>6, <1>7, <1>9

\* Shapes by pbuf.
LEMMA ShapeByPbuf ==
  ASSUME NEW H, NEW G, DOMAIN G = DOMAIN H, \A q \in DOMAIN H : OtherBytes(H[q], G[q])
  PROVE  SameShape(H, G)
BY DEF SameShape, OtherBytes

\* A heap has its own shape.
LEMMA SameHeap ==
  ASSUME NEW H, Structs(H)
  PROVE  SameShape(H, H)
<1>1. \A q \in DOMAIN H : OtherBytes(H[q], H[q])
  BY SameBytes DEF Structs
<1>2. QED
  BY <1>1, ShapeByPbuf

\* Writes leave structs.
LEMMA StructsStay ==
  ASSUME NEW H, NEW G, Structs(H), SameShape(H, G)
  PROVE  Structs(G)
<1>1. DOMAIN G = DOMAIN H /\ \A q \in DOMAIN H : OtherBytes(H[q], G[q])
  BY DEF SameShape, OtherBytes
<1>2. QED
  BY <1>1, OtherBytesKeep DEF Structs

\* One write after another.
LEMMA ShapesFollow ==
  ASSUME NEW H, NEW G, NEW F, Structs(H), SameShape(H, G), SameShape(G, F)
  PROVE  SameShape(H, F)
<1>1. ASSUME NEW q \in DOMAIN H
      PROVE  OtherBytes(H[q], F[q])
  <2>1. PICK b, d, e : b = H[q] /\ d = G[q] /\ e = F[q]
    OBVIOUS
  <2>2. OtherBytes(b, d) /\ OtherBytes(d, e) /\ IsPbuf(b) /\ Buffered(b)
    BY <2>1 DEF SameShape, OtherBytes, Structs
  <2>3. PICK m, n : m = d.mem /\ n = e.mem
    OBVIOUS
  <2>4. d = [b EXCEPT !.mem = m] /\ e = [d EXCEPT !.mem = n]
    BY <2>2, <2>3 DEF OtherBytes
  <2>5. e = [b EXCEPT !.mem = n]
    BY <2>2, <2>4 DEF IsPbuf
  <2>6. e.mem \in Seq(ToSet(e.mem)) /\ Len(e.mem) = Len(b.mem)
    BY <2>2 DEF OtherBytes
  <2>7. OtherBytes(b, e)
    BY <2>3, <2>5, <2>6 DEF OtherBytes
  <2>8. QED
    BY <2>1, <2>7
<1>2. DOMAIN F = DOMAIN H
  BY DEF SameShape
<1>3. QED
  BY <1>1, <1>2, ShapeByPbuf

\* Writing into one buffer.
LEMMA PutKeepsShape ==
  ASSUME NEW H, Structs(H), NEW p, NEW offset, NEW bytes
  PROVE  SameShape(H, Put(H, p, offset, bytes))
<1>1. PICK G : G = Put(H, p, offset, bytes)
  OBVIOUS
<1>2. DOMAIN G = DOMAIN H
      /\ \A q \in DOMAIN H : G[q] = IF q = p THEN Filled(H[q], offset, bytes) ELSE H[q]
  BY <1>1 DEF Put
<1>3. \A q \in DOMAIN H : OtherBytes(H[q], G[q])
  BY <1>2, FilledIs, SameBytes DEF Structs
<1>4. QED
  BY <1>1, <1>2, <1>3, ShapeByPbuf

\* pbuf_take() writes payload only.
LEMMA TakeKeepsShape ==
  ASSUME NEW H, Structs(H), NEW p, NEW bytes
  PROVE  SameShape(H, Take(H, p, bytes).H)
<1>1. PICK c : c = Chain(H, p)
  OBVIOUS
<1> DEFINE done(i) == Smaller(Before(H, c, i), Len(bytes))
           n(i) == Smaller(Len(bytes) - done(i), H[c[i]].len)
           part(i) == SubSeq(bytes, done(i) + 1, done(i) + n(i))
           G == [q \in DOMAIN H |->
                   IF q \in ToSet(c)
                   THEN Filled(H[c[CHOOSE i \in DOMAIN c : c[i] = q]], 0,
                               part(CHOOSE i \in DOMAIN c : c[i] = q))
                   ELSE H[q]]
<1>2. Take(H, p, bytes).H \in {H, G}
  BY <1>1 DEF Take
<1> HIDE DEF part
<1>3. ASSUME NEW q \in DOMAIN H
      PROVE  OtherBytes(H[q], G[q])
  <2>1. CASE q \in ToSet(c)
    <3>1. PICK i : i = CHOOSE j \in DOMAIN c : c[j] = q
      OBVIOUS
    <3>2. c[i] = q
      BY <2>1, <3>1 DEF ToSet
    <3>3. G[q] = Filled(H[q], 0, part(i))
      BY <2>1, <3>1, <3>2
    <3>4. QED
      BY <3>3, FilledIs DEF Structs
  <2>2. CASE q \notin ToSet(c)
    BY <2>2, SameBytes DEF Structs
  <2>3. QED
    BY <2>1, <2>2
<1>4. SameShape(H, G)
  BY <1>3, ShapeByPbuf
<1> HIDE DEF G
<1>5. QED
  BY <1>2, <1>4, SameHeap

\* So does pbuf_take_at().
LEMMA TakeAtKeepsShape ==
  ASSUME NEW H, Structs(H), NEW p, NEW bytes, NEW offset
  PROVE  SameShape(H, TakeAt(H, p, bytes, offset).H)
<1>1. PICK at, first, begun : /\ at = Skip(H, p, offset)
                              /\ first = Smaller(H[at.q].len - at.offset, Len(bytes))
                              /\ begun = Put(H, at.q, at.offset, SubSeq(bytes, 1, first))
  OBVIOUS
<1>2. PICK rest : rest = SubSeq(bytes, first + 1, Len(bytes))
  OBVIOUS
<1>3. TakeAt(H, p, bytes, offset).H \in {H, begun, Take(begun, H[at.q].next, rest).H}
  BY <1>1, <1>2 DEF TakeAt
<1>4. SameShape(H, begun)
  BY <1>1, PutKeepsShape
<1>5. SameShape(H, H)
  BY SameHeap
<1>6. SameShape(H, Take(begun, H[at.q].next, rest).H)
  <2>1. Structs(begun)
    BY <1>4, StructsStay
  <2>2. SameShape(begun, Take(begun, H[at.q].next, rest).H)
    BY <2>1, TakeKeepsShape
  <2>3. QED
    BY <1>4, <2>2, ShapesFollow
<1>7. QED
  BY <1>3, <1>4, <1>5, <1>6

\* And pbuf_put_at().
LEMMA PutAtKeepsShape ==
  ASSUME NEW H, Structs(H), NEW p, NEW offset, NEW b
  PROVE  SameShape(H, PutAt(H, p, offset, b))
BY PutKeepsShape, SameHeap DEF PutAt

\* The states of the loop of pbuf_copy_partial_pbuf().
CopyStep(st) == IF st.err = "again" THEN CopyTurn(st) ELSE st
Copying(f, n, start) == f = [i \in 0 .. n |-> IF i = 0 THEN start ELSE CopyStep(f[i - 1])]

\* The loop has its states.
LEMMA CopyRuns ==
  ASSUME NEW turns \in Nat, NEW start
  PROVE  \E f : Copying(f, turns, start)
<1> DEFINE P == {n \in Nat : \E f : Copying(f, n, start)}
<1>1. 0 \in P
  <2>1. Copying([i \in 0 .. 0 |-> start], 0, start)
    BY DEF Copying
  <2>2. QED
    BY <2>1
<1>2. ASSUME NEW n \in 0 .. turns - 1, n \in P
      PROVE  n + 1 \in P
  <2>1. PICK f : Copying(f, n, start)
    BY <1>2
  <2> DEFINE g == [i \in 0 .. n + 1 |-> IF i = n + 1 THEN CopyStep(f[n]) ELSE f[i]]
  <2>2. \A i \in 0 .. n : f[i] = IF i = 0 THEN start ELSE CopyStep(f[i - 1])
    BY <2>1 DEF Copying
  <2>3. ASSUME NEW i \in 0 .. n + 1
        PROVE  g[i] = IF i = 0 THEN start ELSE CopyStep(g[i - 1])
    <3>1. CASE i = n + 1
      <4>1. g[i] = CopyStep(f[n]) /\ g[i - 1] = f[n] /\ i # 0
        BY <3>1
      <4>2. QED
        BY <4>1
    <3>2. CASE i # n + 1
      <4>1. i \in 0 .. n /\ g[i] = f[i] /\ (i # 0 => g[i - 1] = f[i - 1])
        BY <3>2
      <4> HIDE DEF g
      <4>2. QED
        BY <2>2, <4>1
    <3>3. QED
      BY <3>1, <3>2
  <2>4. g = [i \in 0 .. n + 1 |-> g[i]]
    OBVIOUS
  <2> HIDE DEF g
  <2>5. Copying(g, n + 1, start)
    BY <2>3, <2>4 DEF Copying
  <2>6. QED
    BY <2>5
<1>3. turns \in P
  <2> HIDE DEF P
  <2>1. turns \in 0 .. turns
    OBVIOUS
  <2>2. QED
    BY <1>1, <1>2, <2>1, CountingUp
<1>4. QED
  BY <1>3

\* A turn of the loop writes payload only.
LEMMA CopyStepKeepsShape ==
  ASSUME NEW H, Structs(H), NEW st, SameShape(H, st.H)
  PROVE  SameShape(H, CopyStep(st).H)
<1>1. PICK n : n = Smaller(st.left, Smaller(st.H[st.to].len - st.offsetTo,
                                           st.H[st.from].len - st.offsetFrom))
  OBVIOUS
<1>2. PICK bytes : bytes = SubSeq(Payload(st.H, st.from), st.offsetFrom + 1, st.offsetFrom + n)
  OBVIOUS
<1>3. CopyTurn(st).H = Put(st.H, st.to, st.offsetTo, bytes)
  BY <1>1, <1>2 DEF CopyTurn
<1>4. SameShape(st.H, CopyTurn(st).H)
  BY <1>3, StructsStay, PutKeepsShape
<1>5. SameShape(H, CopyTurn(st).H)
  BY <1>4, ShapesFollow
<1>6. QED
  BY <1>5 DEF CopyStep

\* pbuf_copy_partial_pbuf() writes payload only.
LEMMA CopyKeepsShape ==
  ASSUME NEW H, Linked(H), Structs(H), NEW to \in DOMAIN H, NEW from \in DOMAIN H,
         NEW n, NEW offset
  PROVE  SameShape(H, CopyPartialPbuf(H, to, from, n, offset).H)
<1>1. PICK turns : turns = Clen(H, to) + Clen(H, from) + 1
  OBVIOUS
<1>2. turns \in Nat
  <2>1. Clen(H, to) \in Nat /\ Clen(H, from) \in Nat
    BY ChainIs DEF Clen, IsChain, LinkedFrom
  <2>2. QED
    BY <1>1, <2>1
<1>3. PICK start : start = [H |-> H, to |-> to, from |-> from, left |-> n, offsetTo |-> offset,
                            offsetFrom |-> 0, err |-> "again"]
  OBVIOUS
<1>4. PICK after : after = CHOOSE f : Copying(f, turns, start)
  OBVIOUS
<1>5. Copying(after, turns, start)
  BY <1>2, <1>4, CopyRuns
<1>6. CopyPartialPbuf(H, to, from, n, offset).H \in {H, after[turns].H}
  BY <1>1, <1>3, <1>4 DEF CopyPartialPbuf, Copying, CopyStep
<1>7. SameShape(H, after[turns].H)
  <2> DEFINE P == {i \in 0 .. turns : SameShape(H, after[i].H)}
  <2>1. 0 \in P
    <3>1. after[0] = start
      BY <1>2, <1>5 DEF Copying
    <3>2. QED
      BY <1>2, <1>3, <3>1, SameHeap
  <2>2. ASSUME NEW i \in 0 .. turns - 1, i \in P
        PROVE  i + 1 \in P
    <3>1. i + 1 \in 0 .. turns /\ i + 1 # 0 /\ (i + 1) - 1 = i
      BY <1>2
    <3>2. after[i + 1] = CopyStep(after[i])
      BY <1>5, <3>1 DEF Copying
    <3>3. SameShape(H, CopyStep(after[i]).H)
      BY <2>2, CopyStepKeepsShape
    <3>4. QED
      BY <3>1, <3>2, <3>3
  <2>3. turns \in P
    <3> HIDE DEF P
    <3>1. turns \in 0 .. turns
      BY <1>2
    <3>2. QED
      BY <1>2, <2>1, <2>2, <3>1, CountingUp
  <2>4. QED
    BY <2>3
<1>8. QED
  BY <1>6, <1>7, SameHeap

\* pbuf_clone() keeps a heap in order, and has made one more pbuf.
Cloning(H, h, new, G) ==
  HeapOk(G, [h EXCEPT ![new] = 1]) /\ DOMAIN G = DOMAIN H \cup {new}

\* pbuf_clone() keeps the heap in order, with one more pbuf the caller holds.
LEMMA CloneOk ==
  ASSUME NEW H, NEW h, HeapOk(H, h), NEW p \in DOMAIN H, NEW new \in Addresses \ DOMAIN H,
         NEW layer \in Nat
  PROVE  Cloning(H, h, new, Cloned(H, layer, p, new))
<1>1. PICK G : G = With(H, new, AllocedRam(layer, H[p].tot_len))
  OBVIOUS
<1>2. H[p].tot_len \in 0 .. Width - 1
  BY DEF HeapOk, Linked, IsPbuf
<1>3. HeapOk(G, [h EXCEPT ![new] = 1])
  BY <1>1, <1>2, RamOk
<1>4. DOMAIN G = DOMAIN H \cup {new}
  BY <1>1 DEF With
<1>5. Cloned(H, layer, p, new) = CopyPbuf(G, new, p).H
  BY <1>1 DEF Cloned
<1>6. SameShape(G, CopyPbuf(G, new, p).H)
  <2>1. Linked(G) /\ Structs(G) /\ new \in DOMAIN G /\ p \in DOMAIN G
    BY <1>3, <1>4 DEF HeapOk, Linked, Structs
  <2>2. QED
    BY <2>1, CopyKeepsShape DEF CopyPbuf
<1>7. QED
  BY <1>3, <1>4, <1>5, <1>6, SameShapeKeeps, ZenonT(60) DEF SameShape, Cloning

-----------------------------------------------------------------------------
(* The lengths along a chain.                                              *)

\* f are the lengths before the first pbufs of a chain.
Upto(H, c, f, n) ==
  f = [j \in 1 .. n |-> IF j = 1 THEN 0 ELSE f[j - 1] + H[c[j - 1]].len]

\* What is before the next pbuf is what is before a pbuf, and the pbuf.
BeforeGrows(H, c) ==
  /\ Before(H, c, 1) = 0
  /\ \A i \in 1 .. Len(c) : Before(H, c, i) \in Nat
  /\ \A i \in 1 .. Len(c) - 1 : Before(H, c, i + 1) = Before(H, c, i) + H[c[i]].len

\* The recursive function of Before has a value, and it adds up.
LEMMA BeforeIs ==
  ASSUME NEW H, Structs(H), NEW c \in Seq(DOMAIN H), Len(c) > 0
  PROVE  BeforeGrows(H, c)
<1>1. PICK m \in Nat : m = Len(c) /\ DOMAIN c = 1 .. m /\ m > 0
  OBVIOUS
<1>2. \A i \in 1 .. m : H[c[i]].len \in Nat
  BY <1>1 DEF Structs, IsPbuf
<1> DEFINE P == {n \in Nat : \E f : Upto(H, c, f, n)}
<1>3. 0 \in P
  <2>1. Upto(H, c, [j \in 1 .. 0 |-> 0], 0)
    BY DEF Upto
  <2>2. QED
    BY <2>1
<1>4. ASSUME NEW n \in 0 .. m - 1, n \in P
      PROVE  n + 1 \in P
  <2>1. PICK f : Upto(H, c, f, n)
    BY <1>4
  <2> DEFINE new == IF n = 0 THEN 0 ELSE f[n] + H[c[n]].len
             g == [j \in 1 .. n + 1 |-> IF j = n + 1 THEN new ELSE f[j]]
  <2>2. \A j \in 1 .. n : f[j] = IF j = 1 THEN 0 ELSE f[j - 1] + H[c[j - 1]].len
    BY <2>1 DEF Upto
  <2>3. ASSUME NEW j \in 1 .. n + 1
        PROVE  g[j] = IF j = 1 THEN 0 ELSE g[j - 1] + H[c[j - 1]].len
    <3>1. CASE j = n + 1
      <4>1. g[j] = new /\ j - 1 = n /\ (n = 0 <=> j = 1) /\ (j # 1 => g[j - 1] = f[n])
        BY <3>1
      <4> HIDE DEF g
      <4>2. QED
        BY <4>1
    <3>2. CASE j # n + 1
      <4>1. j \in 1 .. n /\ g[j] = f[j] /\ (j # 1 => g[j - 1] = f[j - 1])
        BY <3>2
      <4> HIDE DEF g
      <4>2. QED
        BY <2>2, <4>1
    <3>3. QED
      BY <3>1, <3>2
  <2>4. g = [j \in 1 .. n + 1 |-> g[j]]
    OBVIOUS
  <2> HIDE DEF g
  <2>5. Upto(H, c, g, n + 1)
    BY <2>3, <2>4 DEF Upto
  <2>6. QED
    BY <2>5
<1>5. PICK f : f = CHOOSE g : Upto(H, c, g, m)
  OBVIOUS
<1>6. Upto(H, c, f, m)
  <2>1. m \in 0 .. m
    OBVIOUS
  <2>2. m \in P
    <3> HIDE DEF P
    <3>1. QED
      BY <1>3, <1>4, <2>1, CountingUp
  <2>3. QED
    BY <1>5, <2>2
<1>7. \A i : Before(H, c, i) = f[i]
  BY <1>1, <1>5 DEF Before, Upto
<1>8. \A i \in 1 .. m : f[i] = IF i = 1 THEN 0 ELSE f[i - 1] + H[c[i - 1]].len
  BY <1>6 DEF Upto
<1>9. f[1] = 0
  <2>1. 1 \in 1 .. m
    BY <1>1
  <2>2. QED
    BY <1>8, <2>1
<1>10. ASSUME NEW i \in 1 .. m - 1
       PROVE  f[i + 1] = f[i] + H[c[i]].len
  <2>1. i + 1 \in 1 .. m /\ i + 1 # 1 /\ (i + 1) - 1 = i
    OBVIOUS
  <2>2. QED
    BY <1>8, <2>1
<1>11. \A i \in 1 .. m : f[i] \in Nat
  <2> DEFINE Q == {n \in Nat : n + 1 \in 1 .. m => f[n + 1] \in Nat}
  <2>1. 0 \in Q
    BY <1>9
  <2>2. ASSUME NEW n \in 0 .. m - 1, n \in Q
        PROVE  n + 1 \in Q
    <3>1. CASE n + 1 \in 1 .. m - 1
      <4>1. f[(n + 1) + 1] = f[n + 1] + H[c[n + 1]].len
        BY <1>10, <3>1
      <4>2. f[n + 1] \in Nat /\ H[c[n + 1]].len \in Nat
        BY <1>2, <2>2, <3>1
      <4>3. QED
        BY <4>1, <4>2
    <3>2. CASE n + 1 \notin 1 .. m - 1
      BY <3>2
    <3>3. QED
      BY <3>1, <3>2
  <2>3. ASSUME NEW i \in 1 .. m
        PROVE  f[i] \in Nat
    <3>1. i - 1 \in 0 .. m /\ (i - 1) + 1 = i
      OBVIOUS
    <3>2. i - 1 \in Q
      <4> HIDE DEF Q
      <4>1. QED
        BY <2>1, <2>2, <3>1, CountingUp
    <3>3. QED
      BY <3>1, <3>2
  <2>4. QED
    BY <2>3
<1>12. QED
  BY <1>1, <1>7, <1>9, <1>10, <1>11 DEF BeforeGrows

\* tot_len is what is left of the chain.
LengthsAlong(H, p, c) ==
  /\ \A i \in 1 .. Len(c) : H[c[i]].tot_len = H[p].tot_len - Before(H, c, i)
  /\ H[c[Len(c)]].tot_len = H[c[Len(c)]].len

\* Along a chain whose lengths add up, tot_len is what is left.
LEMMA LengthsAre ==
  ASSUME NEW H, Linked(H), Structs(H), Summed(H), NEW p, NEW c, IsChain(H, p, c)
  PROVE  LengthsAlong(H, p, c) /\ BeforeGrows(H, c)
<1>1. /\ c \in Seq(DOMAIN H) /\ Len(c) \in Nat /\ Len(c) > 0 /\ c[1] = p
      /\ \A i \in 1 .. Len(c) : c[i] \in DOMAIN H
      /\ \A i \in 1 .. Len(c) : H[c[i]].next = IF i = Len(c) THEN NULL ELSE c[i + 1]
  BY DEF IsChain, LinkedFrom
<1>2. BeforeGrows(H, c)
  BY <1>1, BeforeIs
<1>3. NULL \notin DOMAIN H
  BY ConstantsAssumption DEF Linked, ConstantsAssumption
<1>4. \A q \in DOMAIN H : H[q].len \in Nat /\ H[q].tot_len \in Nat
  BY ConstantsAssumption DEF Structs, IsPbuf, ConstantsAssumption
<1>5. ASSUME NEW i \in 1 .. Len(c), i # Len(c)
      PROVE  H[c[i]].tot_len = H[c[i]].len + H[c[i + 1]].tot_len
  <2>1. i + 1 \in 1 .. Len(c)
    BY <1>1, <1>5
  <2>2. H[c[i]].next = c[i + 1] /\ c[i + 1] # NULL
    BY <1>1, <1>3, <1>5, <2>1
  <2>3. QED
    BY <1>1, <2>2 DEF Summed
<1>6. H[c[Len(c)]].tot_len = H[c[Len(c)]].len
  <2>1. Len(c) \in 1 .. Len(c)
    BY <1>1
  <2>2. QED
    BY <1>1, <1>4, <2>1 DEF Summed
<1> DEFINE Q == {n \in Nat : n + 1 \in 1 .. Len(c) =>
                   H[c[n + 1]].tot_len = H[p].tot_len - Before(H, c, n + 1)}
<1>7. 0 \in Q
  <2>1. H[p].tot_len = H[p].tot_len - 0
    BY <1>1, <1>4
  <2>2. QED
    BY <1>1, <1>2, <2>1 DEF BeforeGrows
<1>8. ASSUME NEW n \in 0 .. Len(c) - 1, n \in Q
      PROVE  n + 1 \in Q
  <2>1. CASE n + 1 \in 1 .. Len(c) - 1
    <3>1. n + 1 \in 1 .. Len(c) /\ n + 1 # Len(c) /\ (n + 1) + 1 \in 1 .. Len(c)
      BY <1>1, <2>1
    <3>2. H[c[n + 1]].tot_len = H[c[n + 1]].len + H[c[(n + 1) + 1]].tot_len
      BY <1>5, <3>1
    <3>3. Before(H, c, (n + 1) + 1) = Before(H, c, n + 1) + H[c[n + 1]].len
      BY <1>2, <2>1 DEF BeforeGrows
    <3>4. Before(H, c, n + 1) \in Nat
      BY <1>2, <3>1 DEF BeforeGrows
    <3>5. H[c[n + 1]].tot_len = H[p].tot_len - Before(H, c, n + 1)
      BY <1>8, <3>1
    <3>6. H[c[(n + 1) + 1]].tot_len \in Nat /\ H[c[n + 1]].len \in Nat /\ H[p].tot_len \in Nat
          /\ H[c[n + 1]].tot_len \in Nat
      <4>1. p \in DOMAIN H
        BY <1>1
      <4>2. QED
        BY <1>1, <1>4, <3>1, <4>1
    <3>7. H[c[(n + 1) + 1]].tot_len = H[p].tot_len - Before(H, c, (n + 1) + 1)
      BY <3>2, <3>3, <3>4, <3>5, <3>6, SMTT(30)
    <3>8. QED
      BY <3>7
  <2>2. CASE n + 1 \notin 1 .. Len(c) - 1
    BY <1>1, <2>2
  <2>3. QED
    BY <2>1, <2>2
<1>9. ASSUME NEW i \in 1 .. Len(c)
      PROVE  H[c[i]].tot_len = H[p].tot_len - Before(H, c, i)
  <2>1. i - 1 \in 0 .. Len(c) /\ (i - 1) + 1 = i
    BY <1>1
  <2>2. i - 1 \in Q
    <3> HIDE DEF Q
    <3>1. QED
      BY <1>1, <1>7, <1>8, <2>1, CountingUp
  <2>3. QED
    BY <2>1, <2>2
<1>10. QED
  BY <1>2, <1>6, <1>9 DEF LengthsAlong

\* No other pbuf leads into the chain.
Alone(H, c) == \A i \in 1 .. Len(c) : LinksTo(H, c[i]) = IF i = 1 THEN {} ELSE {c[i - 1]}

\* That is what the contract of the functions that change lengths asks for.
LEMMA ExclusiveIs ==
  ASSUME Linked(pbufs), NEW p \in DOMAIN pbufs, Exclusive(p), NEW c, IsChain(pbufs, p, c),
         c = Chain(pbufs, p)
  PROVE  Alone(pbufs, c)
<1>1. /\ c \in Seq(DOMAIN pbufs) /\ Len(c) \in Nat /\ Len(c) > 0 /\ c[1] = p
      /\ DOMAIN c = 1 .. Len(c)
      /\ \A i \in 1 .. Len(c) : c[i] \in DOMAIN pbufs
      /\ \A i \in 1 .. Len(c) : pbufs[c[i]].next = IF i = Len(c) THEN NULL ELSE c[i + 1]
      /\ \A i \in 1 .. Len(c), j \in 1 .. Len(c) : c[i] = c[j] => i = j
  BY DEF IsChain, LinkedFrom
<1>2. ASSUME NEW i \in 1 .. Len(c)
      PROVE  LinksTo(pbufs, c[i]) = IF i = 1 THEN {} ELSE {c[i - 1]}
  <2>1. Cardinality(LinksTo(pbufs, c[i])) = IF c[i] = p THEN 0 ELSE 1
    <3>1. c[i] \in ToSet(Chain(pbufs, p))
      BY <1>1 DEF ToSet
    <3>2. QED
      BY <3>1 DEF Exclusive
  <2>2. c[i] = p <=> i = 1
    <3>1. 1 \in 1 .. Len(c)
      <4>1. Len(c) \in Nat /\ Len(c) > 0
        BY <1>1
      <4>2. QED
        BY <4>1
    <3>2. QED
      BY <1>1, <3>1
  <2>3. IsFiniteSet(LinksTo(pbufs, c[i]))
    BY LinksAreFinite DEF Linked
  <2>4. CASE i = 1
    BY <2>1, <2>2, <2>3, <2>4, FewElements
  <2>5. CASE i # 1
    <3>1. i - 1 \in 1 .. Len(c) /\ i - 1 # Len(c) /\ (i - 1) + 1 = i
      <4>1. Len(c) \in Nat
        BY <1>1
      <4>2. QED
        BY <2>5, <4>1
    <3>2. c[i - 1] \in LinksTo(pbufs, c[i])
      BY <1>1, <3>1 DEF LinksTo
    <3>3. Cardinality(LinksTo(pbufs, c[i])) = 1
      BY <2>1, <2>2, <2>5
    <3>4. LinksTo(pbufs, c[i]) = {c[i - 1]}
      BY <2>3, <3>2, <3>3, FewElements
    <3>5. QED
      BY <2>5, <3>4
  <2>6. QED
    BY <2>4, <2>5
<1>3. QED
  BY <1>2 DEF Alone

-----------------------------------------------------------------------------
(* Changing lengths and links.                                             *)

\* Lengths that fit their 16 bits.
LEMMA FitsWidth ==
  ASSUME NEW n \in 0 .. Width - 1
  PROVE  n % Width = n
<1>1. Width \in Nat /\ Width > 0
  BY ConstantsAssumption DEF ConstantsAssumption
<1>2. QED
  BY <1>1

\* A heap in which nothing but lengths and bytes have changed.
LEMMA SameLinks ==
  ASSUME NEW H, NEW h, Linked(H), Counted(H, h), NEW G, DOMAIN G = DOMAIN H,
         \A q \in DOMAIN H : IsPbuf(G[q]) /\ G[q].next = H[q].next /\ G[q].ref = H[q].ref
  PROVE  Linked(G) /\ Counted(G, h)
<1>1. \A q : LinksTo(G, q) = LinksTo(H, q)
  BY DEF LinksTo
<1>2. Grounded(G)
  BY DEF Linked, Grounded
<1>3. Linked(G)
  BY <1>2 DEF Linked
<1>4. Counted(G, h)
  BY <1>1 DEF Counted
<1>5. QED
  BY <1>3, <1>4

\* A chain cut behind a pbuf: the rest is left to who has cut it.
LEMMA CutLinks ==
  ASSUME NEW H, NEW h, Linked(H), Counted(H, h), NEW x \in DOMAIN H, NEW y \in DOMAIN H,
         H[x].next = y, NEW G, DOMAIN G = DOMAIN H,
         \A q \in DOMAIN H : /\ IsPbuf(G[q]) /\ G[q].ref = H[q].ref
                             /\ G[q].next = IF q = x THEN NULL ELSE H[q].next
  PROVE  Linked(G) /\ Counted(G, [h EXCEPT ![y] = @ + 1])
<1>1. NULL \notin DOMAIN H /\ DOMAIN H \subseteq Addresses
  BY ConstantsAssumption DEF Linked, ConstantsAssumption
<1>2. \A q \in DOMAIN H : LinksTo(G, q) = IF q = y THEN LinksTo(H, q) \ {x} ELSE LinksTo(H, q)
  BY <1>1 DEF LinksTo
<1>3. Grounded(G)
  <2>1. ASSUME NEW S \in SUBSET DOMAIN G, S # {}
        PROVE  \E q \in S : G[q].next \notin S
    <3>1. PICK q \in S : H[q].next \notin S
      BY <2>1 DEF Linked, Grounded
    <3>2. NULL \notin S
      BY <1>1
    <3>3. QED
      BY <3>1, <3>2
  <2>2. QED
    BY <2>1 DEF Grounded
<1>4. Linked(G)
  BY <1>3 DEF Linked
<1>5. PICK g : g = [h EXCEPT ![y] = @ + 1]
  OBVIOUS
<1>6. h \in [Addresses -> Nat] /\ y \in Addresses
  BY <1>1 DEF Counted
<1>7. g \in [Addresses -> Nat] /\ g[y] = h[y] + 1 /\ \A q \in Addresses : q # y => g[q] = h[q]
  BY <1>5, <1>6
<1>8. G[y].ref = g[y] + Cardinality(LinksTo(G, y)) /\ G[y].ref > 0
  <2>1. IsFiniteSet(LinksTo(H, y)) /\ Cardinality(LinksTo(H, y)) \in Nat /\ x \in LinksTo(H, y)
    <3>1. x \in LinksTo(H, y)
      BY DEF LinksTo
    <3>2. QED
      BY <3>1, LinksAreFinite DEF Linked
  <2>2. Cardinality(LinksTo(G, y)) = Cardinality(LinksTo(H, y)) - 1
    BY <1>2, <2>1, FewElements
  <2>3. H[y].ref = h[y] + Cardinality(LinksTo(H, y)) /\ H[y].ref > 0
    BY DEF Counted
  <2>4. h[y] \in Nat /\ G[y].ref = H[y].ref
    BY <1>6
  <2>5. QED
    BY <1>7, <2>1, <2>2, <2>3, <2>4
<1>9. ASSUME NEW q \in DOMAIN G, q # y
      PROVE  G[q].ref = g[q] + Cardinality(LinksTo(G, q)) /\ G[q].ref > 0
  <2>1. H[q].ref = h[q] + Cardinality(LinksTo(H, q)) /\ H[q].ref > 0
    BY DEF Counted
  <2>2. QED
    BY <1>1, <1>2, <1>7, <1>9, <2>1
<1>10. \A q \in Addresses \ DOMAIN G : g[q] = 0
  BY <1>7 DEF Counted
<1>11. Counted(G, g)
  BY <1>7, <1>8, <1>9, <1>10 DEF Counted
<1>12. QED
  BY <1>4, <1>5, <1>11

\* One pointer of a user more, and one less again.
LEMMA OneMore ==
  ASSUME NEW h \in [Addresses -> Nat], NEW y \in Addresses
  PROVE  /\ [[h EXCEPT ![y] = @ + 1] EXCEPT ![y] = @ - 1] = h
         /\ [h EXCEPT ![y] = @ + 1][y] > 0
<1>1. PICK g : g = [h EXCEPT ![y] = @ + 1]
  OBVIOUS
<1>2. DOMAIN g = Addresses /\ g[y] = h[y] + 1 /\ \A q \in Addresses : q # y => g[q] = h[q]
  BY <1>1
<1>3. PICK f : f = [g EXCEPT ![y] = @ - 1]
  OBVIOUS
<1>4. f = [q \in Addresses |-> f[q]] /\ f[y] = g[y] - 1
      /\ \A q \in Addresses : q # y => f[q] = g[q]
  BY <1>2, <1>3
<1>5. h[y] \in Nat
  OBVIOUS
<1>6. \A q \in Addresses : f[q] = h[q]
  BY <1>2, <1>4, <1>5
<1>7. f = h
  BY <1>4, <1>6
<1>8. QED
  BY <1>1, <1>2, <1>3, <1>5, <1>7

\* pbuf_ref() keeps a heap in order.
LEMMA RefOk ==
  ASSUME NEW H, NEW h, HeapOk(H, h), NEW p \in DOMAIN H
  PROVE  HeapOk([H EXCEPT ![p].ref = @ + 1], [h EXCEPT ![p] = @ + 1])
<1>1. PICK G : G = [H EXCEPT ![p].ref = @ + 1]
  OBVIOUS
<1>2. PICK g : g = [h EXCEPT ![p] = @ + 1]
  OBVIOUS
<1>3. h \in [Addresses -> Nat] /\ p \in Addresses /\ DOMAIN H \subseteq Addresses
  BY DEF HeapOk, Counted, Linked
<1>4. g \in [Addresses -> Nat] /\ g[p] = h[p] + 1 /\ \A q \in Addresses : q # p => g[q] = h[q]
  BY <1>2, <1>3
<1>5. DOMAIN G = DOMAIN H /\ (\A q \in DOMAIN H : q # p => G[q] = H[q])
      /\ G[p] = [H[p] EXCEPT !.ref = @ + 1]
  BY <1>1
<1>6. /\ G[p].next = H[p].next /\ G[p].ref = H[p].ref + 1 /\ IsPbuf(G[p])
      /\ G[p].len = H[p].len /\ G[p].tot_len = H[p].tot_len /\ Buffered(G[p])
  <2>1. PICK b, d : b = H[p] /\ d = [b EXCEPT !.ref = @ + 1]
    OBVIOUS
  <2>2. IsPbuf(b) /\ Buffered(b)
    BY <2>1 DEF HeapOk, Linked
  <2>3. /\ d.next = b.next /\ d.ref = b.ref + 1 /\ IsPbuf(d) /\ d.len = b.len
        /\ d.tot_len = b.tot_len /\ d.mem = b.mem /\ d.payload = b.payload
    BY <2>1, <2>2 DEF IsPbuf
  <2>4. Buffered(d)
    BY <2>2, <2>3 DEF Buffered
  <2>5. QED
    BY <1>5, <2>1, <2>3, <2>4
<1>7. \A q \in DOMAIN H :
        G[q].next = H[q].next /\ G[q].len = H[q].len /\ G[q].tot_len = H[q].tot_len
  BY <1>5, <1>6
<1>8. \A q : LinksTo(G, q) = LinksTo(H, q)
  BY <1>5, <1>7 DEF LinksTo
<1>9. Linked(G)
  <2>1. \A q \in DOMAIN H : IsPbuf(G[q])
    BY <1>5, <1>6 DEF HeapOk, Linked
  <2>2. Grounded(G)
    BY <1>5, <1>7 DEF HeapOk, Linked, Grounded
  <2>3. QED
    BY <1>5, <1>7, <2>1, <2>2 DEF HeapOk, Linked
<1>10. Counted(G, g)
  <2>1. G[p].ref = g[p] + Cardinality(LinksTo(G, p)) /\ G[p].ref > 0
    <3>1. H[p].ref = h[p] + Cardinality(LinksTo(H, p)) /\ Cardinality(LinksTo(H, p)) \in Nat
      BY LinksAreFinite DEF HeapOk, Counted, Linked
    <3>2. h[p] \in Nat
      BY <1>3
    <3>3. QED
      BY <1>4, <1>6, <1>8, <3>1, <3>2
  <2>2. ASSUME NEW q \in DOMAIN H, q # p
        PROVE  G[q].ref = g[q] + Cardinality(LinksTo(G, q)) /\ G[q].ref > 0
    <3>1. H[q].ref = h[q] + Cardinality(LinksTo(H, q)) /\ H[q].ref > 0
      BY DEF HeapOk, Counted
    <3>2. QED
      BY <1>3, <1>4, <1>5, <1>8, <2>2, <3>1
  <2>3. \A q \in Addresses \ DOMAIN G : g[q] = 0
    BY <1>4, <1>5 DEF HeapOk, Counted
  <2>4. QED
    BY <1>4, <1>5, <2>1, <2>2, <2>3 DEF Counted
<1>11. Summed(G)
  BY <1>5, <1>7 DEF HeapOk, Summed, Linked
<1>12. \A q \in DOMAIN G : Buffered(G[q])
  BY <1>5, <1>6 DEF HeapOk
<1>13. QED
  BY <1>1, <1>2, <1>9, <1>10, <1>11, <1>12 DEF HeapOk

-----------------------------------------------------------------------------
(* Shortening a chain.                                                     *)

\* Where the chain is to end: in the first pbuf it can end in.
EndsIn(H, c, new_len, last) ==
  /\ last \in 1 .. Len(c)
  /\ Before(H, c, last) + H[c[last]].len >= new_len
  /\ \A j \in 1 .. last - 1 : Before(H, c, j) + H[c[j]].len < new_len

\* There is such a pbuf: the lengths add up.
LEMMA EndExists ==
  ASSUME NEW H, NEW p, NEW c, IsChain(H, p, c), Structs(H), BeforeGrows(H, c),
         LengthsAlong(H, p, c), NEW new_len \in Nat, new_len < H[p].tot_len
  PROVE  \E last : EndsIn(H, c, new_len, last)
<1>1. PICK m \in Nat : m = Len(c) /\ m > 0 /\ \A i \in 1 .. m : c[i] \in DOMAIN H
  BY DEF IsChain, LinkedFrom
<1>2. \A i \in 1 .. m : Before(H, c, i) \in Nat /\ H[c[i]].len \in Nat
  BY <1>1 DEF BeforeGrows, Structs, IsPbuf
<1> DEFINE S == {i \in 1 .. m : Before(H, c, i) + H[c[i]].len >= new_len}
<1>3. m \in S
  <2>1. m \in 1 .. m
    BY <1>1
  <2>2. H[c[m]].tot_len = H[p].tot_len - Before(H, c, m) /\ H[c[m]].tot_len = H[c[m]].len
    BY <1>1, <2>1 DEF LengthsAlong
  <2>3. H[p].tot_len \in Int /\ Before(H, c, m) \in Nat /\ H[c[m]].len \in Nat
    <3>1. p \in DOMAIN H
      BY <1>1 DEF IsChain, LinkedFrom
    <3>2. QED
      BY <1>2, <2>1, <3>1, ConstantsAssumption DEF Structs, IsPbuf, ConstantsAssumption
  <2>4. QED
    BY <2>1, <2>2, <2>3
<1>4. PICK last \in S : \A j \in S : last <= j
  <2> HIDE DEF S
  <2>1. S \in SUBSET Nat
    BY DEF S
  <2>2. QED
    BY <1>3, <2>1, LeastExists
<1>5. ASSUME NEW j \in 1 .. last - 1
      PROVE  Before(H, c, j) + H[c[j]].len < new_len
  <2>1. j \in 1 .. m /\ j \notin S
    BY <1>1, <1>4
  <2>2. QED
    BY <1>2, <2>1
<1>6. EndsIn(H, c, new_len, last)
  BY <1>1, <1>4, <1>5 DEF EndsIn
<1>7. QED
  BY <1>6

\* A pbuf that ends a chain after some of its bytes.
Ended(b, rem) == [b EXCEPT !.len = rem, !.tot_len = rem, !.next = NULL,
                           !.mem = SubSeq(@, 1, b.payload + rem)]

\* The heap with the chain shortened, before the rest of it is freed.
Shortened(H, c, new_len, last, shrink) ==
  LET rem == new_len - Before(H, c, last)
  IN  [q \in DOMAIN H |->
         IF q \in First(c, last - 1) THEN [H[q] EXCEPT !.tot_len = (@ - shrink) % Width]
         ELSE IF q = c[last] THEN Ended(H[q], rem)
         ELSE H[q]]

\* A pbuf with another link and other lengths, and the pointers to it as before.
Becomes(b, d, next, len, tot_len) ==
  /\ IsPbuf(d) /\ Buffered(d) /\ d.ref = b.ref
  /\ d.next = next /\ d.len = len /\ d.tot_len = tot_len

\* A pbuf before the end of the shortened chain.
LEMMA KeptPbuf ==
  ASSUME NEW b, IsPbuf(b), Buffered(b), NEW t, NEW n \in 0 .. Width - 1, t % Width = n
  PROVE  Becomes(b, [b EXCEPT !.tot_len = t % Width], b.next, b.len, n)
<1>1. PICK d : d = [b EXCEPT !.tot_len = n]
  OBVIOUS
<1>2. IsPbuf(d) /\ d.next = b.next /\ d.ref = b.ref /\ d.len = b.len /\ d.tot_len = n
      /\ d.mem = b.mem /\ d.payload = b.payload
  BY <1>1 DEF IsPbuf
<1>3. Buffered(d)
  BY <1>2 DEF Buffered
<1>4. QED
  BY <1>1, <1>2, <1>3 DEF Becomes

\* The pbuf it ends in.
LEMMA LastPbuf ==
  ASSUME NEW b, IsPbuf(b), Buffered(b), NEW rem \in 0 .. b.len, rem < Width
  PROVE  Becomes(b, Ended(b, rem), NULL, rem, rem)
<1>1. PICK A, n : A = ToSet(b.mem) /\ n = b.payload + rem
  OBVIOUS
<1>2. b.mem \in Seq(A) /\ n \in 0 .. Len(b.mem) /\ rem \in Nat /\ b.payload \in Nat
  BY <1>1 DEF Buffered, IsPbuf
<1>3. PICK m : m = SubSeq(b.mem, 1, n)
  OBVIOUS
<1>4. m \in Seq(A) /\ Len(m) = n
  BY <1>2, <1>3
<1>5. m \in Seq(ToSet(m))
  BY <1>4, SeqOfElements
<1>6. PICK d : d = [b EXCEPT !.len = rem, !.tot_len = rem, !.next = NULL, !.mem = m]
  OBVIOUS
<1>7. IsPbuf(d) /\ d.next = NULL /\ d.ref = b.ref /\ d.len = rem /\ d.tot_len = rem
      /\ d.mem = m /\ d.payload = b.payload
  <2>1. rem \in Nat /\ rem \in 0 .. Width - 1
    BY <1>2, ConstantsAssumption DEF ConstantsAssumption
  <2>2. QED
    BY <1>6, <2>1 DEF IsPbuf
<1>8. Buffered(d)
  BY <1>1, <1>2, <1>4, <1>5, <1>7 DEF Buffered
<1>9. d = Ended(b, rem)
  BY <1>1, <1>3, <1>6 DEF IsPbuf, Ended
<1>10. QED
  BY <1>7, <1>8, <1>9 DEF Becomes

\* The pbufs of the shortened heap.
ShortenedPbufs(H, G, c, new_len, last) ==
  /\ DOMAIN G = DOMAIN H
  /\ \A i \in 1 .. last - 1 :
       Becomes(H[c[i]], G[c[i]], H[c[i]].next, H[c[i]].len, new_len - Before(H, c, i))
  /\ Becomes(H[c[last]], G[c[last]], NULL, new_len - Before(H, c, last),
             new_len - Before(H, c, last))
  /\ \A q \in DOMAIN H : q \notin First(c, last) => G[q] = H[q]

\* The loop of pbuf_realloc() leaves the lengths it is to leave, pbuf by pbuf.
LEMMA ShortenedIs ==
  ASSUME NEW H, NEW p, NEW c, IsChain(H, p, c), Structs(H), BeforeGrows(H, c),
         LengthsAlong(H, p, c), NEW new_len \in Nat, new_len < H[p].tot_len,
         NEW last, EndsIn(H, c, new_len, last)
  PROVE  ShortenedPbufs(H, Shortened(H, c, new_len, last, H[p].tot_len - new_len),
                        c, new_len, last)
<1>1. PICK m \in Nat : m = Len(c) /\ m > 0
  BY DEF IsChain, LinkedFrom
<1>2. /\ p \in DOMAIN H /\ last \in 1 .. m /\ \A i \in 1 .. m : c[i] \in DOMAIN H
      /\ \A i \in 1 .. m, j \in 1 .. m : c[i] = c[j] => i = j
  BY <1>1 DEF IsChain, LinkedFrom, EndsIn
<1>3. \A i \in 1 .. m : Before(H, c, i) \in Nat /\ H[c[i]].len \in Nat
                        /\ IsPbuf(H[c[i]]) /\ Buffered(H[c[i]])
  BY <1>1, <1>2 DEF BeforeGrows, Structs, IsPbuf
<1>4. PICK t, shrink : t = H[p].tot_len /\ shrink = t - new_len
  OBVIOUS
<1>5. t \in 0 .. Width - 1 /\ new_len < t /\ Width \in Nat
  BY <1>2, <1>4, ConstantsAssumption DEF Structs, IsPbuf, ConstantsAssumption
<1>6. PICK G : G = Shortened(H, c, new_len, last, shrink)
  OBVIOUS
<1>7. DOMAIN G = DOMAIN H
  BY <1>6 DEF Shortened
<1>8. ASSUME NEW i \in 1 .. last - 1
      PROVE  Becomes(H[c[i]], G[c[i]], H[c[i]].next, H[c[i]].len, new_len - Before(H, c, i))
  <2>1. i \in 1 .. m /\ c[i] \in First(c, last - 1) /\ c[i] \in DOMAIN H
    BY <1>2 DEF First
  <2>2. H[c[i]].tot_len = t - Before(H, c, i)
    BY <1>1, <1>4, <2>1 DEF LengthsAlong
  <2>3. Before(H, c, i) + H[c[i]].len < new_len
    BY DEF EndsIn
  <2>4. PICK x : x = H[c[i]].tot_len - shrink
    OBVIOUS
  <2>5. x = new_len - Before(H, c, i)
    BY <1>3, <1>4, <1>5, <2>1, <2>2, <2>4
  <2>6. x \in 0 .. Width - 1
    BY <1>3, <1>5, <2>1, <2>3, <2>5
  <2>7. x % Width = x
    BY <2>6, FitsWidth
  <2>8. G[c[i]] = [H[c[i]] EXCEPT !.tot_len = x % Width]
    BY <1>6, <2>1, <2>4 DEF Shortened, IsPbuf
  <2>9. IsPbuf(H[c[i]]) /\ Buffered(H[c[i]])
    BY <1>3, <2>1
  <2>10. QED
    BY <2>5, <2>6, <2>7, <2>8, <2>9, KeptPbuf
<1>9. PICK rem : rem = new_len - Before(H, c, last)
  OBVIOUS
<1>10. c[last] \notin First(c, last - 1)
  <2>1. ASSUME NEW i \in 1 .. last - 1, c[last] = c[i]
        PROVE  FALSE
    <3>1. i \in 1 .. m /\ i # last
      BY <1>2
    <3>2. QED
      BY <1>2, <2>1, <3>1
  <2>2. QED
    BY <2>1 DEF First
<1>11. Becomes(H[c[last]], G[c[last]], NULL, rem, rem)
  <2>1. rem \in 0 .. H[c[last]].len
    <3>1. Before(H, c, last) + H[c[last]].len >= new_len
      BY DEF EndsIn
    <3>2. Before(H, c, last) <= new_len
      <4>1. CASE last = 1
        BY <4>1 DEF BeforeGrows
      <4>2. CASE last # 1
        <5>1. last - 1 \in 1 .. last - 1 /\ last - 1 \in 1 .. m - 1 /\ (last - 1) + 1 = last
          BY <1>2, <4>2
        <5>2. Before(H, c, last - 1) + H[c[last - 1]].len < new_len
          BY <5>1 DEF EndsIn
        <5>3. Before(H, c, last) = Before(H, c, last - 1) + H[c[last - 1]].len
          BY <1>1, <5>1 DEF BeforeGrows
        <5>4. last - 1 \in 1 .. m
          BY <5>1
        <5>5. QED
          BY <1>2, <1>3, <5>2, <5>3, <5>4
      <4>3. QED
        BY <4>1, <4>2
    <3>3. QED
      BY <1>2, <1>3, <1>9, <3>1, <3>2
  <2>2. rem < Width
    BY <1>2, <1>3, <1>5, <1>9
  <2>3. PICK b : b = H[c[last]]
    OBVIOUS
  <2>4. G[c[last]] = Ended(b, rem)
    BY <1>2, <1>6, <1>9, <1>10, <2>3 DEF Shortened
  <2>5. IsPbuf(b) /\ Buffered(b) /\ rem \in 0 .. b.len
    BY <1>2, <1>3, <2>1, <2>3
  <2>6. Becomes(b, G[c[last]], NULL, rem, rem)
    BY <2>2, <2>4, <2>5, LastPbuf
  <2>7. QED
    BY <2>3, <2>6
<1>12. \A q \in DOMAIN H : q \notin First(c, last) => G[q] = H[q]
  <2>1. First(c, last - 1) \subseteq First(c, last) /\ c[last] \in First(c, last)
    BY <1>2 DEF First
  <2>2. QED
    BY <1>6, <2>1 DEF Shortened
<1>13. QED
  BY <1>4, <1>6, <1>7, <1>8, <1>9, <1>11, <1>12 DEF ShortenedPbufs

\* In the shortened heap the lengths add up.
LEMMA ShortenedSums ==
  ASSUME NEW H, NEW p, NEW c, Linked(H), IsChain(H, p, c), Structs(H), Summed(H),
         BeforeGrows(H, c), Alone(H, c), NEW new_len \in Nat,
         NEW last \in 1 .. Len(c), NEW G, ShortenedPbufs(H, G, c, new_len, last)
  PROVE  Summed(G) /\ Structs(G)
<1>1. PICK m \in Nat : m = Len(c) /\ m > 0 /\ last \in 1 .. m
  BY DEF IsChain, LinkedFrom
<1>2. /\ \A i \in 1 .. m : c[i] \in DOMAIN H
      /\ \A i \in 1 .. m : H[c[i]].next = IF i = m THEN NULL ELSE c[i + 1]
  BY <1>1 DEF IsChain, LinkedFrom
<1>3. \A i \in 1 .. m : Before(H, c, i) \in Nat /\ H[c[i]].len \in Nat
  BY <1>1, <1>2 DEF BeforeGrows, Structs, IsPbuf
<1>4. NULL \notin DOMAIN H /\ \A q \in DOMAIN H : H[q].next \in DOMAIN H \cup {NULL}
  BY ConstantsAssumption DEF Linked, ConstantsAssumption
<1>5. DOMAIN G = DOMAIN H
  BY DEF ShortenedPbufs
<1>6. \A i \in 1 .. last : G[c[i]].tot_len = new_len - Before(H, c, i)
  <2>1. \A i \in 1 .. last - 1 : G[c[i]].tot_len = new_len - Before(H, c, i)
    BY DEF ShortenedPbufs, Becomes
  <2>2. G[c[last]].tot_len = new_len - Before(H, c, last)
    BY DEF ShortenedPbufs, Becomes
  <2>3. \A i \in 1 .. last : i \in 1 .. last - 1 \/ i = last
    BY <1>1
  <2>4. QED
    BY <2>1, <2>2, <2>3
<1>7. ASSUME NEW q \in DOMAIN H, q \notin First(c, last)
      PROVE  /\ G[q].tot_len = G[q].len + (IF G[q].next = NULL THEN 0 ELSE G[G[q].next].tot_len)
             /\ IsPbuf(G[q]) /\ Buffered(G[q])
  <2>1. G[q] = H[q]
    BY <1>7 DEF ShortenedPbufs
  <2>2. ASSUME H[q].next \in First(c, last)
        PROVE  FALSE
    <3>1. PICK i \in 1 .. last : H[q].next = c[i]
      BY <2>2 DEF First
    <3>2. i \in 1 .. Len(c) /\ q \in LinksTo(H, c[i])
      <4>1. i \in 1 .. Len(c)
        BY <1>1
      <4>2. q \in LinksTo(H, c[i])
        BY <3>1 DEF LinksTo
      <4>3. QED
        BY <4>1, <4>2
    <3>3. i # 1 /\ q = c[i - 1]
      BY <3>2 DEF Alone
    <3>4. i - 1 \in 1 .. last
      BY <1>1, <3>3
    <3>5. QED
      BY <1>7, <3>3, <3>4 DEF First
  <2>3. H[q].next # NULL => G[H[q].next] = H[H[q].next]
    BY <1>4, <2>2 DEF ShortenedPbufs
  <2>4. H[q].tot_len = H[q].len + (IF H[q].next = NULL THEN 0 ELSE H[H[q].next].tot_len)
    BY DEF Summed
  <2>5. IsPbuf(H[q]) /\ Buffered(H[q])
    BY DEF Structs
  <2>6. QED
    BY <2>1, <2>3, <2>4, <2>5
<1>8. ASSUME NEW i \in 1 .. last - 1
      PROVE  /\ G[c[i]].tot_len = G[c[i]].len
                  + (IF G[c[i]].next = NULL THEN 0 ELSE G[G[c[i]].next].tot_len)
             /\ IsPbuf(G[c[i]]) /\ Buffered(G[c[i]])
  <2>1. i \in 1 .. m /\ i # m /\ i + 1 \in 1 .. last /\ i + 1 \in 1 .. m /\ i \in 1 .. last
        /\ i \in 1 .. m - 1
    BY <1>1
  <2>2. Becomes(H[c[i]], G[c[i]], H[c[i]].next, H[c[i]].len, new_len - Before(H, c, i))
    BY DEF ShortenedPbufs
  <2>3. G[c[i]].next = c[i + 1] /\ c[i + 1] # NULL
    BY <1>2, <1>4, <2>1, <2>2 DEF Becomes
  <2>4. G[c[i]].len = H[c[i]].len /\ G[c[i]].tot_len = new_len - Before(H, c, i)
    BY <2>2 DEF Becomes
  <2>5. G[c[i + 1]].tot_len = new_len - Before(H, c, i + 1)
    BY <1>6, <2>1
  <2>6. Before(H, c, i + 1) = Before(H, c, i) + H[c[i]].len
    BY <1>1, <2>1 DEF BeforeGrows
  <2>7. Before(H, c, i) \in Nat /\ H[c[i]].len \in Nat
    BY <1>3, <2>1
  <2>8. G[c[i]].tot_len = G[c[i]].len + G[c[i + 1]].tot_len
    BY <2>4, <2>5, <2>6, <2>7
  <2>9. QED
    BY <2>2, <2>3, <2>8 DEF Becomes
<1>9. /\ G[c[last]].tot_len = G[c[last]].len
           + (IF G[c[last]].next = NULL THEN 0 ELSE G[G[c[last]].next].tot_len)
      /\ IsPbuf(G[c[last]]) /\ Buffered(G[c[last]])
  <2>1. Becomes(H[c[last]], G[c[last]], NULL, new_len - Before(H, c, last),
                new_len - Before(H, c, last))
    BY DEF ShortenedPbufs
  <2>2. new_len - Before(H, c, last) \in Int
    BY <1>1, <1>3
  <2>3. QED
    BY <2>1, <2>2 DEF Becomes
<1>10. \A q \in First(c, last) : q = c[last] \/ \E i \in 1 .. last - 1 : q = c[i]
  BY <1>1 DEF First
<1>11. QED
  BY <1>5, <1>7, <1>8, <1>9, <1>10 DEF Summed, Structs

\* pbuf_realloc() shortens the chain and frees the rest of it.
End(H, c, new_len) ==
  CHOOSE i \in DOMAIN c : /\ Before(H, c, i) + H[c[i]].len >= new_len
                          /\ \A j \in 1 .. i - 1 : Before(H, c, j) + H[c[j]].len < new_len

\* The parts of Realloced by their names.
LEMMA ReallocedIs ==
  ASSUME NEW H, NEW p, NEW new_len, ~ (new_len >= H[p].tot_len),
         NEW c, c = Chain(H, p), NEW last, last = End(H, c, new_len),
         NEW G, G = Shortened(H, c, new_len, last, H[p].tot_len - new_len)
  PROVE  Realloced(H, p, new_len) = IF last = Len(c) THEN G ELSE Freed(G, c[last + 1])
<1> DEFINE d == Chain(H, p)
           k == End(H, d, new_len)
           F == Shortened(H, d, new_len, k, H[p].tot_len - new_len)
<1>1. Realloced(H, p, new_len) = IF k = Len(d) THEN F ELSE Freed(F, d[k + 1])
  BY DEF Realloced, Shortened, Ended, First, End
<1>2. d = c /\ k = last /\ F = G
  OBVIOUS
<1> HIDE DEF d, k, F
<1>3. QED
  BY <1>1, <1>2, SMTT(30)

\* pbuf_realloc() keeps a heap in order.
LEMMA ReallocOk ==
  ASSUME NEW H, NEW h, HeapOk(H, h), NEW p \in DOMAIN H, Alone(H, Chain(H, p)),
         NEW new_len \in Nat
  PROVE  HeapOk(Realloced(H, p, new_len), h)
<1>1. CASE new_len >= H[p].tot_len
  BY <1>1 DEF Realloced
<1>2. CASE ~ (new_len >= H[p].tot_len)
  <2>1. PICK c : c = Chain(H, p)
    OBVIOUS
  <2>2. Linked(H) /\ Counted(H, h) /\ Summed(H) /\ Structs(H) /\ Alone(H, c)
    <3>1. Linked(H) /\ Counted(H, h) /\ Summed(H)
      BY DEF HeapOk
    <3>2. Structs(H)
      BY DEF HeapOk, Linked, Structs
    <3>3. QED
      BY <2>1, <3>1, <3>2
  <2>3. IsChain(H, p, c)
    BY <2>1, <2>2, ChainIs
  <2>4. LengthsAlong(H, p, c) /\ BeforeGrows(H, c)
    BY <2>2, <2>3, LengthsAre
  <2>5. new_len < H[p].tot_len
    BY <1>2, <2>2 DEF Structs, IsPbuf
  <2>6. PICK last : last = End(H, c, new_len)
    OBVIOUS
  <2>7. DOMAIN c = 1 .. Len(c) /\ Len(c) \in Nat /\ \A i \in 1 .. Len(c) : c[i] \in DOMAIN H
    BY <2>3 DEF IsChain, LinkedFrom
  <2>8. EndsIn(H, c, new_len, last)
    <3>1. PICK k : EndsIn(H, c, new_len, k)
      BY <2>2, <2>3, <2>4, <2>5, EndExists
    <3>2. QED
      BY <2>6, <2>7, <3>1 DEF EndsIn, End
  <2>9. PICK G : G = Shortened(H, c, new_len, last, H[p].tot_len - new_len)
    OBVIOUS
  <2>10. Realloced(H, p, new_len) = IF last = Len(c) THEN G ELSE Freed(G, c[last + 1])
    BY <1>2, <2>1, <2>6, <2>9, ReallocedIs
  <2>11. ShortenedPbufs(H, G, c, new_len, last)
    BY <2>2, <2>3, <2>4, <2>5, <2>8, <2>9, ShortenedIs
  <2>12. last \in 1 .. Len(c)
    BY <2>8 DEF EndsIn
  <2>13. Summed(G) /\ Structs(G)
    BY <2>2, <2>3, <2>4, <2>11, <2>12, ShortenedSums
  <2>14. DOMAIN G = DOMAIN H
    BY <2>11 DEF ShortenedPbufs
  <2>15. \A q \in DOMAIN H : /\ IsPbuf(G[q]) /\ G[q].ref = H[q].ref
                             /\ G[q].next = IF q = c[last] THEN NULL ELSE H[q].next
    <3>1. \A i \in 1 .. last - 1 : G[c[i]].ref = H[c[i]].ref /\ G[c[i]].next = H[c[i]].next
                                   /\ c[i] # c[last]
      <4>1. ASSUME NEW i \in 1 .. last - 1
            PROVE  c[i] # c[last]
        <5>1. i \in 1 .. Len(c) /\ i # last
          BY <2>7, <2>12
        <5>2. QED
          BY <2>3, <2>12, <5>1 DEF IsChain
      <4>2. QED
        BY <2>11, <4>1 DEF ShortenedPbufs, Becomes
    <3>2. G[c[last]].ref = H[c[last]].ref /\ G[c[last]].next = NULL
      BY <2>11 DEF ShortenedPbufs, Becomes
    <3>3. \A q \in DOMAIN H : q \in First(c, last) => q = c[last] \/ \E i \in 1 .. last - 1 : q = c[i]
      BY <2>12 DEF First
    <3>4. \A q \in DOMAIN H : q \notin First(c, last) => G[q] = H[q] /\ q # c[last]
      <4>1. c[last] \in First(c, last)
        BY <2>12 DEF First
      <4>2. QED
        BY <2>11, <4>1 DEF ShortenedPbufs
    <3>5. QED
      BY <2>13, <2>14, <3>1, <3>2, <3>3, <3>4 DEF Structs
  <2>16. CASE last = Len(c)
    <3>1. H[c[last]].next = NULL
      BY <2>3, <2>12, <2>16 DEF IsChain, LinkedFrom
    <3>2. Linked(G) /\ Counted(G, h)
      BY <2>2, <2>14, <2>15, <3>1, SameLinks
    <3>3. QED
      BY <2>10, <2>13, <2>16, <3>2 DEF HeapOk, Structs
  <2>17. CASE last # Len(c)
    <3>1. last + 1 \in 1 .. Len(c)
      BY <2>7, <2>12, <2>17
    <3>2. PICK y : y = c[last + 1]
      BY SMTT(30)
    <3>3. y \in DOMAIN H /\ H[c[last]].next = y /\ c[last] \in DOMAIN H
      BY <2>3, <2>7, <2>12, <2>17, <3>1, <3>2 DEF IsChain, LinkedFrom
    <3>4. PICK g : g = [h EXCEPT ![y] = @ + 1]
      OBVIOUS
    <3>5. Linked(G) /\ Counted(G, g)
      <4>1. PICK x : x = c[last]
        OBVIOUS
      <4>2. \A q \in DOMAIN H : /\ IsPbuf(G[q]) /\ G[q].ref = H[q].ref
                                /\ G[q].next = IF q = x THEN NULL ELSE H[q].next
        BY <2>15, <4>1
      <4>3. x \in DOMAIN H /\ H[x].next = y
        BY <3>3, <4>1
      <4>4. Linked(G) /\ Counted(G, [h EXCEPT ![y] = @ + 1])
        BY <2>2, <2>14, <3>3, <4>2, <4>3, CutLinks
      <4>5. QED
        BY <3>4, <4>4
    <3>6. HeapOk(G, g)
      BY <2>13, <3>5 DEF HeapOk, Structs
    <3>7. h \in [Addresses -> Nat] /\ y \in Addresses
      BY <2>2, <3>3 DEF Counted, Linked
    <3>8. [g EXCEPT ![y] = @ - 1] = h /\ g[y] > 0
      BY <3>4, <3>7, OneMore
    <3>9. HeapOk(Freed(G, y), h)
      BY <2>14, <3>3, <3>6, <3>8, FreedOk
    <3>10. QED
      BY <2>10, <2>17, <3>2, <3>9
  <2>18. QED
    BY <2>16, <2>17
<1>3. QED
  BY <1>1, <1>2

-----------------------------------------------------------------------------
(* Chains put together and taken apart.                                    *)

\* One of the pbufs of the first chain: longer by the second chain, and the last
\* one linked to it.
Longer(b, t, n) == [b EXCEPT !.tot_len = (@ + n) % Width, !.next = IF @ = NULL THEN t ELSE @]

\* The loop of pbuf_cat() makes a pbuf longer and does not wrap around.
LEMMA LongerIs ==
  ASSUME NEW b, IsPbuf(b), Buffered(b), NEW t, NEW n \in Nat, b.tot_len + n < Width
  PROVE  Becomes(b, Longer(b, t, n), IF b.next = NULL THEN t ELSE b.next, b.len, b.tot_len + n)
<1>1. b.tot_len + n \in 0 .. Width - 1
  BY ConstantsAssumption DEF IsPbuf, ConstantsAssumption
<1>2. PICK x, y : x = b.tot_len + n /\ y = IF b.next = NULL THEN t ELSE b.next
  OBVIOUS
<1>3. x % Width = x
  BY <1>1, <1>2, FitsWidth
<1>4. PICK d : d = [b EXCEPT !.tot_len = x, !.next = y]
  OBVIOUS
<1>5. Longer(b, t, n) = d
  BY <1>2, <1>3, <1>4 DEF Longer, IsPbuf
<1>6. IsPbuf(d) /\ d.next = y /\ d.ref = b.ref /\ d.len = b.len /\ d.tot_len = x
      /\ d.mem = b.mem /\ d.payload = b.payload
  BY <1>1, <1>2, <1>4 DEF IsPbuf
<1>7. Buffered(d)
  BY <1>6 DEF Buffered
<1>8. QED
  BY <1>2, <1>5, <1>6, <1>7 DEF Becomes

\* pbuf_cat() keeps a heap in order.
LEMMA CatOk ==
  ASSUME NEW H, NEW h, HeapOk(H, h), NEW p \in DOMAIN H, NEW t \in DOMAIN H, h[t] > 0,
         Alone(H, Chain(H, p)), ToSet(Chain(H, p)) \cap ToSet(Chain(H, t)) = {},
         H[p].tot_len + H[t].tot_len < Width
  PROVE  HeapOk(Concatenated(H, p, t), [h EXCEPT ![t] = @ - 1])
<1>1. PICK c : c = Chain(H, p)
  OBVIOUS
<1>2. PICK n : n = H[t].tot_len
  OBVIOUS
<1>3. Linked(H) /\ Counted(H, h) /\ Summed(H) /\ Structs(H)
  <2>1. Linked(H) /\ Counted(H, h) /\ Summed(H)
    BY DEF HeapOk
  <2>2. Structs(H)
    BY DEF HeapOk, Linked, Structs
  <2>3. QED
    BY <2>1, <2>2
<1>4. IsChain(H, p, c) /\ Alone(H, c)
  BY <1>1, <1>3, ChainIs
<1>5. LengthsAlong(H, p, c) /\ BeforeGrows(H, c)
  BY <1>3, <1>4, LengthsAre
<1>6. PICK m \in Nat : m = Len(c) /\ m > 0 /\ DOMAIN c = 1 .. m
  BY <1>4 DEF IsChain, LinkedFrom
<1>7. /\ \A i \in 1 .. m : c[i] \in DOMAIN H
      /\ \A i \in 1 .. m : H[c[i]].next = IF i = m THEN NULL ELSE c[i + 1]
  BY <1>4, <1>6 DEF IsChain, LinkedFrom
<1>8. /\ NULL \notin DOMAIN H /\ DOMAIN H \subseteq Addresses
      /\ \A q \in DOMAIN H : H[q].next \in DOMAIN H \cup {NULL}
  BY <1>3, ConstantsAssumption DEF Linked, ConstantsAssumption
<1>9. PICK C : C = ToSet(c)
  OBVIOUS
<1>10. C = {c[i] : i \in 1 .. m} /\ C \subseteq DOMAIN H
  BY <1>6, <1>7, <1>9 DEF ToSet
<1>11. t \notin C
  <2>1. t \in ToSet(Chain(H, t))
    <3>1. IsChain(H, t, Chain(H, t))
      BY <1>3, ChainIs
    <3>2. PICK d : d = Chain(H, t)
      OBVIOUS
    <3>3. d[1] = t /\ 1 \in DOMAIN d
      BY <3>1, <3>2 DEF IsChain, LinkedFrom
    <3>4. QED
      BY <3>2, <3>3 DEF ToSet
  <2>2. QED
    BY <1>1, <1>9, <2>1
<1>12. PICK last : last = c[m]
  OBVIOUS
<1>13. last \in C /\ \A q \in C : H[q].next = NULL <=> q = last
  <2>1. m \in 1 .. m
    BY <1>6
  <2>2. \A i \in 1 .. m : i # m => i + 1 \in 1 .. m
    BY <1>6
  <2>3. \A i \in 1 .. m : H[c[i]].next = NULL <=> i = m
    BY <1>7, <1>8, <2>2
  <2>4. \A i \in 1 .. m : c[i] = last <=> i = m
    BY <1>4, <1>6, <1>12, <2>1 DEF IsChain
  <2>5. QED
    BY <1>10, <1>12, <2>1, <2>3, <2>4
<1>14. \A q \in C : H[q].next \in C \cup {NULL}
  <2>1. \A i \in 1 .. m : i # m => i + 1 \in 1 .. m
    BY <1>6
  <2>2. QED
    BY <1>7, <1>10, <2>1
<1>15. ASSUME NEW q \in DOMAIN H, H[q].next \in C
       PROVE  q \in C
  <2>1. PICK i \in 1 .. m : H[q].next = c[i]
    BY <1>10, <1>15
  <2>2. q \in LinksTo(H, c[i])
    BY <2>1 DEF LinksTo
  <2>3. i # 1 /\ q = c[i - 1]
    BY <1>4, <1>6, <2>2 DEF Alone
  <2>4. i - 1 \in 1 .. m
    BY <2>3
  <2>5. QED
    BY <1>10, <2>3, <2>4
<1>16. \A q \in DOMAIN H : H[q].len \in Nat /\ H[q].tot_len \in Nat
  BY <1>3, ConstantsAssumption DEF Structs, IsPbuf, ConstantsAssumption
<1>17. ASSUME NEW q \in C
       PROVE  H[q].tot_len + n < Width
  <2>1. PICK i \in 1 .. m : q = c[i]
    BY <1>10
  <2>2. H[q].tot_len = H[p].tot_len - Before(H, c, i) /\ Before(H, c, i) \in Nat
    BY <1>5, <1>6, <2>1 DEF LengthsAlong, BeforeGrows
  <2>3. Width \in Nat /\ H[p].tot_len \in Nat /\ n \in Nat /\ H[p].tot_len + n < Width
    BY <1>2, <1>16, ConstantsAssumption DEF ConstantsAssumption
  <2>4. QED
    BY <2>2, <2>3
<1>18. PICK G : G = Concatenated(H, p, t)
  OBVIOUS
<1>19. DOMAIN G = DOMAIN H
       /\ \A q \in DOMAIN H : G[q] = IF q \in C THEN Longer(H[q], t, n) ELSE H[q]
  <2>1. G = [q \in DOMAIN H |-> IF q \notin ToSet(Chain(H, p)) THEN H[q]
                               ELSE Longer(H[q], t, H[t].tot_len)]
    BY <1>18 DEF Concatenated, Longer
  <2>2. QED
    BY <1>1, <1>2, <1>9, <2>1
<1>20. \A q \in C : Becomes(H[q], G[q], IF q = last THEN t ELSE H[q].next, H[q].len,
                            H[q].tot_len + n)
  <2>1. ASSUME NEW q \in C
        PROVE  Becomes(H[q], G[q], IF q = last THEN t ELSE H[q].next, H[q].len, H[q].tot_len + n)
    <3>1. IsPbuf(H[q]) /\ Buffered(H[q])
      BY <1>3, <1>10 DEF Structs
    <3>2. G[q] = Longer(H[q], t, n) /\ n \in Nat
      BY <1>2, <1>10, <1>16, <1>19
    <3>3. Becomes(H[q], G[q], IF H[q].next = NULL THEN t ELSE H[q].next, H[q].len,
                  H[q].tot_len + n)
      BY <1>17, <3>1, <3>2, LongerIs
    <3>4. QED
      BY <1>13, <3>3
  <2>2. QED
    BY <2>1
<1>21. \A q \in DOMAIN H : /\ IsPbuf(G[q]) /\ Buffered(G[q]) /\ G[q].ref = H[q].ref
                           /\ G[q].len = H[q].len
                           /\ G[q].next = IF q = last THEN t ELSE H[q].next
                           /\ G[q].tot_len = IF q \in C THEN H[q].tot_len + n ELSE H[q].tot_len
  <2>1. \A q \in C : /\ IsPbuf(G[q]) /\ Buffered(G[q]) /\ G[q].ref = H[q].ref
                     /\ G[q].len = H[q].len /\ G[q].tot_len = H[q].tot_len + n
                     /\ G[q].next = IF q = last THEN t ELSE H[q].next
    BY <1>20 DEF Becomes
  <2>2. \A q \in DOMAIN H : q \notin C => G[q] = H[q] /\ IsPbuf(H[q]) /\ Buffered(H[q]) /\ q # last
    BY <1>3, <1>13, <1>19 DEF Structs
  <2>3. QED
    BY <2>1, <2>2
<1>22. Grounded(G)
  <2>1. ASSUME NEW S \in SUBSET DOMAIN H, S # {}, \A q \in S : G[q].next \in S
        PROVE  FALSE
    <3>1. S \ C = {}
      <4>1. ASSUME S \ C # {}
            PROVE  FALSE
        <5>1. PICK q \in S \ C : H[q].next \notin S \ C
          BY <1>3, <4>1 DEF Linked, Grounded
        <5>2. G[q].next = H[q].next /\ H[q].next \in S
          BY <1>13, <1>21, <2>1
        <5>3. H[q].next \in C
          BY <5>1, <5>2
        <5>4. QED
          BY <1>15, <5>1, <5>3
      <4>2. QED
        BY <4>1
    <3>2. last \notin S
      <4>1. last \in S => t \in S
        BY <1>21, <2>1
      <4>2. QED
        BY <1>11, <3>1, <4>1
    <3>3. PICK q \in S : H[q].next \notin S
      BY <1>3, <2>1 DEF Linked, Grounded
    <3>4. QED
      BY <1>21, <2>1, <3>2, <3>3
  <2>2. QED
    BY <1>19, <2>1 DEF Grounded
<1>23. Linked(G)
  BY <1>8, <1>19, <1>21, <1>22 DEF Linked
<1>24. \A q \in DOMAIN H : LinksTo(G, q) = IF q = t THEN LinksTo(H, q) \cup {last} ELSE LinksTo(H, q)
  <2>1. last \in DOMAIN H /\ H[last].next = NULL
    BY <1>10, <1>13
  <2>2. \A q \in DOMAIN H, x \in DOMAIN H :
          G[x].next = q <=> H[x].next = q \/ (q = t /\ x = last)
    BY <1>8, <1>21, <2>1
  <2>3. QED
    BY <1>19, <2>1, <2>2 DEF LinksTo
<1>25. PICK g : g = [h EXCEPT ![t] = @ - 1]
  OBVIOUS
<1>26. h \in [Addresses -> Nat] /\ t \in Addresses
  BY <1>3, <1>8 DEF Counted
<1>27. g \in [Addresses -> Nat] /\ g[t] = h[t] - 1 /\ \A q \in Addresses : q # t => g[q] = h[q]
  BY <1>25, <1>26
<1>28. Counted(G, g)
  <2>1. G[t].ref = g[t] + Cardinality(LinksTo(G, t)) /\ G[t].ref > 0
    <3>1. IsFiniteSet(LinksTo(H, t)) /\ Cardinality(LinksTo(H, t)) \in Nat
      BY <1>8, LinksAreFinite
    <3>2. last \notin LinksTo(H, t)
      BY <1>8, <1>13 DEF LinksTo
    <3>3. Cardinality(LinksTo(G, t)) = Cardinality(LinksTo(H, t)) + 1
      BY <1>24, <3>1, <3>2, FewElements
    <3>4. H[t].ref = h[t] + Cardinality(LinksTo(H, t)) /\ H[t].ref > 0 /\ G[t].ref = H[t].ref
      BY <1>3, <1>21 DEF Counted
    <3>5. h[t] \in Nat
      BY <1>26
    <3>6. QED
      BY <1>27, <3>1, <3>3, <3>4, <3>5
  <2>2. ASSUME NEW q \in DOMAIN H, q # t
        PROVE  G[q].ref = g[q] + Cardinality(LinksTo(G, q)) /\ G[q].ref > 0
    <3>1. H[q].ref = h[q] + Cardinality(LinksTo(H, q)) /\ H[q].ref > 0
      BY <1>3 DEF Counted
    <3>2. QED
      BY <1>8, <1>21, <1>24, <1>27, <2>2, <3>1
  <2>3. \A q \in Addresses \ DOMAIN G : g[q] = 0
    BY <1>3, <1>19, <1>27 DEF Counted
  <2>4. QED
    BY <1>19, <1>27, <2>1, <2>2, <2>3 DEF Counted
<1>29. Summed(G)
  <2>1. ASSUME NEW q \in DOMAIN H
        PROVE  G[q].tot_len = G[q].len + (IF G[q].next = NULL THEN 0 ELSE G[G[q].next].tot_len)
    <3>1. H[q].tot_len = H[q].len + (IF H[q].next = NULL THEN 0 ELSE H[H[q].next].tot_len)
      BY <1>3 DEF Summed
    <3>2. H[q].len \in Nat /\ n \in Nat
      BY <1>2, <1>16
    <3>3. CASE q = last
      <4>1. G[q].next = t /\ G[t].tot_len = n /\ t # NULL /\ H[q].tot_len = H[q].len + 0
        BY <1>2, <1>8, <1>11, <1>13, <1>21, <3>1, <3>3
      <4>2. G[q].tot_len = H[q].tot_len + n /\ G[q].len = H[q].len
        BY <1>13, <1>21, <3>3
      <4>3. QED
        BY <3>2, <4>1, <4>2
    <3>4. CASE q \in C /\ q # last
      <4>1. H[q].next \in C /\ H[q].next # NULL /\ G[q].next = H[q].next
        BY <1>13, <1>14, <1>21, <3>4
      <4>2. G[q].tot_len = H[q].tot_len + n /\ G[H[q].next].tot_len = H[H[q].next].tot_len + n
            /\ G[q].len = H[q].len
        BY <1>10, <1>21, <3>4, <4>1
      <4>3. H[H[q].next].tot_len \in Nat
        BY <1>10, <1>16, <4>1
      <4>4. QED
        BY <3>1, <3>2, <4>1, <4>2, <4>3
    <3>5. CASE q \notin C
      <4>1. H[q].next \notin C /\ q # last
        BY <1>13, <1>15, <3>5
      <4>2. QED
        BY <1>8, <1>21, <3>1, <3>5, <4>1
    <3>6. QED
      BY <3>3, <3>4, <3>5
  <2>2. QED
    BY <1>19, <2>1 DEF Summed
<1>30. \A q \in DOMAIN G : Buffered(G[q])
  BY <1>19, <1>21
<1>31. QED
  BY <1>18, <1>23, <1>25, <1>28, <1>29, <1>30 DEF HeapOk

\* A heap with the head of a chain taken off.
Dechained(H, G, p) ==
  /\ DOMAIN G = DOMAIN H /\ \A q \in DOMAIN H : q # p => G[q] = H[q]
  /\ Becomes(H[p], G[p], NULL, H[p].len, H[p].len)

\* The head of a chain that is a pbuf for itself.
LEMMA HeadPbuf ==
  ASSUME NEW b, IsPbuf(b), Buffered(b), NEW n \in 0 .. Width - 1, n = b.len,
         NEW d, d = [b EXCEPT !.next = NULL, !.tot_len = n]
  PROVE  Becomes(b, d, NULL, n, n)
<1>1. d = [contiguous |-> b.contiguous, mem |-> b.mem, payload |-> b.payload,
           tot_len |-> n, len |-> b.len, next |-> NULL, ref |-> b.ref]
  BY DEF IsPbuf
<1>2. IsPbuf(d) /\ Buffered(d)
  BY <1>1 DEF IsPbuf, Buffered
<1>3. QED
  BY <1>1, <1>2 DEF Becomes

\* That is what pbuf_dechain() does.
LEMMA DechainedIs ==
  ASSUME NEW H, NEW h, HeapOk(H, h), NEW p \in DOMAIN H, LinksTo(H, p) = {},
         NEW y, y = H[p].next, y # NULL,
         NEW G, G = [H EXCEPT ![p].next = NULL, ![p].tot_len = H[p].len,
                              ![y].tot_len = (H[p].tot_len - H[p].len) % Width]
  PROVE  Dechained(H, G, p)
<1>1. Linked(H) /\ Counted(H, h) /\ Summed(H) /\ Structs(H)
  <2>1. Linked(H) /\ Counted(H, h) /\ Summed(H)
    BY DEF HeapOk
  <2>2. Structs(H)
    BY DEF HeapOk, Linked, Structs
  <2>3. QED
    BY <2>1, <2>2
<1>2. y \in DOMAIN H /\ y # p
  <2>1. y \in DOMAIN H
    BY <1>1 DEF Linked
  <2>2. p \notin LinksTo(H, p)
    OBVIOUS
  <2>3. QED
    BY <2>1, <2>2 DEF LinksTo
<1>3. /\ H[p].tot_len = H[p].len + H[y].tot_len
      /\ H[p].len \in 0 .. Width - 1 /\ H[y].tot_len \in 0 .. Width - 1 /\ H[p].tot_len \in Nat
  <2>1. H[p].tot_len = H[p].len + H[y].tot_len
    BY <1>1 DEF Summed
  <2>2. IsPbuf(H[p]) /\ IsPbuf(H[y])
    BY <1>1, <1>2 DEF Structs
  <2>3. QED
    BY <2>1, <2>2, ConstantsAssumption DEF IsPbuf, ConstantsAssumption
<1>4. (H[p].tot_len - H[p].len) % Width = H[y].tot_len
  <2>1. H[p].tot_len - H[p].len = H[y].tot_len
    BY <1>3
  <2>2. QED
    BY <1>3, <2>1, FitsWidth
<1>5. DOMAIN G = DOMAIN H /\ (\A q \in DOMAIN H : q # p /\ q # y => G[q] = H[q])
      /\ G[p] = [H[p] EXCEPT !.next = NULL, !.tot_len = H[p].len]
      /\ G[y] = [H[y] EXCEPT !.tot_len = H[y].tot_len]
  <2>1. PICK n : n = (H[p].tot_len - H[p].len) % Width
    OBVIOUS
  <2>2. G = [H EXCEPT ![p].next = NULL, ![p].tot_len = H[p].len, ![y].tot_len = n]
    BY <2>1
  <2>3. n = H[y].tot_len
    BY <1>4, <2>1
  <2>4. QED
    BY <1>2, <2>2, <2>3
<1>6. G[y] = H[y]
  <2>1. IsPbuf(H[y])
    BY <1>1, <1>2 DEF Structs
  <2>2. PICK b : b = H[y]
    OBVIOUS
  <2>3. [b EXCEPT !.tot_len = b.tot_len] = b
    BY <2>1, <2>2 DEF IsPbuf
  <2>4. QED
    BY <1>5, <2>2, <2>3
<1>7. Becomes(H[p], G[p], NULL, H[p].len, H[p].len)
  <2>1. IsPbuf(H[p]) /\ Buffered(H[p])
    BY <1>1 DEF Structs
  <2>2. PICK b, d, n : b = H[p] /\ d = G[p] /\ n = H[p].len
    OBVIOUS
  <2>3. d = [b EXCEPT !.next = NULL, !.tot_len = n] /\ n = b.len /\ n \in 0 .. Width - 1
    BY <1>3, <1>5, <2>2
  <2>4. Becomes(b, d, NULL, n, n)
    <3>1. IsPbuf(b) /\ Buffered(b)
      BY <2>1, <2>2
    <3>2. QED
      BY <2>3, <3>1, HeadPbuf, Zenon
  <2>5. QED
    BY <2>2, <2>4
<1>8. QED
  BY <1>5, <1>6, <1>7 DEF Dechained

\* pbuf_dechain() keeps a heap in order.
LEMMA DechainOk ==
  ASSUME NEW H, NEW h, HeapOk(H, h), NEW p \in DOMAIN H, LinksTo(H, p) = {},
         NEW y, y = H[p].next, y # NULL, NEW G, Dechained(H, G, p)
  PROVE  HeapOk(Freed(G, y), h)
<1>1. Linked(H) /\ Counted(H, h) /\ Summed(H) /\ Structs(H)
  <2>1. Linked(H) /\ Counted(H, h) /\ Summed(H)
    BY DEF HeapOk
  <2>2. Structs(H)
    BY DEF HeapOk, Linked, Structs
  <2>3. QED
    BY <2>1, <2>2
<1>2. y \in DOMAIN H
  BY <1>1 DEF Linked
<1>3. H[p].len \in Nat
  BY <1>1 DEF Structs, IsPbuf
<1>5. DOMAIN G = DOMAIN H /\ (\A q \in DOMAIN H : q # p => G[q] = H[q])
      /\ Becomes(H[p], G[p], NULL, H[p].len, H[p].len)
  BY DEF Dechained
<1>8. \A q \in DOMAIN H : /\ IsPbuf(G[q]) /\ Buffered(G[q]) /\ G[q].ref = H[q].ref
                          /\ G[q].next = IF q = p THEN NULL ELSE H[q].next
                          /\ G[q].len = H[q].len
                          /\ G[q].tot_len = IF q = p THEN H[p].len ELSE H[q].tot_len
  <2>1. \A q \in DOMAIN H : q # p => G[q] = H[q] /\ IsPbuf(H[q]) /\ Buffered(H[q])
    BY <1>1, <1>5 DEF Structs
  <2>2. /\ IsPbuf(G[p]) /\ Buffered(G[p]) /\ G[p].ref = H[p].ref /\ G[p].next = NULL
        /\ G[p].len = H[p].len /\ G[p].tot_len = H[p].len
    BY <1>5 DEF Becomes
  <2>3. QED
    BY <2>1, <2>2
<1>9. PICK g : g = [h EXCEPT ![y] = @ + 1]
  OBVIOUS
<1>10. Linked(G) /\ Counted(G, g)
  <2>1. \A q \in DOMAIN H : /\ IsPbuf(G[q]) /\ G[q].ref = H[q].ref
                            /\ G[q].next = IF q = p THEN NULL ELSE H[q].next
    BY <1>8
  <2>2. DOMAIN G = DOMAIN H /\ H[p].next = y
    BY <1>5
  <2>3. Linked(G) /\ Counted(G, [h EXCEPT ![y] = @ + 1])
    BY <1>1, <1>2, <2>1, <2>2, CutLinks
  <2>4. QED
    BY <1>9, <2>3
<1>11. Summed(G)
  <2>1. ASSUME NEW q \in DOMAIN H
        PROVE  G[q].tot_len = G[q].len + (IF G[q].next = NULL THEN 0 ELSE G[G[q].next].tot_len)
    <3>1. CASE q = p
      BY <1>3, <1>8, <3>1
    <3>2. CASE q # p
      <4>1. H[q].tot_len = H[q].len + (IF H[q].next = NULL THEN 0 ELSE H[H[q].next].tot_len)
        BY <1>1 DEF Summed
      <4>2. H[q].next # p /\ H[q].next \in DOMAIN H \cup {NULL}
        BY <1>1 DEF LinksTo, Linked
      <4>3. QED
        BY <1>8, <3>2, <4>1, <4>2
    <3>3. QED
      BY <3>1, <3>2
  <2>2. QED
    BY <1>5, <2>1 DEF Summed
<1>12. HeapOk(G, g)
  BY <1>5, <1>8, <1>10, <1>11 DEF HeapOk
<1>13. h \in [Addresses -> Nat] /\ y \in Addresses
  BY <1>1, <1>2 DEF Counted, Linked
<1>14. [g EXCEPT ![y] = @ - 1] = h /\ g[y] > 0
  BY <1>9, <1>13, OneMore
<1>15. QED
  BY <1>2, <1>5, <1>12, <1>14, FreedOk

\* A header more or less at the head of a chain.
LEMMA ResizedOk ==
  ASSUME NEW H, NEW h, HeapOk(H, h), NEW p \in DOMAIN H, LinksTo(H, p) = {}, NEW k \in Int,
         NEW G, DOMAIN G = DOMAIN H, \A q \in DOMAIN H : q # p => G[q] = H[q],
         Becomes(H[p], G[p], H[p].next, H[p].len + k, H[p].tot_len + k)
  PROVE  HeapOk(G, h)
<1>1. Linked(H) /\ Counted(H, h) /\ Summed(H) /\ Structs(H)
  <2>1. Linked(H) /\ Counted(H, h) /\ Summed(H)
    BY DEF HeapOk
  <2>2. Structs(H)
    BY DEF HeapOk, Linked, Structs
  <2>3. QED
    BY <2>1, <2>2
<1>2. \A q \in DOMAIN H : /\ IsPbuf(G[q]) /\ Buffered(G[q])
                          /\ G[q].next = H[q].next /\ G[q].ref = H[q].ref
  BY <1>1 DEF Structs, Becomes
<1>3. Linked(G) /\ Counted(G, h)
  BY <1>1, <1>2, SameLinks
<1>4. \A q \in DOMAIN H : H[q].next # p /\ H[q].next \in DOMAIN H \cup {NULL}
  BY <1>1 DEF LinksTo, Linked
<1>5. ASSUME NEW q \in DOMAIN H
      PROVE  G[q].tot_len = G[q].len + (IF G[q].next = NULL THEN 0 ELSE G[G[q].next].tot_len)
  <2>1. PICK r : r = IF H[q].next = NULL THEN 0 ELSE H[H[q].next].tot_len
    OBVIOUS
  <2>2. H[q].tot_len = H[q].len + r
    BY <1>1, <2>1 DEF Summed
  <2>3. r = IF G[q].next = NULL THEN 0 ELSE G[G[q].next].tot_len
    BY <1>2, <1>4, <2>1
  <2>4. CASE q # p
    BY <2>2, <2>3, <2>4
  <2>5. CASE q = p
    <3>1. G[p].len = H[p].len + k /\ G[p].tot_len = H[p].tot_len + k
      BY DEF Becomes
    <3>2. H[p].len \in Nat
      BY <1>1 DEF Structs, IsPbuf
    <3>3. r \in Int
      <4>1. \A x \in DOMAIN H : H[x].tot_len \in Int
        BY <1>1, ConstantsAssumption DEF Structs, IsPbuf, ConstantsAssumption
      <4>2. QED
        BY <1>4, <2>1, <4>1
    <3>4. QED
      BY <2>2, <2>3, <2>5, <3>1, <3>2, <3>3
  <2>6. QED
    BY <2>4, <2>5
<1>6. Summed(G)
  BY <1>5 DEF Summed
<1>7. QED
  BY <1>2, <1>3, <1>6 DEF HeapOk

\* pbuf_remove_header() keeps a heap in order.
LEMMA HeaderRemovedOk ==
  ASSUME NEW H, NEW h, HeapOk(H, h), NEW p \in DOMAIN H, LinksTo(H, p) = {}, NEW n \in Nat
  PROVE  HeapOk(HeaderRemoved(H, p, n), h)
<1>1. PICK b : b = H[p]
  OBVIOUS
<1>2. IsPbuf(b) /\ Buffered(b)
  BY <1>1 DEF HeapOk, Linked
<1>3. CASE n = 0 \/ n > b.len
  BY <1>1, <1>3 DEF HeaderRemoved
<1>4. CASE ~ (n = 0 \/ n > b.len)
  <2>1. b.len \in Nat /\ b.payload \in Nat /\ n <= b.len /\ b.tot_len \in 0 .. Width - 1
    BY <1>2, <1>4 DEF IsPbuf
  <2>2. b.tot_len >= b.len
    <3>1. b.tot_len = b.len + (IF b.next = NULL THEN 0 ELSE H[b.next].tot_len)
      BY <1>1 DEF HeapOk, Summed
    <3>2. b.next # NULL => b.next \in DOMAIN H
      BY <1>1 DEF HeapOk, Linked
    <3>3. b.next # NULL => H[b.next].tot_len \in Nat
      BY <3>2, ConstantsAssumption DEF HeapOk, Linked, IsPbuf, ConstantsAssumption
    <3>4. QED
      BY <2>1, <3>1, <3>3
  <2>3. b.tot_len - n \in 0 .. Width - 1
    BY <2>1, <2>2, ConstantsAssumption DEF ConstantsAssumption
  <2>4. (b.tot_len - n) % Width = b.tot_len - n
    BY <2>3, FitsWidth
  <2>5. PICK x, y, z : x = b.payload + n /\ y = b.len - n /\ z = b.tot_len - n
    OBVIOUS
  <2>6. PICK d : d = [b EXCEPT !.payload = x, !.len = y, !.tot_len = z]
    OBVIOUS
  <2>7. HeaderRemoved(H, p, n) = [H EXCEPT ![p] = d]
    <3>1. HeaderRemoved(H, p, n) = [H EXCEPT ![p].payload = @ + n, ![p].len = @ - n,
                                            ![p].tot_len = (@ - n) % Width]
      BY <1>1, <1>4 DEF HeaderRemoved
    <3>2. QED
      BY <1>1, <1>2, <2>4, <2>5, <2>6, <3>1 DEF IsPbuf
  <2>8. IsPbuf(d) /\ d.next = b.next /\ d.ref = b.ref /\ d.len = y /\ d.tot_len = z
        /\ d.mem = b.mem /\ d.payload = x
    <3>1. x \in Nat /\ y \in Nat /\ z \in 0 .. Width - 1
      BY <2>1, <2>3, <2>5
    <3>2. QED
      BY <1>2, <2>6, <3>1 DEF IsPbuf
  <2>9. Buffered(d)
    <3>1. b.payload + b.len = x + y
      BY <2>1, <2>5
    <3>2. QED
      BY <1>2, <2>8, <3>1 DEF Buffered
  <2>10. y = b.len + (- n) /\ z = b.tot_len + (- n)
    BY <2>1, <2>5
  <2>11. Becomes(b, d, b.next, b.len + (- n), b.tot_len + (- n))
    BY <2>8, <2>9, <2>10 DEF Becomes
  <2>12. PICK G : G = [H EXCEPT ![p] = d]
    OBVIOUS
  <2>13. DOMAIN G = DOMAIN H /\ G[p] = d /\ \A q \in DOMAIN H : q # p => G[q] = H[q]
    BY <2>12
  <2>14. HeapOk(G, h)
    BY <1>1, <2>11, <2>13, ResizedOk
  <2>15. QED
    BY <2>7, <2>12, <2>14
<1>5. QED
  BY <1>3, <1>4

\* A sum that does not fit them is less than what was added.
LEMMA SumFits ==
  ASSUME NEW n \in 0 .. Width - 1, NEW m \in 0 .. Width - 1, ~ ((n + m) % Width < n)
  PROVE  n + m \in 0 .. Width - 1
<1>1. Width \in Nat /\ Width > 0
  BY ConstantsAssumption DEF ConstantsAssumption
<1>2. SUFFICES ASSUME n + m >= Width
               PROVE  FALSE
  BY <1>1
<1>3. PICK r : r = n + m - Width
  OBVIOUS
<1>4. r \in 0 .. Width - 1 /\ n + m = r + Width
  BY <1>1, <1>2, <1>3
<1>5. (r + Width) % Width = r
  BY <1>1, <1>4
<1>6. QED
  BY <1>1, <1>3, <1>4, <1>5

\* pbuf_add_header() keeps a heap in order, if it reveals only what is there.
LEMMA HeaderAddedOk ==
  ASSUME NEW H, NEW h, HeapOk(H, h), NEW p \in DOMAIN H, LinksTo(H, p) = {},
         NEW n \in 0 .. Width - 1, NEW force,
         ~ H[p].contiguous /\ force => n <= H[p].payload
  PROVE  HeapOk(HeaderAdded(H, p, n, force), h)
<1>1. PICK b : b = H[p]
  OBVIOUS
<1>2. IsPbuf(b) /\ Buffered(b)
  BY <1>1 DEF HeapOk, Linked
<1>3. PICK blocked : blocked = (IF b.contiguous THEN n > b.payload ELSE ~ force)
  OBVIOUS
<1>4. CASE n = 0 \/ (n + b.tot_len) % Width < n \/ blocked
  BY <1>1, <1>3, <1>4 DEF HeaderAdded
<1>5. CASE ~ (n = 0 \/ (n + b.tot_len) % Width < n \/ blocked)
  <2>0. n <= b.payload
    <3>1. CASE b.contiguous
      <4>1. ~ (n > b.payload)
        BY <1>3, <1>5, <3>1, Zenon
      <4>2. b.payload \in Nat
        BY <1>2 DEF IsPbuf
      <4>3. n \in Nat
        BY ConstantsAssumption DEF ConstantsAssumption
      <4>4. QED
        BY <4>1, <4>2, <4>3
    <3>2. CASE ~ b.contiguous
      <4>1. ~ blocked
        BY <1>5
      <4>2. force
        BY <1>3, <3>2, <4>1, Zenon
      <4>3. QED
        BY <1>1, <3>2, <4>2, Zenon
    <3>3. QED
      BY <3>1, <3>2
  <2>1. b.len \in Nat /\ b.payload \in Nat /\ n <= b.payload /\ b.tot_len \in 0 .. Width - 1
    BY <1>2, <2>0 DEF IsPbuf
  <2>2. n + b.tot_len \in 0 .. Width - 1
    BY <1>5, <2>1, SumFits
  <2>3. PICK x, y, z : x = b.payload - n /\ y = b.len + n /\ z = b.tot_len + n
    OBVIOUS
  <2>4. PICK d : d = [b EXCEPT !.payload = x, !.len = y, !.tot_len = z]
    OBVIOUS
  <2>5. HeaderAdded(H, p, n, force) = [H EXCEPT ![p] = d]
    <3>1. HeaderAdded(H, p, n, force) = [H EXCEPT ![p].payload = @ - n, ![p].len = @ + n,
                                                  ![p].tot_len = @ + n]
      BY <1>1, <1>3, <1>5 DEF HeaderAdded
    <3>2. QED
      BY <1>1, <1>2, <2>3, <2>4, <3>1 DEF IsPbuf
  <2>6. IsPbuf(d) /\ d.next = b.next /\ d.ref = b.ref /\ d.len = y /\ d.tot_len = z
        /\ d.mem = b.mem /\ d.payload = x
    <3>1. x \in Nat /\ y \in Nat /\ z \in 0 .. Width - 1
      BY <2>1, <2>2, <2>3
    <3>2. QED
      BY <1>2, <2>4, <3>1 DEF IsPbuf
  <2>7. Buffered(d)
    <3>1. b.payload + b.len = x + y
      BY <2>1, <2>3
    <3>2. QED
      BY <1>2, <2>6, <3>1 DEF Buffered
  <2>8. Becomes(b, d, b.next, b.len + n, b.tot_len + n)
    BY <2>3, <2>6, <2>7 DEF Becomes
  <2>9. PICK G : G = [H EXCEPT ![p] = d]
    OBVIOUS
  <2>10. DOMAIN G = DOMAIN H /\ G[p] = d /\ \A q \in DOMAIN H : q # p => G[q] = H[q]
    BY <2>9
  <2>11. HeapOk(G, h)
    BY <1>1, <2>8, <2>10, ResizedOk
  <2>12. QED
    BY <2>5, <2>9, <2>11
<1>6. QED
  BY <1>4, <1>5

\* So does pbuf_header(), in both directions.
LEMMA HeaderMovedOk ==
  ASSUME NEW H, NEW h, HeapOk(H, h), NEW p \in DOMAIN H, LinksTo(H, p) = {},
         NEW n \in -MaxLen .. MaxLen, NEW force,
         ~ H[p].contiguous /\ force => n <= H[p].payload
  PROVE  HeapOk(HeaderMoved(H, p, n, force), h)
<1>1. MaxLen \in Nat /\ MaxLen <= Width - 1 /\ Width \in Nat
  BY ConstantsAssumption DEF ConstantsAssumption
<1>2. CASE n < 0
  <2>1. - n \in Nat
    BY <1>1, <1>2
  <2>2. HeapOk(HeaderRemoved(H, p, - n), h)
    BY <2>1, HeaderRemovedOk
  <2>3. QED
    BY <1>2, <2>2 DEF HeaderMoved
<1>3. CASE ~ (n < 0)
  <2>1. n \in 0 .. Width - 1
    BY <1>1, <1>3
  <2>2. HeapOk(HeaderAdded(H, p, n, force), h)
    BY <2>1, HeaderAddedOk
  <2>3. QED
    BY <1>3, <2>2 DEF HeaderMoved
<1>4. QED
  BY <1>2, <1>3

\* The first k pbufs of a chain are k pbufs.
LEMMA FirstCount ==
  ASSUME NEW H, NEW p, NEW c, IsChain(H, p, c), NEW k \in 0 .. Len(c)
  PROVE  Cardinality(First(c, k)) = k
<1>1. c \in Seq(DOMAIN H) /\ \A i \in 1 .. Len(c), j \in 1 .. Len(c) : c[i] = c[j] => i = j
  BY DEF IsChain, LinkedFrom
<1>2. PICK m : m = Len(c)
  OBVIOUS
<1>3. m \in Nat /\ \A i \in 1 .. m, j \in 1 .. m : c[i] = c[j] => i = j
  BY <1>1, <1>2
<1> DEFINE P == {x \in Nat : IsFiniteSet(First(c, x)) /\ Cardinality(First(c, x)) = x}
<1>4. 0 \in P
  <2>1. First(c, 0) = {}
    BY DEF First
  <2>2. QED
    BY <2>1, FS_EmptySet
<1>5. ASSUME NEW x \in 0 .. m - 1, x \in P
      PROVE  x + 1 \in P
  <2>1. First(c, x + 1) = First(c, x) \cup {c[x + 1]}
    <3>1. 1 .. x + 1 = (1 .. x) \cup {x + 1}
      BY <1>3
    <3>2. QED
      BY <3>1 DEF First
  <2>2. c[x + 1] \notin First(c, x)
    <3>1. \A i \in 1 .. x : i \in 1 .. m /\ x + 1 \in 1 .. m /\ i # x + 1
      BY <1>3
    <3>2. QED
      BY <1>3, <3>1 DEF First
  <2>3. IsFiniteSet(First(c, x)) /\ Cardinality(First(c, x)) = x
    BY <1>5
  <2>4. IsFiniteSet(First(c, x + 1)) /\ Cardinality(First(c, x + 1)) = x + 1
    <3>1. PICK S, e : S = First(c, x) /\ e = c[x + 1]
      OBVIOUS
    <3>2. IsFiniteSet(S) /\ Cardinality(S) = x /\ e \notin S
      BY <2>2, <2>3, <3>1
    <3>3. IsFiniteSet(S \cup {e}) /\ Cardinality(S \cup {e}) = x + 1
      BY <3>2, FS_AddElement
    <3>4. QED
      BY <2>1, <3>1, <3>3
  <2>5. QED
    BY <1>3, <2>4
<1>6. \A x \in 0 .. m : x \in P
  <2> HIDE DEF P
  <2>1. QED
    BY <1>3, <1>4, <1>5, CountingUp
<1>7. QED
  BY <1>2, <1>6

\* pbuf_free_header() drops the first pbufs of the chain, as many as the bytes cover.
DropsFirst(H, c, n, gone, k) ==
  /\ k \in 0 .. Len(c) /\ gone = First(c, k) /\ Cardinality(gone) = k
  /\ \A i \in 1 .. k : Before(H, c, i) + H[c[i]].len <= n

\* What pbuf_free_header() drops is a beginning of the chain.
LEMMA CoveredIs ==
  ASSUME NEW H, NEW p, NEW c, IsChain(H, p, c), c = Chain(H, p), Structs(H), BeforeGrows(H, c),
         NEW n \in Nat
  PROVE  \E k : DropsFirst(H, c, n, Covered(H, p, n), k)
<1>1. PICK m : m = Len(c)
  OBVIOUS
<1>2. m \in Nat /\ DOMAIN c = 1 .. m /\ \A i \in 1 .. m : c[i] \in DOMAIN H
  BY <1>1 DEF IsChain, LinkedFrom
<1> DEFINE J == {j \in 1 .. m : Before(H, c, j) < n /\ Before(H, c, j) + H[c[j]].len <= n}
           K == (1 .. m) \ J
<1>3. Covered(H, p, n) = {c[i] : i \in J}
  BY <1>2 DEF Covered
<1>4. ASSUME NEW j \in 1 .. m - 1, j + 1 \in J
      PROVE  j \in J
  <2>1. j \in 1 .. m /\ j + 1 \in 1 .. m
    BY <1>2
  <2>2. Before(H, c, j + 1) = Before(H, c, j) + H[c[j]].len /\ Before(H, c, j) \in Nat
    BY <1>1, <2>1 DEF BeforeGrows
  <2>3. H[c[j]].len \in Nat
    BY <1>2, <2>1 DEF Structs, IsPbuf
  <2>4. Before(H, c, j + 1) < n
    BY <1>4
  <2>5. QED
    BY <2>1, <2>2, <2>3, <2>4
<1>5. \E k \in 0 .. m : J = 1 .. k
  <2>1. CASE K = {}
    <3>1. J = 1 .. m
      BY <2>1
    <3>2. QED
      BY <1>2, <3>1
  <2>2. CASE K # {}
    <3>1. K \in SUBSET Nat
      OBVIOUS
    <3>2. PICK f \in K : \A j \in K : f <= j
      <4> HIDE DEF K
      <4>1. QED
        BY <2>2, <3>1, LeastExists
    <3>3. f \in 1 .. m /\ f \notin J
      OBVIOUS
    <3> DEFINE P == {x \in Nat : f + x \notin J}
    <3>4. 0 \in P
      BY <3>3
    <3>5. ASSUME NEW x \in 0 .. (m - f) - 1, x \in P
          PROVE  x + 1 \in P
      <4>1. f + x \in 1 .. m - 1 /\ f + x \notin J /\ x + 1 \in Nat /\ (f + x) + 1 = f + (x + 1)
        BY <1>2, <3>3, <3>5
      <4>2. (f + x) + 1 \notin J
        BY <1>4, <4>1
      <4>3. QED
        BY <4>1, <4>2
    <3>6. \A x \in 0 .. m - f : x \in P
      <4>1. m - f \in Nat
        BY <1>2, <3>3
      <4> HIDE DEF P
      <4>2. QED
        BY <3>4, <3>5, <4>1, CountingUp
    <3>7. \A i \in f .. m : i \notin J
      <4>1. \A i \in f .. m : i - f \in 0 .. m - f /\ f + (i - f) = i
        BY <1>2, <3>3
      <4>2. \A x \in 0 .. m - f : f + x \notin J
        BY <3>6
      <4>3. QED
        BY <4>1, <4>2
    <3>8. \A i \in 1 .. m : i < f => i \in J
      BY <3>2, <3>3
    <3>9. \A i \in J : i \in 1 .. m
      OBVIOUS
    <3>10. J = 1 .. f - 1
      <4>1. \A i \in 1 .. f - 1 : i \in 1 .. m /\ i < f
        BY <1>2, <3>3
      <4>2. \A i \in 1 .. f - 1 : i \in J
        BY <3>8, <4>1
      <4>3. \A i \in 1 .. m : i \notin 1 .. f - 1 => i \in f .. m
        BY <1>2, <3>3
      <4>4. \A i \in J : i \in 1 .. f - 1
        BY <3>7, <3>9, <4>3
      <4> HIDE DEF J
      <4>5. QED
        BY <4>2, <4>4
    <3>11. QED
      BY <1>2, <3>3, <3>10
  <2>3. QED
    BY <2>1, <2>2
<1>6. PICK k \in 0 .. m : J = 1 .. k
  BY <1>5
<1>7. Covered(H, p, n) = First(c, k)
  BY <1>3, <1>6 DEF First
<1>8. \A i \in 1 .. k : Before(H, c, i) + H[c[i]].len <= n
  <2>1. \A i \in J : Before(H, c, i) + H[c[i]].len <= n
    OBVIOUS
  <2>2. QED
    BY <1>6, <2>1
<1>9. k \in 0 .. Len(c) /\ Cardinality(First(c, k)) = k
  BY <1>1, <1>6, FirstCount
<1>10. QED
  BY <1>7, <1>8, <1>9 DEF DropsFirst

\* The rest of a heap in order, once the first pbufs of a chain are gone.
LEMMA RestOk ==
  ASSUME NEW H, NEW h, HeapOk(H, h), NEW p, NEW c, IsChain(H, p, c), h[p] > 0, Alone(H, c),
         NEW k \in 1 .. Len(c), \A i \in 1 .. k : H[c[i]].ref = 1,
         NEW G, G = Restrict(H, DOMAIN H \ First(c, k))
  PROVE  /\ HeapOk(G, MovedOn(h, p, c, k)) /\ DOMAIN G = DOMAIN H \ First(c, k)
         /\ k < Len(c) => LinksTo(G, c[k + 1]) = {}
<1>1. Linked(H) /\ Counted(H, h)
  BY DEF HeapOk
<1>2. PICK g : g = MovedOn(h, p, c, k)
  OBVIOUS
<1>4. Linked(G) /\ Counted(G, g) /\ (k < Len(c) => LinksTo(G, c[k + 1]) = LinksTo(H, c[k + 1]) \ {c[k]})
  <2>1. Staying(H, h, p, c, k, Restrict(H, DOMAIN H \ First(c, k)))
    BY <1>1, PrefixGone
  <2>2. QED
    BY <1>2, <2>1 DEF Staying
<1>5. k < Len(c) => LinksTo(H, c[k + 1]) = {c[k]}
  <2>1. Len(c) \in Nat
    BY DEF IsChain, LinkedFrom
  <2>2. k < Len(c) => k + 1 \in 1 .. Len(c) /\ k + 1 # 1 /\ (k + 1) - 1 = k
    BY <2>1
  <2>3. QED
    BY <2>2 DEF Alone
<1>6. Reduced(H, G)
  <2>1. (DOMAIN H \ First(c, k)) \in SUBSET DOMAIN H
    OBVIOUS
  <2>2. QED
    BY <1>1, <2>1, ReducedByOne
<1>7. HeapOk(G, g)
  <2>1. \A q \in DOMAIN G :
          /\ H[q].tot_len = H[q].len + (IF H[q].next = NULL THEN 0 ELSE H[H[q].next].tot_len)
          /\ Buffered(H[q])
    BY <1>6 DEF Reduced, HeapOk, Summed
  <2>2. QED
    BY <1>1, <1>4, <1>6, <2>1, ReducedKeeps
<1>8. DOMAIN G = DOMAIN H \ First(c, k)
  BY DEF Restrict
<1>9. QED
  BY <1>2, <1>4, <1>5, <1>7, <1>8

\* pbuf_free_header() keeps a heap in order.
LEMMA FreeHeaderOk ==
  ASSUME NEW H, NEW h, HeapOk(H, h), NEW p, NEW c, IsChain(H, p, c), h[p] > 0, Alone(H, c),
         BeforeGrows(H, c), NEW n \in Nat, NEW gone, NEW k, DropsFirst(H, c, n, gone, k),
         \A q \in gone : H[q].ref = 1, NEW G, G = Restrict(H, DOMAIN H \ gone)
  PROVE  HeapOk(IF k = Len(c) THEN G ELSE HeaderRemoved(G, c[k + 1], n - Before(H, c, k + 1)),
                IF k = 0 THEN h ELSE MovedOn(h, p, c, k))
<1>1. k \in 0 .. Len(c) /\ gone = First(c, k) /\ Len(c) \in Nat /\ Len(c) > 0 /\ c[1] = p
      /\ \A i \in 1 .. Len(c) : c[i] \in DOMAIN H
  BY DEF DropsFirst, IsChain, LinkedFrom
<1>2. CASE k = 0
  <2>1. gone = {}
    BY <1>1, <1>2 DEF First
  <2>2. DOMAIN G = DOMAIN H /\ \A q \in DOMAIN H : G[q] = H[q]
    BY <2>1 DEF Restrict
  <2>3. Linked(H) /\ Counted(H, h)
    BY DEF HeapOk
  <2>4. Linked(G) /\ Counted(G, h)
    BY <2>2, <2>3, EqualHeap
  <2>5. p \in DOMAIN G /\ LinksTo(G, p) = {} /\ Before(H, c, 1) = 0
    <3>1. 1 \in 1 .. Len(c)
      BY <1>1
    <3>2. LinksTo(H, p) = {} /\ p \in DOMAIN H
      BY <1>1, <3>1 DEF Alone
    <3>3. LinksTo(G, p) = LinksTo(H, p)
      BY <2>2 DEF LinksTo
    <3>4. QED
      BY <2>2, <3>2, <3>3 DEF BeforeGrows
  <2>6. HeapOk(G, h)
    <3>1. \A q \in DOMAIN H : H[q].next \in DOMAIN H \cup {NULL} /\ Buffered(H[q])
      BY DEF HeapOk, Linked
    <3>2. Summed(H)
      BY DEF HeapOk
    <3>3. Summed(G)
      <4>1. ASSUME NEW q \in DOMAIN H
            PROVE  G[q].tot_len = G[q].len + (IF G[q].next = NULL THEN 0 ELSE G[G[q].next].tot_len)
        <5>1. G[q] = H[q] /\ (H[q].next # NULL => G[H[q].next] = H[H[q].next])
          BY <2>2, <3>1
        <5>2. H[q].tot_len = H[q].len + (IF H[q].next = NULL THEN 0 ELSE H[H[q].next].tot_len)
          BY <3>2 DEF Summed
        <5>3. QED
          BY <5>1, <5>2
      <4>2. QED
        BY <2>2, <4>1 DEF Summed
    <3>4. QED
      BY <2>2, <2>4, <3>1, <3>3 DEF HeapOk
  <2>7. HeapOk(HeaderRemoved(G, p, n), h)
    BY <2>5, <2>6, HeaderRemovedOk
  <2>8. c[k + 1] = p /\ n - Before(H, c, k + 1) = n /\ k # Len(c)
    BY <1>1, <1>2, <2>5
  <2>9. QED
    BY <1>2, <2>7, <2>8
<1>3. CASE k # 0
  <2>1. k \in 1 .. Len(c) /\ \A i \in 1 .. k : H[c[i]].ref = 1
    <3>1. k \in 1 .. Len(c)
      BY <1>1, <1>3
    <3>2. \A i \in 1 .. k : c[i] \in gone
      BY <1>1 DEF First
    <3>3. QED
      BY <3>1, <3>2
  <2>2. PICK g : g = MovedOn(h, p, c, k)
    OBVIOUS
  <2>3. /\ HeapOk(G, g) /\ DOMAIN G = DOMAIN H \ First(c, k)
        /\ k < Len(c) => LinksTo(G, c[k + 1]) = {}
    <3>1. G = Restrict(H, DOMAIN H \ First(c, k))
      BY <1>1
    <3>2. QED
      <4>1. /\ HeapOk(G, MovedOn(h, p, c, k)) /\ DOMAIN G = DOMAIN H \ First(c, k)
            /\ k < Len(c) => LinksTo(G, c[k + 1]) = {}
        BY <2>1, <3>1, RestOk
      <4>2. QED
        BY <2>2, <4>1
  <2>4. CASE k = Len(c)
    BY <1>3, <2>2, <2>3, <2>4
  <2>5. CASE k # Len(c)
    <3>1. k \in 1 .. Len(c) /\ k + 1 \in 1 .. Len(c) /\ k < Len(c) /\ k \in 1 .. Len(c) - 1
      BY <1>1, <1>3, <2>5
    <3>2. c[k + 1] \in DOMAIN G
      <4>1. \A i \in 1 .. k : i \in 1 .. Len(c) /\ i # k + 1
        BY <3>1
      <4>2. c[k + 1] \notin First(c, k)
        BY <3>1, <4>1 DEF First, IsChain
      <4>3. QED
        BY <1>1, <2>3, <3>1, <4>2
    <3>3. n - Before(H, c, k + 1) \in Nat
      <4>1. Before(H, c, k + 1) = Before(H, c, k) + H[c[k]].len /\ Before(H, c, k + 1) \in Nat
        BY <3>1 DEF BeforeGrows
      <4>2. k \in 1 .. k
        BY <3>1
      <4>3. Before(H, c, k) + H[c[k]].len <= n
        BY <4>2 DEF DropsFirst
      <4>4. QED
        BY <4>1, <4>3
    <3>4. HeapOk(HeaderRemoved(G, c[k + 1], n - Before(H, c, k + 1)), g)
      BY <2>3, <3>1, <3>2, <3>3, HeaderRemovedOk
    <3>5. QED
      BY <1>3, <2>2, <2>5, <3>4
  <2>6. QED
    BY <2>4, <2>5
<1>4. QED
  BY <1>2, <1>3

-----------------------------------------------------------------------------
(* The pool.                                                               *)

\* What remains to be allocated at the i-th pool pbuf of a chain, and what it holds.
Room(layer, i) == IF i = 1 THEN PoolSize - Align(layer) ELSE PoolSize
Left(layer, length, i) ==
  length - (IF i = 1 THEN 0 ELSE Room(layer, 1) + (i - 2) * PoolSize)

\* All but the last of n pool pbufs are full, and the last one holds the rest.
PoolFits(layer, length, n) ==
  /\ n \in Nat \ {0}
  /\ \A i \in 1 .. n : Left(layer, length, i) \in 0 .. length
  /\ \A i \in 1 .. n - 1 : Left(layer, length, i) = Room(layer, i) + Left(layer, length, i + 1)
  /\ Left(layer, length, n) <= Room(layer, n)

\* Room for a header does not fill a pool pbuf.
LEMMA RoomIs ==
  ASSUME NEW layer \in Layers
  PROVE  /\ PoolSize \in Nat \ {0} /\ Room(layer, 1) \in Nat \ {0} /\ Room(layer, 1) <= PoolSize
         /\ layer \in Nat /\ Align(layer) \in Nat
<1>1. layer \in Nat /\ PoolSize \in Nat /\ PoolSize >= layer + Alignment /\ Alignment \in Nat
  BY ConstantsAssumption DEF ConstantsAssumption
<1>2. Align(layer) \in Nat /\ Align(layer) < layer + Alignment
  BY <1>1, AlignIs
<1>3. QED
  BY <1>1, <1>2 DEF Room

\* A quotient, rounded up.
LEMMA RoundedUp ==
  ASSUME NEW d \in Nat \ {0}, NEW x \in Nat \ {0}
  PROVE  LET k == (x + d - 1) \div d IN k \in Nat \ {0} /\ k * d >= x /\ k * d < x + d
<1>1. PICK y, k : y = x + d - 1 /\ k = y \div d
  OBVIOUS
<1>2. y \in Nat /\ y >= d
  BY <1>1
<1>3. k \in Nat /\ k * d <= y /\ y < k * d + d
  BY <1>1, <1>2
<1>4. k # 0
  BY <1>2, <1>3
<1>5. k * d >= x /\ k * d < x + d
  <2>1. k * d \in Nat
    BY <1>3
  <2>2. QED
    BY <1>1, <1>3, <2>1
<1>6. QED
  BY <1>1, <1>3, <1>4, <1>5

\* The pool pbufs that a length takes are enough for it, and none is in vain.
LEMMA PoolLengths ==
  ASSUME NEW layer \in Layers, NEW length \in Nat
  PROVE  PoolFits(layer, length, PoolCount(layer, length))
<1>1. PICK d, r : d = PoolSize /\ r = Room(layer, 1)
  OBVIOUS
<1>2. d \in Nat /\ r \in Nat /\ d > 0 /\ r > 0 /\ r <= d
  BY <1>1, RoomIs
<1>3. PICK n : n = PoolCount(layer, length)
  OBVIOUS
<1>4. n = IF length <= r THEN 1 ELSE 1 + (length - r + d - 1) \div d
  BY <1>1, <1>3 DEF PoolCount, Room
<1>5. /\ Left(layer, length, 1) = length
      /\ \A i \in Nat : i > 1 => Left(layer, length, i) = length - r - (i - 2) * d
                                 /\ Room(layer, i) = d
  BY <1>1, <1>2 DEF Left, Room
<1>6. CASE length <= r
  BY <1>1, <1>3, <1>4, <1>5, <1>6 DEF PoolFits
<1>7. CASE ~ (length <= r)
  <2>1. PICK x, k : x = length - r /\ k = (x + d - 1) \div d
    OBVIOUS
  <2>2. x \in Nat /\ x > 0 /\ length = x + r
    BY <1>2, <1>7, <2>1
  <2>3. k \in Nat /\ k > 0 /\ k * d >= x /\ k * d < x + d
    BY <1>2, <2>1, <2>2, RoundedUp
  <2>4. n = 1 + k
    BY <1>4, <1>7, <2>1
  <2>5. ASSUME NEW i \in 2 .. n
        PROVE  Left(layer, length, i) \in 0 .. length
    <3>1. PICK m, l : m = i - 2 /\ l = k - 1 - m
      OBVIOUS
    <3>2. m \in Nat /\ l \in Nat /\ k = m + l + 1
      BY <2>3, <2>4, <3>1
    <3>3. m * d \in Nat /\ l * d \in Nat /\ k * d = m * d + l * d + d
      BY <1>2, <3>2
    <3>4. m * d < x
      BY <1>2, <2>2, <2>3, <3>3
    <3>5. Left(layer, length, i) = x - m * d
      BY <1>5, <2>1, <3>1, <2>3, <2>4
    <3>6. QED
      BY <1>2, <2>2, <3>3, <3>4, <3>5
  <2>6. \A i \in 1 .. n : Left(layer, length, i) \in 0 .. length
    BY <1>5, <2>3, <2>4, <2>5
  <2>7. ASSUME NEW i \in 1 .. n - 1
        PROVE  Left(layer, length, i) = Room(layer, i) + Left(layer, length, i + 1)
    <3>1. CASE i = 1
      <4>1. Left(layer, length, 2) = length - r - 0 * d
        BY <1>5
      <4>2. QED
        BY <1>1, <1>2, <1>5, <3>1, <4>1
    <3>2. CASE i # 1
      <4>1. PICK m : m = i - 2
        OBVIOUS
      <4>2. m \in Nat /\ i \in Nat /\ i > 1 /\ i + 1 \in Nat /\ i + 1 > 1 /\ (i + 1) - 2 = m + 1
        BY <2>3, <2>4, <3>2, <4>1
      <4>3. Left(layer, length, i) = length - r - m * d /\ Room(layer, i) = d
            /\ Left(layer, length, i + 1) = length - r - (m + 1) * d
        BY <1>5, <4>1, <4>2
      <4>4. (m + 1) * d = m * d + d /\ m * d \in Nat
        BY <1>2, <4>2
      <4>5. QED
        BY <1>2, <4>3, <4>4
    <3>3. QED
      BY <3>1, <3>2
  <2>8. Left(layer, length, n) <= Room(layer, n)
    <3>1. n \in Nat /\ n > 1 /\ n - 2 = k - 1
      BY <2>3, <2>4
    <3>2. Left(layer, length, n) = x - (k - 1) * d /\ Room(layer, n) = d
      BY <1>5, <2>1, <3>1
    <3>3. (k - 1) * d = k * d - d /\ k * d \in Nat
      BY <1>2, <2>3
    <3>4. QED
      BY <1>2, <2>2, <2>3, <3>2, <3>3
  <2>9. n \in Nat \ {0}
    BY <2>3, <2>4
  <2>10. QED
    BY <1>3, <2>6, <2>7, <2>8, <2>9 DEF PoolFits
<1>8. QED
  BY <1>6, <1>7

\* A heap with a new chain, whose lengths add up except that its end may be missing.
PoolTaken(H, T, addr) ==
  /\ DOMAIN T = DOMAIN H \cup First(addr, Len(addr))
  /\ \A q \in DOMAIN H : T[q] = H[q]
  /\ \A i \in 1 .. Len(addr) :
       /\ IsPbuf(T[addr[i]]) /\ Buffered(T[addr[i]]) /\ T[addr[i]].ref = 1
       /\ T[addr[i]].next = IF i < Len(addr) THEN addr[i + 1] ELSE NULL
  /\ \A i \in 1 .. Len(addr) - 1 : T[addr[i]].tot_len = T[addr[i]].len + T[addr[i + 1]].tot_len

\* The addresses of a new chain.
NewChain(H, addr) ==
  /\ addr \in Seq(Addresses) /\ Len(addr) > 0
  /\ \A i \in 1 .. Len(addr) : addr[i] \in Addresses \ DOMAIN H
  /\ \A i \in 1 .. Len(addr), j \in 1 .. Len(addr) : addr[i] = addr[j] => i = j

\* A new chain leaves the pointers in a heap as they are.
NewLinks(H, T, addr) ==
  /\ \A q \in DOMAIN H : LinksTo(T, q) = LinksTo(H, q)
  /\ \A i \in 1 .. Len(addr) : LinksTo(T, addr[i]) = IF i = 1 THEN {} ELSE {addr[i - 1]}

\* A chain from the pool adds its own links only.
LEMMA PoolLinks ==
  ASSUME NEW H, Linked(H), NEW addr, NewChain(H, addr), NEW T, PoolTaken(H, T, addr)
  PROVE  NewLinks(H, T, addr)
<1>1. PICK m : m = Len(addr)
  OBVIOUS
<1>2. m \in Nat /\ m > 0
  BY <1>1 DEF NewChain
<1>3. \A i \in 1 .. m : addr[i] \notin DOMAIN H /\ addr[i] # NULL
  BY <1>1, ConstantsAssumption DEF NewChain, ConstantsAssumption
<1>4. \A q \in DOMAIN H : T[q] = H[q] /\ H[q].next \in DOMAIN H \cup {NULL} /\ q # NULL
  BY ConstantsAssumption DEF PoolTaken, Linked, ConstantsAssumption
<1>5. \A i \in 1 .. m : T[addr[i]].next = IF i < m THEN addr[i + 1] ELSE NULL
  BY <1>1 DEF PoolTaken
<1>6. DOMAIN T = DOMAIN H \cup {addr[i] : i \in 1 .. m}
  BY <1>1 DEF PoolTaken, First
<1>7. \A i \in 1 .. m, j \in 1 .. m : addr[i] = addr[j] => i = j
  BY <1>1 DEF NewChain
<1>8. \A i \in 1 .. m : i < m => i + 1 \in 1 .. m
  BY <1>2
<1>9. ASSUME NEW q \in DOMAIN H
      PROVE  LinksTo(T, q) = LinksTo(H, q)
  <2>1. \A i \in 1 .. m : T[addr[i]].next # q
    BY <1>3, <1>4, <1>5, <1>8
  <2>2. QED
    BY <1>4, <1>6, <2>1 DEF LinksTo
<1>10. ASSUME NEW i \in 1 .. m
       PROVE  LinksTo(T, addr[i]) = IF i = 1 THEN {} ELSE {addr[i - 1]}
  <2>1. \A q \in DOMAIN H : T[q].next # addr[i]
    BY <1>3, <1>4
  <2>2. \A j \in 1 .. m : T[addr[j]].next = addr[i] => j = i - 1
    <3>1. \A j \in 1 .. m : j < m /\ addr[j + 1] = addr[i] => j + 1 = i
      BY <1>7, <1>8
    <3>2. QED
      BY <1>2, <1>3, <1>5, <3>1
  <2>3. CASE i = 1
    <3>1. \A j \in 1 .. m : T[addr[j]].next # addr[i]
      BY <1>2, <2>2, <2>3
    <3>2. QED
      BY <1>6, <2>1, <2>3, <3>1 DEF LinksTo
  <2>4. CASE i # 1
    <3>1. i - 1 \in 1 .. m /\ i - 1 < m /\ (i - 1) + 1 = i
      BY <1>2, <2>4
    <3>2. T[addr[i - 1]].next = addr[i]
      BY <1>5, <3>1
    <3>3. QED
      BY <1>6, <2>1, <2>2, <2>4, <3>1, <3>2 DEF LinksTo
  <2>5. QED
    BY <2>3, <2>4
<1>11. QED
  BY <1>1, <1>9, <1>10 DEF NewLinks

\* It ends, and it is linked and counted.
LEMMA PoolLinked ==
  ASSUME NEW H, NEW h, Linked(H), Counted(H, h), NEW addr, NewChain(H, addr),
         NEW T, PoolTaken(H, T, addr)
  PROVE  Linked(T) /\ Counted(T, [h EXCEPT ![addr[1]] = 1])
<1>1. PICK m : m = Len(addr)
  OBVIOUS
<1>2. m \in Nat /\ m > 0
  BY <1>1 DEF NewChain
<1>3. \A i \in 1 .. m : addr[i] \in Addresses \ DOMAIN H
  BY <1>1 DEF NewChain
<1>4. \A q \in DOMAIN H : T[q] = H[q] /\ H[q].next \in DOMAIN H \cup {NULL} /\ IsPbuf(H[q])
  BY DEF PoolTaken, Linked
<1>5. \A i \in 1 .. m : /\ T[addr[i]].next = IF i < m THEN addr[i + 1] ELSE NULL
                        /\ IsPbuf(T[addr[i]]) /\ T[addr[i]].ref = 1
  BY <1>1 DEF PoolTaken
<1>6. DOMAIN T = DOMAIN H \cup {addr[i] : i \in 1 .. m}
  BY <1>1 DEF PoolTaken, First
<1>7. \A i \in 1 .. m, j \in 1 .. m : addr[i] = addr[j] => i = j
  BY <1>1 DEF NewChain
<1>8. \A i \in 1 .. m : i < m => i + 1 \in 1 .. m
  BY <1>2
<1>9. DOMAIN T \subseteq Addresses
  BY <1>3, <1>6 DEF Linked
<1>10. NULL \notin DOMAIN T
  BY <1>9, ConstantsAssumption DEF ConstantsAssumption
<1>11. Grounded(T)
  <2>1. SUFFICES ASSUME NEW S \in SUBSET DOMAIN T, S # {}
                 PROVE  \E q \in S : T[q].next \notin S
    BY DEF Grounded
  <2>2. CASE \E i \in 1 .. m : addr[i] \in S
    <3> DEFINE K == {k \in Nat : k < m /\ addr[m - k] \in S}
    <3>1. K # {} /\ K \in SUBSET Nat
      <4>1. PICK i \in 1 .. m : addr[i] \in S
        BY <2>2
      <4>2. m - i \in Nat /\ m - i < m /\ m - (m - i) = i
        BY <1>2
      <4>3. QED
        BY <4>1, <4>2
    <3>2. PICK k \in K : \A j \in K : k <= j
      <4> HIDE DEF K
      <4>1. QED
        BY <3>1, LeastExists
    <3>3. PICK i : i = m - k
      OBVIOUS
    <3>4. i \in 1 .. m /\ addr[i] \in S
      BY <1>2, <3>3
    <3>5. T[addr[i]].next \notin S
      <4>1. CASE i < m
        <5>1. k - 1 \in Nat /\ k - 1 < m /\ m - (k - 1) = i + 1 /\ ~ (k <= k - 1)
          BY <1>2, <3>3, <3>4, <4>1
        <5>2. addr[i + 1] \notin S
          BY <3>2, <5>1
        <5>3. QED
          BY <1>5, <3>4, <4>1, <5>2
      <4>2. CASE ~ (i < m)
        BY <1>5, <1>10, <3>4, <4>2
      <4>3. QED
        BY <4>1, <4>2
    <3>6. QED
      BY <3>4, <3>5
  <2>3. CASE \A i \in 1 .. m : addr[i] \notin S
    <3>1. S \in SUBSET DOMAIN H
      BY <1>6, <2>3
    <3>2. PICK q \in S : H[q].next \notin S
      BY <2>1, <3>1 DEF Linked, Grounded
    <3>3. QED
      BY <1>4, <3>1, <3>2
  <2>4. QED
    BY <2>2, <2>3
<1>12. \A q \in DOMAIN T : IsPbuf(T[q]) /\ T[q].next \in DOMAIN T \cup {NULL}
  BY <1>4, <1>5, <1>6, <1>8
<1>13. Linked(T)
  BY <1>9, <1>11, <1>12 DEF Linked
<1>14. PICK a, g : a = addr[1] /\ g = [h EXCEPT ![a] = 1]
  OBVIOUS
<1>15. a \in Addresses \ DOMAIN H /\ a \in DOMAIN T
  <2>1. 1 \in 1 .. m
    BY <1>2
  <2>2. QED
    BY <1>3, <1>6, <1>14, <2>1
<1>16. h \in [Addresses -> Nat] /\ \A p \in Addresses \ DOMAIN H : h[p] = 0
  BY DEF Counted
<1>17. g \in [Addresses -> Nat] /\ g[a] = 1 /\ \A p \in Addresses : p # a => g[p] = h[p]
  BY <1>14, <1>15, <1>16
<1>18. /\ \A q \in DOMAIN H : LinksTo(T, q) = LinksTo(H, q)
       /\ \A i \in 1 .. m : LinksTo(T, addr[i]) = IF i = 1 THEN {} ELSE {addr[i - 1]}
  <2>1. NewLinks(H, T, addr)
    BY PoolLinks
  <2>2. QED
    BY <1>1, <2>1 DEF NewLinks
<1>19. ASSUME NEW q \in DOMAIN T
       PROVE  T[q].ref = g[q] + Cardinality(LinksTo(T, q)) /\ T[q].ref > 0
  <2>1. CASE q \in DOMAIN H
    <3>1. H[q].ref = h[q] + Cardinality(LinksTo(H, q)) /\ H[q].ref > 0
      BY <2>1 DEF Counted
    <3>2. g[q] = h[q] /\ T[q] = H[q] /\ LinksTo(T, q) = LinksTo(H, q)
      BY <1>4, <1>9, <1>15, <1>17, <1>18, <2>1
    <3>3. QED
      BY <3>1, <3>2
  <2>2. CASE q \notin DOMAIN H
    <3>1. PICK i \in 1 .. m : q = addr[i]
      BY <1>6, <2>2
    <3>2. T[q].ref = 1
      BY <1>5, <3>1
    <3>3. CASE i = 1
      <4>1. g[q] = 1 /\ LinksTo(T, q) = {}
        BY <1>14, <1>17, <1>18, <3>1, <3>3
      <4>2. QED
        BY <3>2, <4>1, FS_EmptySet
    <3>4. CASE i # 1
      <4>1. q # a
        <5>1. 1 \in 1 .. m
          BY <1>2
        <5>2. QED
          BY <1>7, <1>14, <3>1, <3>4, <5>1
      <4>2. g[q] = 0 /\ LinksTo(T, q) = {addr[i - 1]}
        BY <1>3, <1>16, <1>17, <1>18, <3>1, <3>4, <4>1
      <4>3. QED
        <5>1. Cardinality(LinksTo(T, q)) = 1
          BY <4>2, FS_Singleton
        <5>2. QED
          BY <3>2, <4>2, <5>1
    <3>5. QED
      BY <3>3, <3>4
  <2>3. QED
    BY <2>1, <2>2
<1>20. \A p \in Addresses \ DOMAIN T : g[p] = 0
  BY <1>6, <1>15, <1>16, <1>17
<1>21. Counted(T, g)
  BY <1>17, <1>19, <1>20 DEF Counted
<1>22. QED
  BY <1>13, <1>14, <1>21

\* The i-th pbuf of a new chain.
TakenLen(layer, length, i) ==
  IF Left(layer, length, i) < Room(layer, i) THEN Left(layer, length, i) ELSE Room(layer, i)
Taken(layer, length, addr, i) ==
  [Alloced(TRUE, IF i = 1 THEN Align(layer) ELSE 0, Fresh(TakenLen(layer, length, i)),
           Left(layer, length, i))
     EXCEPT !.next = IF i < Len(addr) THEN addr[i + 1] ELSE NULL]

\* A new pbuf with a link.
LEMMA LinkedNew ==
  ASSUME NEW b, NEW headroom, NEW len, NEW tot_len, IsNew(b, headroom, len, tot_len), NEW x,
         NEW d, d = [b EXCEPT !.next = x]
  PROVE  Becomes(b, d, x, len, tot_len) /\ d.ref = 1
<1>1. IsPbuf(b) /\ Buffered(b) /\ b.ref = 1 /\ b.len = len /\ b.tot_len = tot_len
  BY DEF IsNew
<1>2. d = [contiguous |-> b.contiguous, mem |-> b.mem, payload |-> b.payload,
           tot_len |-> b.tot_len, len |-> b.len, next |-> x, ref |-> b.ref]
  BY <1>1 DEF IsPbuf
<1>3. IsPbuf(d) /\ Buffered(d)
  BY <1>1, <1>2 DEF IsPbuf, Buffered
<1>4. QED
  BY <1>1, <1>2, <1>3 DEF Becomes

\* What the pool gives: structs with what they hold, and the links between them.
IsTaken(b, addr, i, len, tot_len) ==
  /\ IsPbuf(b) /\ Buffered(b) /\ b.ref = 1 /\ b.len = len /\ b.tot_len = tot_len
  /\ b.next = IF i < Len(addr) THEN addr[i + 1] ELSE NULL

\* Each struct taken from the pool is well-formed, with its own part of the length.
LEMMA TakenIs ==
  ASSUME NEW layer \in Layers, NEW length \in 0 .. MaxLen, NEW n, PoolFits(layer, length, n),
         NEW addr, NEW i \in 1 .. n
  PROVE  IsTaken(Taken(layer, length, addr, i), addr, i, TakenLen(layer, length, i),
                 Left(layer, length, i))
<1>1. PICK l, t, x, r, s : /\ l = TakenLen(layer, length, i) /\ t = Left(layer, length, i)
                           /\ x = (IF i < Len(addr) THEN addr[i + 1] ELSE NULL)
                           /\ r = (IF i = 1 THEN Align(layer) ELSE 0)
                           /\ s = Room(layer, i)
  OBVIOUS
<1>2. t \in 0 .. Width - 1
  <2>1. t \in 0 .. length
    BY <1>1 DEF PoolFits
  <2>2. MaxLen \in Nat /\ MaxLen < Width /\ Width \in Nat
    BY ConstantsAssumption DEF ConstantsAssumption
  <2>3. QED
    BY <2>1, <2>2
<1>3. r \in Nat /\ s \in Nat
  BY <1>1, RoomIs DEF Room
<1>4. l \in Nat
  BY <1>1, <1>2, <1>3 DEF TakenLen
<1>5. Fresh(l) \in Seq({0}) /\ Len(Fresh(l)) = l
  BY <1>4, FreshIs
<1>6. PICK b, d : b = Alloced(TRUE, r, Fresh(l), t) /\ d = Taken(layer, length, addr, i)
  OBVIOUS
<1>7. IsNew(b, r, l, t)
  BY <1>2, <1>3, <1>5, <1>6, AllocedIs
<1>8. d = [b EXCEPT !.next = x]
  BY <1>1, <1>6 DEF Taken
<1>9. Becomes(b, d, x, l, t) /\ d.ref = 1
  BY <1>7, <1>8, LinkedNew
<1>10. QED
  BY <1>1, <1>6, <1>9 DEF IsTaken, Becomes

\* The loop of pbuf_alloc() makes such a chain, whole if the pool is large enough.
LEMMA PoolTakenIs ==
  ASSUME NEW H, NEW layer \in Layers, NEW length \in 0 .. MaxLen,
         NEW n, PoolFits(layer, length, n),
         NEW addr, NewChain(H, addr), Len(addr) <= n,
         NEW T, T = WithPoolChain(H, layer, length, addr)
  PROVE  /\ PoolTaken(H, T, addr)
         /\ Len(addr) = n => T[addr[n]].tot_len = T[addr[n]].len
<1>1. PICK m : m = Len(addr)
  OBVIOUS
<1>2. m \in Nat /\ m > 0 /\ n \in Nat /\ m <= n /\ DOMAIN addr = 1 .. m
  BY <1>1 DEF NewChain, PoolFits
<1>3. \A i \in 1 .. m : addr[i] \in Addresses \ DOMAIN H
  BY <1>1 DEF NewChain
<1>4. \A i \in 1 .. m, j \in 1 .. m : addr[i] = addr[j] => i = j
  BY <1>1 DEF NewChain
<1>5. T = [p \in DOMAIN H \cup ToSet(addr) |->
             IF p \in ToSet(addr)
             THEN Taken(layer, length, addr, CHOOSE i \in DOMAIN addr : addr[i] = p)
             ELSE H[p]]
  BY DEF WithPoolChain, Taken, TakenLen, Left, Room
<1>6. ToSet(addr) = {addr[i] : i \in 1 .. m}
  BY <1>2 DEF ToSet
<1>7. DOMAIN T = DOMAIN H \cup ToSet(addr)
  BY <1>5
<1>8. \A q \in DOMAIN H : T[q] = H[q]
  BY <1>3, <1>5, <1>6
<1>9. ASSUME NEW i \in 1 .. m
      PROVE  T[addr[i]] = Taken(layer, length, addr, i)
  <2>1. (CHOOSE j \in DOMAIN addr : addr[j] = addr[i]) = i
    BY <1>2, <1>4
  <2>2. addr[i] \in ToSet(addr)
    BY <1>6
  <2>3. T[addr[i]] = Taken(layer, length, addr, CHOOSE j \in DOMAIN addr : addr[j] = addr[i])
    BY <1>5, <2>2
  <2>4. QED
    BY <2>1, <2>3
<1>10. ASSUME NEW i \in 1 .. m
       PROVE  IsTaken(T[addr[i]], addr, i, TakenLen(layer, length, i), Left(layer, length, i))
  <2>1. i \in 1 .. n
    BY <1>2
  <2>2. QED
    BY <1>9, <2>1, TakenIs
<1>11. ASSUME NEW i \in 1 .. m - 1
       PROVE  T[addr[i]].tot_len = T[addr[i]].len + T[addr[i + 1]].tot_len
  <2>1. i \in 1 .. m /\ i + 1 \in 1 .. m /\ i \in 1 .. n - 1 /\ i + 1 \in 1 .. n /\ i \in 1 .. n
    BY <1>2
  <2>2. Left(layer, length, i) = Room(layer, i) + Left(layer, length, i + 1)
        /\ Left(layer, length, i + 1) \in Nat
    BY <2>1 DEF PoolFits
  <2>3. Room(layer, i) \in Nat
    BY RoomIs DEF Room
  <2>4. TakenLen(layer, length, i) = Room(layer, i)
    BY <2>2, <2>3 DEF TakenLen
  <2>5. T[addr[i]].tot_len = Left(layer, length, i) /\ T[addr[i]].len = Room(layer, i)
        /\ T[addr[i + 1]].tot_len = Left(layer, length, i + 1)
    BY <1>10, <2>1, <2>4 DEF IsTaken
  <2>6. QED
    BY <2>2, <2>5
<1>12. ASSUME m = n
       PROVE  T[addr[n]].tot_len = T[addr[n]].len
  <2>1. n \in 1 .. m
    BY <1>2, <1>12
  <2>2. Left(layer, length, n) <= Room(layer, n) /\ Left(layer, length, n) \in Nat
    BY <1>12, <2>1 DEF PoolFits
  <2>3. Room(layer, n) \in Nat
    BY RoomIs DEF Room
  <2>4. TakenLen(layer, length, n) = Left(layer, length, n)
    BY <2>2, <2>3 DEF TakenLen
  <2>5. QED
    BY <1>10, <2>1, <2>4 DEF IsTaken
<1>13. PoolTaken(H, T, addr)
  <2>1. DOMAIN T = DOMAIN H \cup First(addr, Len(addr))
    BY <1>1, <1>6, <1>7 DEF First
  <2>2. \A i \in 1 .. m :
          /\ IsPbuf(T[addr[i]]) /\ Buffered(T[addr[i]]) /\ T[addr[i]].ref = 1
          /\ T[addr[i]].next = IF i < m THEN addr[i + 1] ELSE NULL
    BY <1>1, <1>10 DEF IsTaken
  <2>3. QED
    BY <1>1, <1>8, <1>11, <2>1, <2>2 DEF PoolTaken
<1>14. QED
  BY <1>1, <1>12, <1>13

\* A whole chain is in order.
LEMMA PoolWholeOk ==
  ASSUME NEW H, NEW h, HeapOk(H, h), NEW addr, NewChain(H, addr), NEW T, PoolTaken(H, T, addr),
         NEW n, n = Len(addr), T[addr[n]].tot_len = T[addr[n]].len
  PROVE  HeapOk(T, [h EXCEPT ![addr[1]] = 1])
<1>1. Linked(H) /\ Counted(H, h)
  BY DEF HeapOk
<1>2. n \in Nat /\ n > 0
  BY DEF NewChain
<1>3. \A q \in DOMAIN H : T[q] = H[q] /\ H[q].next \in DOMAIN H \cup {NULL} /\ Buffered(H[q])
  BY <1>1 DEF PoolTaken, HeapOk, Linked
<1>4. \A i \in 1 .. n : T[addr[i]].next = (IF i < n THEN addr[i + 1] ELSE NULL)
                        /\ Buffered(T[addr[i]]) /\ IsPbuf(T[addr[i]])
  BY DEF PoolTaken
<1>5. DOMAIN T = DOMAIN H \cup {addr[i] : i \in 1 .. n}
  BY DEF PoolTaken, First
<1>6. \A i \in 1 .. n : addr[i] # NULL
  BY ConstantsAssumption DEF NewChain, ConstantsAssumption
<1>7. ASSUME NEW q \in DOMAIN T
      PROVE  T[q].tot_len = T[q].len + (IF T[q].next = NULL THEN 0 ELSE T[T[q].next].tot_len)
  <2>1. CASE q \in DOMAIN H
    <3>1. T[q] = H[q] /\ (H[q].next # NULL => T[H[q].next] = H[H[q].next])
      BY <1>3, <2>1
    <3>2. H[q].tot_len = H[q].len + (IF H[q].next = NULL THEN 0 ELSE H[H[q].next].tot_len)
      BY <2>1 DEF HeapOk, Summed
    <3>3. QED
      BY <3>1, <3>2
  <2>2. CASE q \notin DOMAIN H
    <3>1. PICK i \in 1 .. n : q = addr[i]
      BY <1>5, <2>2
    <3>2. CASE i = n
      <4>1. T[q].next = NULL
        BY <1>2, <1>4, <3>1, <3>2
      <4>2. T[q].tot_len = T[q].len
        BY <3>1, <3>2
      <4>3. T[q].len \in Nat
        BY <1>4, <3>1 DEF IsPbuf
      <4>4. QED
        BY <4>1, <4>2, <4>3
    <3>3. CASE i # n
      <4>1. i \in 1 .. n - 1 /\ i + 1 \in 1 .. n /\ i < n
        BY <1>2, <3>3
      <4>2. T[q].next = addr[i + 1] /\ addr[i + 1] # NULL
        BY <1>4, <1>6, <3>1, <4>1
      <4>3. T[q].tot_len = T[q].len + T[addr[i + 1]].tot_len
        BY <3>1, <4>1 DEF PoolTaken
      <4>4. QED
        BY <4>2, <4>3
    <3>4. QED
      BY <3>2, <3>3
  <2>3. QED
    BY <2>1, <2>2
<1>8. Summed(T)
  BY <1>7 DEF Summed
<1>9. \A q \in DOMAIN T : Buffered(T[q])
  BY <1>3, <1>4, <1>5
<1>10. Linked(T) /\ Counted(T, [h EXCEPT ![addr[1]] = 1])
  BY <1>1, PoolLinked
<1>11. QED
  BY <1>8, <1>9, <1>10 DEF HeapOk

\* Of a chain that is given back nothing stays.
LEMMA PoolFailedOk ==
  ASSUME NEW H, NEW h, HeapOk(H, h), NEW addr, NewChain(H, addr), NEW T, PoolTaken(H, T, addr)
  PROVE  HeapOk(Freed(T, addr[1]), h)
<1>1. Linked(H) /\ Counted(H, h)
  BY DEF HeapOk
<1>2. PICK m, a, g : m = Len(addr) /\ a = addr[1] /\ g = [h EXCEPT ![a] = 1]
  OBVIOUS
<1>3. Linked(T) /\ Counted(T, g)
  <2>1. Linked(T) /\ Counted(T, [h EXCEPT ![addr[1]] = 1])
    BY <1>1, PoolLinked
  <2>2. QED
    BY <1>2, <2>1
<1>4. m \in Nat /\ m > 0 /\ 1 \in 1 .. m
  BY <1>2 DEF NewChain
<1>5. DOMAIN T = DOMAIN H \cup {addr[i] : i \in 1 .. m}
  BY <1>2 DEF PoolTaken, First
<1>6. \A i \in 1 .. m : addr[i] \in Addresses \ DOMAIN H
  BY <1>2 DEF NewChain
<1>7. h \in [Addresses -> Nat] /\ \A p \in Addresses \ DOMAIN H : h[p] = 0
  BY <1>1 DEF Counted
<1>8. a \in DOMAIN T /\ a \in Addresses /\ g[a] = 1 /\ h[a] = 0
  BY <1>2, <1>4, <1>5, <1>6, <1>7
<1>9. PICK G : G = Freed(T, a)
  OBVIOUS
<1>10. Freeing(T, g, a, G)
  <2>1. g[a] > 0
    BY <1>8
  <2>2. QED
    BY <1>3, <1>8, <1>9, <2>1, FreedKeeps
<1>11. [g EXCEPT ![a] = @ - 1] = h
  <2>1. [g EXCEPT ![a] = @ - 1] = [h EXCEPT ![a] = 0]
    BY <1>2, <1>7, <1>8
  <2>2. [h EXCEPT ![a] = 0] = h
    BY <1>7, <1>8
  <2>3. QED
    BY <2>1, <2>2
<1>12. Linked(G) /\ Counted(G, h) /\ Reduced(T, G)
  BY <1>10, <1>11 DEF Freeing
<1>13. \A i \in 1 .. m : LinksTo(T, addr[i]) = IF i = 1 THEN {} ELSE {addr[i - 1]}
  <2>1. NewLinks(H, T, addr)
    BY <1>1, PoolLinks
  <2>2. QED
    BY <1>2, <2>1 DEF NewLinks
<1>14. DOMAIN G \subseteq DOMAIN T /\ \A q \in DOMAIN G : G[q].next = T[q].next
  <2>1. DOMAIN G \subseteq DOMAIN T /\ \A q \in DOMAIN G : G[q] = [T[q] EXCEPT !.ref = G[q].ref]
    BY <1>12 DEF Reduced
  <2>2. \A q \in DOMAIN G : IsPbuf(T[q])
    BY <1>3, <2>1 DEF Linked
  <2>3. ASSUME NEW q \in DOMAIN G
        PROVE  G[q].next = T[q].next
    <3>1. PICK b, d, r : b = T[q] /\ d = G[q] /\ r = G[q].ref
      OBVIOUS
    <3>2. IsPbuf(b) /\ d = [b EXCEPT !.ref = r]
      BY <2>1, <2>2, <3>1
    <3>3. d.next = b.next
      BY <3>2 DEF IsPbuf
    <3>4. QED
      BY <3>1, <3>3
  <2>4. QED
    BY <2>1, <2>3
<1>15. ASSUME NEW i \in 1 .. m, addr[i] \in DOMAIN G,
              i = 1 \/ addr[i - 1] \notin DOMAIN G
       PROVE  FALSE
  <2>1. LinksTo(G, addr[i]) \subseteq LinksTo(T, addr[i]) \cap DOMAIN G
    BY <1>14 DEF LinksTo
  <2>2. LinksTo(T, addr[i]) \cap DOMAIN G = {}
    BY <1>13, <1>15
  <2>3. LinksTo(G, addr[i]) = {}
    BY <2>1, <2>2
  <2>4. G[addr[i]].ref = h[addr[i]] + Cardinality(LinksTo(G, addr[i])) /\ G[addr[i]].ref > 0
    BY <1>12, <1>15 DEF Counted
  <2>5. h[addr[i]] = 0
    BY <1>6, <1>7
  <2>6. QED
    BY <2>3, <2>4, <2>5, FS_EmptySet
<1>16. \A i \in 1 .. m : addr[i] \notin DOMAIN G
  <2> DEFINE K == {i \in 1 .. m : addr[i] \in DOMAIN G}
  <2>1. SUFFICES ASSUME K # {}
                 PROVE  FALSE
    OBVIOUS
  <2>2. K \in SUBSET Nat
    OBVIOUS
  <2>3. PICK i \in K : \A j \in K : i <= j
    <3> HIDE DEF K
    <3>1. QED
      BY <2>1, <2>2, LeastExists
  <2>4. i \in 1 .. m /\ addr[i] \in DOMAIN G
    BY <2>3
  <2>5. i = 1 \/ addr[i - 1] \notin DOMAIN G
    <3>1. i # 1 => i - 1 \in 1 .. m /\ ~ (i <= i - 1)
      BY <1>4, <2>4
    <3>2. QED
      BY <2>3, <3>1
  <2>6. QED
    BY <1>15, <2>4, <2>5
<1>17. DOMAIN G \subseteq DOMAIN H
  BY <1>5, <1>14, <1>16
<1>18. ASSUME NEW q \in DOMAIN G
       PROVE  /\ T[q].tot_len = T[q].len + (IF T[q].next = NULL THEN 0 ELSE T[T[q].next].tot_len)
              /\ Buffered(T[q])
  <2>1. \A x \in DOMAIN H : T[x] = H[x]
    BY DEF PoolTaken
  <2>2. H[q].next \in DOMAIN H \cup {NULL} /\ Buffered(H[q]) /\ q \in DOMAIN H
    BY <1>1, <1>17 DEF HeapOk, Linked
  <2>3. H[q].tot_len = H[q].len + (IF H[q].next = NULL THEN 0 ELSE H[H[q].next].tot_len)
    BY <2>2 DEF HeapOk, Summed
  <2>4. T[q] = H[q] /\ (H[q].next # NULL => T[H[q].next] = H[H[q].next])
    BY <2>1, <2>2
  <2>5. QED
    BY <2>2, <2>3, <2>4
<1>19. HeapOk(G, h)
  BY <1>3, <1>12, <1>18, ReducedKeeps
<1>20. QED
  BY <1>2, <1>9, <1>19

-----------------------------------------------------------------------------
(* The inductive invariant.                                                *)

HeapInv == HeapOk(pbufs, held)

\* What the guards of the calls say of a chain.
LEMMA GuardsAre ==
  ASSUME HeapInv
  PROVE  /\ Linked(pbufs) /\ Structs(pbufs) /\ held \in [Addresses -> Nat]
         /\ DOMAIN pbufs \subseteq Addresses
         /\ \A p \in DOMAIN pbufs :
              /\ IsChain(pbufs, p, Chain(pbufs, p)) /\ BeforeGrows(pbufs, Chain(pbufs, p))
              /\ Exclusive(p) => Alone(pbufs, Chain(pbufs, p)) /\ LinksTo(pbufs, p) = {}
<1>1. Linked(pbufs) /\ Counted(pbufs, held) /\ Summed(pbufs)
  BY DEF HeapInv, HeapOk
<1>2. Structs(pbufs)
  BY DEF HeapInv, HeapOk, Linked, Structs
<1>3. ASSUME NEW p \in DOMAIN pbufs
      PROVE  /\ IsChain(pbufs, p, Chain(pbufs, p)) /\ BeforeGrows(pbufs, Chain(pbufs, p))
             /\ Exclusive(p) => Alone(pbufs, Chain(pbufs, p)) /\ LinksTo(pbufs, p) = {}
  <2>1. PICK c : c = Chain(pbufs, p)
    OBVIOUS
  <2>2. IsChain(pbufs, p, c)
    BY <1>1, <2>1, ChainIs
  <2>3. BeforeGrows(pbufs, c)
    BY <1>1, <1>2, <2>2, LengthsAre
  <2>4. ASSUME Exclusive(p)
        PROVE  Alone(pbufs, c) /\ LinksTo(pbufs, p) = {}
    <3>1. Alone(pbufs, c)
      BY <1>1, <2>1, <2>2, <2>4, ExclusiveIs
    <3>2. Len(c) \in Nat /\ Len(c) > 0 /\ c[1] = p
      BY <2>2 DEF IsChain, LinkedFrom
    <3>3. 1 \in 1 .. Len(c)
      BY <3>2
    <3>4. QED
      BY <3>1, <3>2, <3>3 DEF Alone
  <2>5. QED
    BY <2>1, <2>2, <2>3, <2>4
<1>4. QED
  BY <1>1, <1>2, <1>3 DEF Counted, Linked

\* Initially there are no pbufs.
LEMMA HeapInit ==
  ASSUME Init
  PROVE  HeapInv
<1>1. PICK H, h : H = pbufs /\ h = held
  OBVIOUS
<1>2. DOMAIN H = {}
  BY <1>1 DEF Init
<1>3. h \in [Addresses -> Nat] /\ \A p \in Addresses : h[p] = 0
  BY <1>1 DEF Init
<1>4. Linked(H) /\ Counted(H, h) /\ Summed(H)
  BY <1>2, <1>3 DEF Linked, Grounded, Counted, Summed
<1>5. HeapOk(H, h)
  BY <1>2, <1>4 DEF HeapOk
<1>6. QED
  BY <1>1, <1>5 DEF HeapInv

\* pbuf_alloc(), PBUF_POOL.
LEMMA AllocPoolStep ==
  ASSUME HeapInv, NEW layer \in Layers, NEW length \in 0 .. MaxLen, AllocPool(layer, length)
  PROVE  HeapInv'
<1>1. PICK n : n = PoolCount(layer, length)
  OBVIOUS
<1>2. PICK k : k = Smaller(n, Cardinality(Unused))
  OBVIOUS
<1>3. PICK addr \in Orders(Unused, k) :
        LET T == WithPoolChain(pbufs, layer, length, addr)
        IN  /\ addr # <<>>
            /\ IF Len(addr) = n
               THEN pbufs' = T /\ held' = [held EXCEPT ![addr[1]] = 1]
               ELSE pbufs' = Freed(T, addr[1]) /\ held' = held
  BY <1>1, <1>2 DEF AllocPool
<1>4. HeapOk(pbufs, held)
  BY DEF HeapInv
<1>5. length \in Nat /\ PoolFits(layer, length, n) /\ n \in Nat
  <2>1. length \in Nat
    BY ConstantsAssumption DEF ConstantsAssumption
  <2>2. PoolFits(layer, length, n)
    BY <1>1, <2>1, PoolLengths
  <2>3. QED
    BY <2>1, <2>2 DEF PoolFits
<1>6. k \in Nat /\ k <= n
  <2>1. IsFiniteSet(Addresses)
    BY ConstantsAssumption DEF ConstantsAssumption
  <2>2. IsFiniteSet(Unused)
    BY <2>1, FS_Subset DEF Unused
  <2>3. Cardinality(Unused) \in Nat
    BY <2>2, FS_CardinalityType
  <2>4. QED
    BY <1>2, <1>5, <2>3 DEF Smaller
<1>7. addr \in [1 .. k -> Unused] /\ \A i \in 1 .. k, j \in 1 .. k : addr[i] = addr[j] => i = j
  BY <1>3 DEF Orders, IsInjective
<1>8. addr \in Seq(Unused) /\ Len(addr) = k
  BY <1>6, <1>7
<1>9. k > 0
  <2>1. SUFFICES ASSUME k = 0
                 PROVE  addr = <<>>
    BY <1>3, <1>6
  <2>2. QED
    BY <1>8, <2>1
<1>10. NewChain(pbufs, addr)
  <2>1. \A i \in 1 .. k : addr[i] \in Addresses \ DOMAIN pbufs
    BY <1>7 DEF Unused
  <2>2. addr \in Seq(Addresses)
    BY <1>8 DEF Unused
  <2>3. QED
    BY <1>7, <1>8, <1>9, <2>1, <2>2 DEF NewChain
<1>11. PICK T : T = WithPoolChain(pbufs, layer, length, addr)
  OBVIOUS
<1>12. PoolTaken(pbufs, T, addr) /\ (Len(addr) = n => T[addr[n]].tot_len = T[addr[n]].len)
  <2>1. Len(addr) <= n /\ PoolFits(layer, length, n)
    BY <1>5, <1>6, <1>8
  <2>2. QED
    BY <1>10, <1>11, <2>1, PoolTakenIs
<1>13. CASE Len(addr) = n
  <2>1. HeapOk(T, [held EXCEPT ![addr[1]] = 1])
    BY <1>4, <1>10, <1>12, <1>13, PoolWholeOk
  <2>2. QED
    BY <1>3, <1>11, <1>13, <2>1 DEF HeapInv
<1>14. CASE Len(addr) # n
  <2>1. HeapOk(Freed(T, addr[1]), held)
    BY <1>4, <1>10, <1>12, PoolFailedOk
  <2>2. QED
    BY <1>3, <1>11, <1>14, <2>1 DEF HeapInv
<1>15. QED
  BY <1>13, <1>14

\* pbuf_coalesce().
LEMMA CoalesceStep ==
  ASSUME HeapInv, NEW layer \in Layers, NEW p \in DOMAIN pbufs, Coalesce(layer, p)
  PROVE  HeapInv'
<1>1. PICK new \in Unused : /\ pbufs' = Freed(Cloned(pbufs, layer, p, new), p)
                            /\ held' = [held EXCEPT ![new] = 1, ![p] = @ - 1]
  BY DEF Coalesce
<1>2. held[p] > 0 /\ p \in Addresses /\ new \in Addresses \ DOMAIN pbufs /\ new # p
      /\ held \in [Addresses -> Nat] /\ layer \in Nat
  BY <1>1, GuardsAre, ConstantsAssumption DEF Coalesce, Held, Unused, ConstantsAssumption
<1>3. PICK G, g : G = Cloned(pbufs, layer, p, new) /\ g = [held EXCEPT ![new] = 1]
  OBVIOUS
<1>4. HeapOk(pbufs, held)
  BY DEF HeapInv
<1>5. HeapOk(G, g) /\ DOMAIN G = DOMAIN pbufs \cup {new}
  <2>1. Cloning(pbufs, held, new, Cloned(pbufs, layer, p, new))
    BY <1>2, <1>4, CloneOk
  <2>2. QED
    BY <1>3, <2>1 DEF Cloning
<1>6. p \in DOMAIN G /\ g[p] > 0
  BY <1>2, <1>3, <1>5
<1>7. HeapOk(Freed(G, p), [g EXCEPT ![p] = @ - 1])
  BY <1>5, <1>6, FreedOk
<1>8. held' = [g EXCEPT ![p] = @ - 1]
  <2>1. [held EXCEPT ![new] = 1, ![p] = @ - 1] = [[held EXCEPT ![new] = 1] EXCEPT ![p] = @ - 1]
    BY <1>2
  <2>2. QED
    BY <1>1, <1>3, <2>1
<1>9. QED
  BY <1>1, <1>3, <1>7, <1>8 DEF HeapInv

\* pbuf_cat().
LEMMA CatStep ==
  ASSUME HeapInv, NEW p \in DOMAIN pbufs, NEW t \in DOMAIN pbufs, MayFollow(p, t)
  PROVE  HeapOk(Concatenated(pbufs, p, t), [held EXCEPT ![t] = @ - 1])
<1>1. held[t] > 0 /\ Exclusive(p) /\ pbufs[p].tot_len + pbufs[t].tot_len < Width
      /\ ToSet(Chain(pbufs, p)) \cap ToSet(Chain(pbufs, t)) = {}
  BY DEF MayFollow, Held
<1>2. Alone(pbufs, Chain(pbufs, p))
  BY <1>1, GuardsAre
<1>3. HeapOk(pbufs, held)
  BY DEF HeapInv
<1>4. QED
  BY <1>1, <1>2, <1>3, CatOk

\* pbuf_chain(): the caller keeps its pointer.
LEMMA ChainUpStep ==
  ASSUME HeapInv, NEW p \in DOMAIN pbufs, NEW t \in DOMAIN pbufs, ChainUp(p, t)
  PROVE  HeapInv'
<1>1. PICK G, g : G = Concatenated(pbufs, p, t) /\ g = [held EXCEPT ![t] = @ - 1]
  OBVIOUS
<1>2. HeapOk(G, g)
  BY <1>1, CatStep DEF ChainUp
<1>3. t \in DOMAIN G
  <2>1. DOMAIN Concatenated(pbufs, p, t) = DOMAIN pbufs
    BY DEF Concatenated
  <2>2. QED
    BY <1>1, <2>1
<1>4. HeapOk([G EXCEPT ![t].ref = @ + 1], [g EXCEPT ![t] = @ + 1])
  BY <1>2, <1>3, RefOk
<1>5. [g EXCEPT ![t] = @ + 1] = held
  <2>1. held \in [Addresses -> Nat] /\ t \in Addresses
    BY GuardsAre
  <2>2. g = [q \in Addresses |-> IF q = t THEN held[q] - 1 ELSE held[q]]
    BY <1>1, <2>1
  <2>3. PICK f : f = [g EXCEPT ![t] = @ + 1]
    OBVIOUS
  <2>4. f = [q \in Addresses |-> IF q = t THEN (held[q] - 1) + 1 ELSE held[q]]
    BY <2>1, <2>2, <2>3
  <2>5. \A q \in Addresses : f[q] = held[q]
    BY <2>1, <2>4
  <2>6. f = held
    BY <2>1, <2>4, <2>5
  <2>7. QED
    BY <2>3, <2>6
<1>6. pbufs' = [G EXCEPT ![t].ref = @ + 1] /\ held' = held
  BY <1>1 DEF ChainUp
<1>7. QED
  BY <1>4, <1>5, <1>6 DEF HeapInv

\* pbuf_dechain().
LEMMA DechainStep ==
  ASSUME HeapInv, NEW p \in DOMAIN pbufs, Dechain(p)
  PROVE  HeapInv'
<1>1. PICK y : y = pbufs[p].next
  OBVIOUS
<1>2. HeapOk(pbufs, held) /\ held' = held
  BY DEF HeapInv, Dechain
<1>3. LinksTo(pbufs, p) = {}
  BY GuardsAre DEF Dechain
<1>4. PICK G : G = [pbufs EXCEPT ![p].next = NULL, ![p].tot_len = pbufs[p].len,
                                 ![y].tot_len = (pbufs[p].tot_len - pbufs[p].len) % Width]
  OBVIOUS
<1>5. pbufs' = IF y = NULL THEN pbufs ELSE Freed(G, y)
  BY <1>1, <1>4 DEF Dechain
<1>6. CASE y = NULL
  BY <1>2, <1>5, <1>6 DEF HeapInv
<1>7. CASE y # NULL
  <2>1. Dechained(pbufs, G, p)
    <3>1. y = pbufs[p].next /\ y # NULL /\ LinksTo(pbufs, p) = {} /\ HeapOk(pbufs, held)
      BY <1>1, <1>2, <1>3, <1>7
    <3>2. QED
      BY <1>4, <3>1, DechainedIs, Zenon
  <2>2. HeapOk(Freed(G, y), held)
    BY <1>1, <1>2, <1>3, <1>7, <2>1, DechainOk
  <2>3. QED
    BY <1>2, <1>5, <1>7, <2>2 DEF HeapInv
<1>8. QED
  BY <1>6, <1>7

\* pbuf_free_header().
LEMMA FreeHeaderStep ==
  ASSUME HeapInv, NEW p \in DOMAIN pbufs, NEW n \in Nat, FreeHeader(p, n)
  PROVE  HeapInv'
<1>1. PICK c, gone : c = Chain(pbufs, p) /\ gone = Covered(pbufs, p, n)
  OBVIOUS
<1>2. HeapOk(pbufs, held) /\ held \in [Addresses -> Nat] /\ Structs(pbufs)
      /\ IsChain(pbufs, p, c) /\ BeforeGrows(pbufs, c)
  BY <1>1, GuardsAre DEF HeapInv
<1>3. PICK k : DropsFirst(pbufs, c, n, gone, k)
  BY <1>1, <1>2, CoveredIs
<1>4. k \in Nat /\ Len(c) \in Nat /\ k <= Len(c) /\ Cardinality(gone) = k
  BY <1>2, <1>3 DEF DropsFirst, IsChain, LinkedFrom
<1>5. held[p] > 0 /\ Alone(pbufs, c) /\ \A q \in gone : pbufs[q].ref = 1
  BY <1>1, GuardsAre DEF FreeHeader, Held
<1>6. PICK G : G = Restrict(pbufs, DOMAIN pbufs \ gone)
  OBVIOUS
<1>7. pbufs' = IF k + 1 > Len(c) THEN G
               ELSE HeaderRemoved(G, c[k + 1], n - Before(pbufs, c, k + 1))
  BY <1>1, <1>4, <1>6 DEF FreeHeader
<1>8. held' = [q \in Addresses |-> IF k + 1 = 1 THEN held[q]
                                   ELSE IF q = p THEN held[q] - 1
                                   ELSE IF k + 1 <= Len(c) /\ q = c[k + 1] THEN held[q] + 1
                                   ELSE held[q]]
  BY <1>1, <1>4 DEF FreeHeader
<1>9. held' = IF k = 0 THEN held ELSE MovedOn(held, p, c, k)
  <2>1. CASE k = 0
    <3>1. held' = [q \in Addresses |-> held[q]]
      BY <1>8, <2>1
    <3>2. QED
      BY <1>2, <2>1, <3>1
  <2>2. CASE k # 0
    <3>1. k + 1 # 1 /\ (k + 1 <= Len(c) <=> k < Len(c))
      BY <1>4, <2>2
    <3>2. QED
      BY <1>8, <2>2, <3>1 DEF MovedOn
  <2>3. QED
    BY <2>1, <2>2
<1>10. pbufs' = IF k = Len(c) THEN G
                ELSE HeaderRemoved(G, c[k + 1], n - Before(pbufs, c, k + 1))
  BY <1>4, <1>7
<1>11. HeapOk(IF k = Len(c) THEN G ELSE HeaderRemoved(G, c[k + 1], n - Before(pbufs, c, k + 1)),
              IF k = 0 THEN held ELSE MovedOn(held, p, c, k))
  BY <1>2, <1>3, <1>5, <1>6, FreeHeaderOk
<1>12. QED
  BY <1>9, <1>10, <1>11 DEF HeapInv

\* The functions that only write payload.
LEMMA WriteStep ==
  ASSUME HeapInv, NEW G, SameShape(pbufs, G), pbufs' = G, held' = held
  PROVE  HeapInv'
BY SameShapeKeeps DEF HeapInv

\* Each call keeps the heap in order.
LEMMA HeapStep ==
  ASSUME HeapInv, Next
  PROVE  HeapInv'
<1>1. HeapOk(pbufs, held)
  BY DEF HeapInv
<1>2. Linked(pbufs) /\ Structs(pbufs)
  BY GuardsAre
<1>3. Layers \subseteq Nat /\ \A n \in 0 .. MaxLen : n \in 0 .. Width - 1 /\ n \in Nat
  <2>1. MaxLen \in Nat /\ MaxLen < Width /\ Width \in Nat
    BY ConstantsAssumption DEF ConstantsAssumption
  <2>2. QED
    BY <2>1, ConstantsAssumption DEF ConstantsAssumption
<1>4. ASSUME NEW layer \in Layers, NEW n \in 0 .. MaxLen, AllocRam(layer, n)
      PROVE  HeapInv'
  <2>1. PICK p \in Unused : /\ pbufs' = With(pbufs, p, AllocedRam(layer, n))
                            /\ held' = [held EXCEPT ![p] = 1]
    BY <1>4 DEF AllocRam
  <2>2. HeapOk(With(pbufs, p, AllocedRam(layer, n)), [held EXCEPT ![p] = 1])
    BY <1>1, <1>3, RamOk DEF Unused
  <2>3. QED
    BY <2>1, <2>2 DEF HeapInv
<1>5. ASSUME NEW layer \in Layers, NEW n \in 0 .. MaxLen, AllocPool(layer, n)
      PROVE  HeapInv'
  BY <1>5, AllocPoolStep
<1>6. ASSUME NEW mem \in External, AllocReference(mem)
      PROVE  HeapInv'
  <2>1. PICK p \in Unused : /\ pbufs' = With(pbufs, p, Alloced(FALSE, 0, mem, Len(mem)))
                            /\ held' = [held EXCEPT ![p] = 1]
    BY <1>6 DEF AllocReference
  <2>2. HeapOk(With(pbufs, p, Alloced(FALSE, 0, mem, Len(mem))), [held EXCEPT ![p] = 1])
    BY <1>1, ReferenceOk DEF Unused
  <2>3. QED
    BY <2>1, <2>2 DEF HeapInv
<1>7. ASSUME NEW p \in DOMAIN pbufs, Drop(p)
      PROVE  HeapInv'
  <2>1. HeapOk(Freed(pbufs, p), [held EXCEPT ![p] = @ - 1])
    BY <1>1, <1>7, FreedOk DEF Drop, Held
  <2>2. QED
    BY <1>7, <2>1 DEF Drop, HeapInv
<1>8. ASSUME NEW p \in DOMAIN pbufs, Ref(p)
      PROVE  HeapInv'
  <2>1. HeapOk([pbufs EXCEPT ![p].ref = @ + 1], [held EXCEPT ![p] = @ + 1])
    BY <1>1, RefOk
  <2>2. QED
    BY <1>8, <2>1 DEF Ref, HeapInv
<1>9. ASSUME NEW p \in DOMAIN pbufs, NEW n \in Nat, Realloc(p, n)
      PROVE  HeapInv'
  <2>1. Alone(pbufs, Chain(pbufs, p))
    BY <1>9, GuardsAre DEF Realloc
  <2>2. HeapOk(Realloced(pbufs, p, n), held)
    BY <1>1, <2>1, ReallocOk
  <2>3. QED
    BY <1>9, <2>2 DEF Realloc, HeapInv
<1>10. ASSUME NEW p \in DOMAIN pbufs, NEW n \in -MaxLen .. MaxLen, NEW force \in BOOLEAN,
              Header(p, n, force)
       PROVE  HeapInv'
  <2>1. LinksTo(pbufs, p) = {} /\ (~ pbufs[p].contiguous /\ force => n <= pbufs[p].payload)
    BY <1>10, GuardsAre DEF Header, Reveals
  <2>2. HeapOk(HeaderMoved(pbufs, p, n, force), held)
    BY <1>1, <2>1, HeaderMovedOk
  <2>3. QED
    BY <1>10, <2>2 DEF Header, HeapInv
<1>11. ASSUME NEW p \in DOMAIN pbufs, NEW bytes, NEW offset, Write(p, bytes, offset)
       PROVE  HeapInv'
  <2>1. \/ pbufs' = TakeAt(pbufs, p, bytes, offset).H
        \/ pbufs' = Take(pbufs, p, bytes).H
        \/ \E b : pbufs' = PutAt(pbufs, p, offset, b)
    BY <1>11 DEF Write
  <2>2. SameShape(pbufs, pbufs')
    <3>1. CASE pbufs' = TakeAt(pbufs, p, bytes, offset).H
      <4>1. SameShape(pbufs, TakeAt(pbufs, p, bytes, offset).H)
        BY <1>2, TakeAtKeepsShape
      <4>2. QED
        BY <3>1, <4>1
    <3>2. CASE pbufs' = Take(pbufs, p, bytes).H
      <4>1. SameShape(pbufs, Take(pbufs, p, bytes).H)
        BY <1>2, TakeKeepsShape
      <4>2. QED
        BY <3>2, <4>1
    <3>3. CASE \E b : pbufs' = PutAt(pbufs, p, offset, b)
      <4>1. PICK b : pbufs' = PutAt(pbufs, p, offset, b)
        BY <3>3
      <4>2. SameShape(pbufs, PutAt(pbufs, p, offset, b))
        BY <1>2, PutAtKeepsShape
      <4>3. QED
        BY <4>1, <4>2
    <3>4. QED
      BY <2>1, <3>1, <3>2, <3>3
  <2>3. QED
    BY <1>11, <2>2, WriteStep DEF Write
<1>12. ASSUME NEW p \in DOMAIN pbufs, NEW layer \in Layers, Clone(layer, p)
       PROVE  HeapInv'
  <2>1. PICK new \in Unused : /\ pbufs' = Cloned(pbufs, layer, p, new)
                              /\ held' = [held EXCEPT ![new] = 1]
    BY <1>12 DEF Clone
  <2>2. Cloning(pbufs, held, new, Cloned(pbufs, layer, p, new))
    BY <1>1, <1>3, CloneOk DEF Unused
  <2>3. QED
    BY <2>1, <2>2 DEF Cloning, HeapInv
<1>13. ASSUME NEW p \in DOMAIN pbufs, NEW q \in DOMAIN pbufs, Cat(p, q)
       PROVE  HeapInv'
  <2>1. HeapOk(Concatenated(pbufs, p, q), [held EXCEPT ![q] = @ - 1])
    BY <1>13, CatStep DEF Cat
  <2>2. QED
    BY <1>13, <2>1 DEF Cat, HeapInv
<1>14. ASSUME NEW p \in DOMAIN pbufs, NEW q \in DOMAIN pbufs, Copy(p, q)
       PROVE  HeapInv'
  <2>1. SameShape(pbufs, CopyPbuf(pbufs, p, q).H)
    BY <1>2, CopyKeepsShape DEF CopyPbuf
  <2>2. QED
    BY <1>14, <2>1, WriteStep DEF Copy
<1>15. \A p \in DOMAIN pbufs : \A n \in 0 .. pbufs[p].tot_len : n \in Nat
  OBVIOUS
<1>16. QED
  BY <1>3, <1>4, <1>5, <1>6, <1>7, <1>8, <1>9, <1>10, <1>11, <1>12, <1>13, <1>14, <1>15,
     DechainStep, FreeHeaderStep, CoalesceStep, ChainUpStep DEF Next

-----------------------------------------------------------------------------
(* The bytes of a chain.                                                   *)

\* f are the sequences ss one after another.
Joined(ss, f, n) == f = [i \in 1 .. n |-> IF i = 1 THEN ss[i] ELSE f[i - 1] \o ss[i]]

\* They can be joined.
LEMMA JoinsExist ==
  ASSUME NEW ss, NEW m \in Nat
  PROVE  \E f : Joined(ss, f, m)
<1> DEFINE P == {n \in Nat : \E f : Joined(ss, f, n)}
<1>1. 0 \in P
  <2>1. Joined(ss, [j \in 1 .. 0 |-> 0], 0)
    BY DEF Joined
  <2>2. QED
    BY <2>1
<1>2. ASSUME NEW n \in 0 .. m - 1, n \in P
      PROVE  n + 1 \in P
  <2>1. PICK f : Joined(ss, f, n)
    BY <1>2
  <2> DEFINE new == IF n = 0 THEN ss[n + 1] ELSE f[n] \o ss[n + 1]
             g == [j \in 1 .. n + 1 |-> IF j = n + 1 THEN new ELSE f[j]]
  <2>2. \A j \in 1 .. n : f[j] = IF j = 1 THEN ss[j] ELSE f[j - 1] \o ss[j]
    BY <2>1 DEF Joined
  <2>3. ASSUME NEW j \in 1 .. n + 1
        PROVE  g[j] = IF j = 1 THEN ss[j] ELSE g[j - 1] \o ss[j]
    <3>1. CASE j = n + 1
      <4>1. g[j] = new /\ j - 1 = n /\ (n = 0 <=> j = 1) /\ (j # 1 => g[j - 1] = f[n])
        BY <3>1
      <4> HIDE DEF g
      <4>2. QED
        BY <3>1, <4>1
    <3>2. CASE j # n + 1
      <4>1. j \in 1 .. n /\ g[j] = f[j] /\ (j # 1 => g[j - 1] = f[j - 1])
        BY <3>2
      <4> HIDE DEF g
      <4>2. QED
        BY <2>2, <4>1
    <3>3. QED
      BY <3>1, <3>2
  <2>4. g = [j \in 1 .. n + 1 |-> g[j]]
    OBVIOUS
  <2> HIDE DEF g
  <2>5. Joined(ss, g, n + 1)
    BY <2>3, <2>4 DEF Joined
  <2>6. QED
    BY <2>5
<1>3. m \in P
  <2>1. m \in 0 .. m
    OBVIOUS
  <2> HIDE DEF P
  <2>2. QED
    BY <1>1, <1>2, <2>1, CountingUp
<1>4. QED
  BY <1>3

\* Joined, they are as long as they are together.
AddsUp(A, ss, g, m) ==
  /\ m \in Nat /\ m > 0 /\ ss \in [1 .. m -> Seq(A)] /\ g \in [1 .. m -> Nat]
  /\ g[1] = Len(ss[1]) /\ \A i \in 1 .. m - 1 : g[i + 1] = g[i] + Len(ss[i + 1])

\* Sequences joined are as long as the sum of their lengths.
LEMMA JoinedLength ==
  ASSUME NEW A, NEW m, NEW ss, NEW g, AddsUp(A, ss, g, m)
  PROVE  Len(FlattenSeq(ss)) = g[m]
<1>0. /\ m \in Nat /\ m > 0 /\ ss \in [1 .. m -> Seq(A)] /\ g \in [1 .. m -> Nat]
      /\ g[1] = Len(ss[1]) /\ \A i \in 1 .. m - 1 : g[i + 1] = g[i] + Len(ss[i + 1])
  BY DEF AddsUp
<1>1. Len(ss) = m /\ m # 0
  BY <1>0
<1>2. PICK f : f = CHOOSE h : Joined(ss, h, m)
  OBVIOUS
<1>3. Joined(ss, f, m)
  BY <1>0, <1>2, JoinsExist
<1>4. FlattenSeq(ss) = f[m]
  BY <1>1, <1>2 DEF FlattenSeq, Joined
<1>5. \A i \in 1 .. m : f[i] = IF i = 1 THEN ss[i] ELSE f[i - 1] \o ss[i]
  BY <1>0, <1>3 DEF Joined
<1> DEFINE Q == {n \in Nat : n + 1 \in 1 .. m => f[n + 1] \in Seq(A) /\ Len(f[n + 1]) = g[n + 1]}
<1>6. 0 \in Q
  <2>1. 1 \in 1 .. m
    BY <1>0
  <2>2. f[1] = ss[1] /\ ss[1] \in Seq(A)
    BY <1>0, <1>5, <2>1
  <2>3. QED
    BY <1>0, <2>2
<1>7. ASSUME NEW n \in 0 .. m - 1, n \in Q
      PROVE  n + 1 \in Q
  <2>1. CASE n + 1 \in 1 .. m - 1
    <3>1. n + 1 \in 1 .. m /\ (n + 1) + 1 \in 1 .. m /\ (n + 1) + 1 # 1 /\ ((n + 1) + 1) - 1 = n + 1
      BY <1>0, <2>1
    <3>2. PICK i : i = n + 1
      OBVIOUS
    <3>3. f[i] \in Seq(A) /\ Len(f[i]) = g[i] /\ ss[i + 1] \in Seq(A)
      BY <1>0, <1>7, <3>1, <3>2
    <3>4. f[i + 1] = f[i] \o ss[i + 1]
      BY <1>0, <1>5, <3>1, <3>2
    <3>5. f[i + 1] \in Seq(A) /\ Len(f[i + 1]) = Len(f[i]) + Len(ss[i + 1])
      <4>1. PICK x, y : x = f[i] /\ y = ss[i + 1]
        OBVIOUS
      <4>2. x \in Seq(A) /\ y \in Seq(A)
        BY <3>3, <4>1
      <4>3. x \o y \in Seq(A) /\ Len(x \o y) = Len(x) + Len(y)
        BY <4>2
      <4>4. QED
        BY <3>4, <4>1, <4>3
    <3>6. g[i + 1] = g[i] + Len(ss[i + 1])
      BY <1>0, <2>1, <3>2
    <3>7. QED
      BY <3>2, <3>3, <3>5, <3>6
  <2>2. CASE n + 1 \notin 1 .. m - 1
    BY <1>0, <2>2
  <2>3. QED
    BY <1>0, <2>1, <2>2
<1>8. m - 1 \in Q /\ (m - 1) + 1 = m
  <2>1. m - 1 \in 0 .. m /\ (m - 1) + 1 = m
    BY <1>0
  <2> HIDE DEF Q
  <2>2. QED
    BY <1>0, <1>6, <1>7, <2>1, CountingUp
<1>9. m \in 1 .. m
  BY <1>0
<1>10. QED
  BY <1>4, <1>8, <1>9

\* The payload of a pbuf is a part of its buffer.
LEMMA PayloadIs ==
  ASSUME NEW H, NEW q, IsPbuf(H[q]), Buffered(H[q])
  PROVE  Payload(H, q) \in Seq(ToSet(H[q].mem)) /\ Len(Payload(H, q)) = H[q].len
<1>1. PICK s, a, n : s = H[q].mem /\ a = H[q].payload /\ n = H[q].len
  OBVIOUS
<1>2. s \in Seq(ToSet(s)) /\ a \in Nat /\ n \in Nat /\ a + n <= Len(s)
  BY <1>1 DEF IsPbuf, Buffered
<1>3. PICK A : A = ToSet(s)
  OBVIOUS
<1>4. s \in Seq(A)
  BY <1>2, <1>3
<1>5. \A i \in a + 1 .. a + n : i \in 1 .. Len(s)
  BY <1>2, <1>4
<1>6. SubSeq(s, a + 1, a + n) \in Seq(A) /\ Len(SubSeq(s, a + 1, a + n)) = n
  BY <1>2, <1>4, <1>5
<1>7. QED
  BY <1>1, <1>3, <1>6 DEF Payload

\* tot_len is the number of bytes in a chain.
LEMMA ContentLength ==
  ASSUME NEW H, NEW h, HeapOk(H, h), NEW p \in DOMAIN H
  PROVE  Len(Content(H, p)) = H[p].tot_len
<1>1. PICK c, m : c = Chain(H, p) /\ m = Len(c)
  OBVIOUS
<1>2. Linked(H) /\ Structs(H) /\ Summed(H)
  BY DEF HeapOk, Linked, Structs
<1>3. IsChain(H, p, c)
  BY <1>1, <1>2, ChainIs
<1>4. LengthsAlong(H, p, c) /\ BeforeGrows(H, c)
  BY <1>2, <1>3, LengthsAre
<1>5. m \in Nat /\ m > 0 /\ DOMAIN c = 1 .. m /\ c[1] = p /\ \A i \in 1 .. m : c[i] \in DOMAIN H
  BY <1>1, <1>3 DEF IsChain, LinkedFrom
<1>6. PICK ss, A : ss = [i \in 1 .. m |-> Payload(H, c[i])] /\ A = UNION {ToSet(H[q].mem) : q \in DOMAIN H}
  OBVIOUS
<1>7. \A i \in 1 .. m : ss[i] \in Seq(A) /\ Len(ss[i]) = H[c[i]].len /\ H[c[i]].len \in Nat
  <2>1. ASSUME NEW i \in 1 .. m
        PROVE  ss[i] \in Seq(A) /\ Len(ss[i]) = H[c[i]].len /\ H[c[i]].len \in Nat
    <3>1. PICK q \in DOMAIN H : q = c[i]
      BY <1>5
    <3>2. IsPbuf(H[q]) /\ Buffered(H[q])
      BY <1>2 DEF Structs
    <3>3. Payload(H, q) \in Seq(ToSet(H[q].mem)) /\ Len(Payload(H, q)) = H[q].len
      BY <3>2, PayloadIs
    <3>4. ToSet(H[q].mem) \subseteq A
      BY <1>6
    <3>5. Payload(H, q) \in Seq(A)
      BY <3>3, <3>4
    <3>6. ss[i] = Payload(H, q)
      BY <1>6, <3>1
    <3>7. QED
      BY <3>1, <3>2, <3>3, <3>5, <3>6 DEF IsPbuf
  <2>2. QED
    BY <2>1
<1>8. PICK g : g = [i \in 1 .. m |-> Before(H, c, i) + H[c[i]].len]
  OBVIOUS
<1>9. g \in [1 .. m -> Nat] /\ g[1] = Len(ss[1])
  <2>1. \A i \in 1 .. m : Before(H, c, i) \in Nat /\ H[c[i]].len \in Nat
    BY <1>1, <1>4, <1>7 DEF BeforeGrows
  <2>2. 1 \in 1 .. m /\ Before(H, c, 1) = 0
    BY <1>4, <1>5 DEF BeforeGrows
  <2>3. g \in [1 .. m -> Nat]
    BY <1>8, <2>1
  <2>4. g[1] = 0 + H[c[1]].len /\ H[c[1]].len \in Nat
    BY <1>8, <2>1, <2>2
  <2>5. Len(ss[1]) = H[c[1]].len
    BY <1>7, <2>2
  <2>6. QED
    BY <2>3, <2>4, <2>5
<1>10. ASSUME NEW i \in 1 .. m - 1
       PROVE  g[i + 1] = g[i] + Len(ss[i + 1])
  <2>1. i \in 1 .. m /\ i + 1 \in 1 .. m
    BY <1>5
  <2>2. Before(H, c, i + 1) = Before(H, c, i) + H[c[i]].len
    BY <1>1, <1>4 DEF BeforeGrows
  <2>3. g[i + 1] = Before(H, c, i + 1) + H[c[i + 1]].len /\ g[i] = Before(H, c, i) + H[c[i]].len
    BY <1>8, <2>1
  <2>4. Len(ss[i + 1]) = H[c[i + 1]].len
    BY <1>7, <2>1
  <2>5. QED
    BY <2>2, <2>3, <2>4
<1>11. ss \in [1 .. m -> Seq(A)]
  BY <1>6, <1>7
<1>12. Len(FlattenSeq(ss)) = g[m]
  <2>1. m \in Nat /\ m > 0
    BY <1>5
  <2>2. \A i \in 1 .. m - 1 : g[i + 1] = g[i] + Len(ss[i + 1])
    BY <1>10
  <2>3. AddsUp(A, ss, g, m)
    BY <1>9, <1>11, <2>1, <2>2 DEF AddsUp
  <2>4. QED
    BY <2>3, JoinedLength
<1>13. Content(H, p) = FlattenSeq(ss)
  BY <1>1, <1>5, <1>6 DEF Content
<1>14. g[m] = H[p].tot_len
  <2>1. m \in 1 .. m
    BY <1>5
  <2>2. H[c[m]].tot_len = H[p].tot_len - Before(H, c, m) /\ H[c[m]].tot_len = H[c[m]].len
        /\ Before(H, c, m) \in Nat
    BY <1>1, <1>4, <2>1 DEF LengthsAlong, BeforeGrows
  <2>3. H[p].tot_len \in Nat /\ H[c[m]].len \in Nat
    <3>1. H[p].tot_len \in 0 .. Width - 1
      BY <1>2 DEF Structs, IsPbuf
    <3>2. QED
      BY <1>7, <2>1, <3>1
  <2>4. QED
    BY <1>8, <2>1, <2>2, <2>3
<1>15. QED
  BY <1>12, <1>13, <1>14

-----------------------------------------------------------------------------
(* The streams.                                                            *)

\* An open stream is over a pbuf, at some place of it, with something left.
IsStream(S, H) ==
  /\ S = [pbuf |-> S.pbuf, offset |-> S.offset, length |-> S.length]
  /\ S.pbuf \in DOMAIN H /\ S.offset \in Nat /\ S.length \in Nat

\* The streams lead to pbufs, and the heap is in order.
StreamInv == HeapInv /\ \A s \in DOMAIN streams : IsStream(streams[s], pbufs)

\* Moving a stream leaves a stream.
LEMMA AdvancedIs ==
  ASSUME NEW H, NEW S, IsStream(S, H), NEW n \in Int
  PROVE  IsStream(Advanced(S, n), H)
<1>1. PICK x, y : x = (S.offset + n) % Width /\ y = (S.length - n) % Width
  OBVIOUS
<1>2. x \in Nat /\ y \in Nat
  <2>1. Width \in Nat /\ Width > 0
    BY ConstantsAssumption DEF ConstantsAssumption
  <2>2. S.offset + n \in Int /\ S.length - n \in Int
    BY DEF IsStream
  <2>3. QED
    BY <1>1, <2>1, <2>2
<1>3. Advanced(S, n) = [S EXCEPT !.offset = x, !.length = y]
  BY <1>1 DEF Advanced
<1>4. QED
  BY <1>2, <1>3 DEF IsStream

\* The struct of a stream stays one in a heap with the same pbufs.
LEMMA SameStream ==
  ASSUME NEW H, NEW G, DOMAIN G = DOMAIN H, NEW S, IsStream(S, H)
  PROVE  IsStream(S, G)
BY DEF IsStream

\* What writing to a stream leaves.
Written(H, h, put) == HeapOk(put.H, h) /\ DOMAIN put.H = DOMAIN H /\ IsStream(put.S, H)

\* Writing to a stream keeps the heap in order.
LEMMA WriteBufOk ==
  ASSUME NEW H, NEW h, HeapOk(H, h), NEW S, IsStream(S, H), NEW bytes, Len(bytes) \in Nat
  PROVE  Written(H, h, WriteBuf(H, S, bytes))
<1>1. PICK taken : taken = TakeAt(H, S.pbuf, bytes, S.offset)
  OBVIOUS
<1>2. Structs(H)
  BY DEF HeapOk, Linked, Structs
<1>3. SameShape(H, taken.H)
  BY <1>1, <1>2, TakeAtKeepsShape
<1>4. HeapOk(taken.H, h) /\ DOMAIN taken.H = DOMAIN H
  BY <1>3, SameShapeKeeps DEF SameShape
<1>5. IsStream(Advanced(S, Len(bytes)), H)
  BY AdvancedIs
<1>6. PICK put : put = WriteBuf(H, S, bytes)
  OBVIOUS
<1>7. \/ put = [err |-> "BUF", H |-> H, S |-> S]
      \/ put = [err |-> "OK", H |-> taken.H, S |-> Advanced(S, Len(bytes))]
  BY <1>1, <1>6 DEF WriteBuf, Result
<1>8. Written(H, h, put)
  BY <1>4, <1>5, <1>7 DEF Written
<1>9. QED
  BY <1>6, <1>8

\* Where a stream is: in a pbuf, or nowhere.
LEMMA SkipIs ==
  ASSUME NEW H, Linked(H), NEW p \in DOMAIN H, NEW offset
  PROVE  Skip(H, p, offset).q \in DOMAIN H \cup {NULL}
<1>1. PICK c : c = Chain(H, p)
  OBVIOUS
<1>2. LinkedFrom(H, p, c)
  BY <1>1, ChainLinks
<1>3. DOMAIN c = 1 .. Len(c) /\ Len(c) \in Nat /\ \A i \in DOMAIN c : c[i] \in DOMAIN H
  BY <1>2 DEF LinkedFrom
<1> DEFINE S == {j \in DOMAIN c : Before(H, c, j) + H[c[j]].len > offset}
<1>4. PICK i : i = LeastOf(S, 0)
  OBVIOUS
<1>5. i = 0 \/ i \in DOMAIN c
  <2>1. S \in SUBSET Nat /\ S \subseteq DOMAIN c
    BY <1>3
  <2> HIDE DEF S
  <2>2. IF S = {} THEN i = 0 ELSE i \in S
    BY <1>4, <2>1, LeastOfIs
  <2>3. QED
    BY <2>1, <2>2
<1>6. Skip(H, p, offset).q = IF i = 0 THEN NULL ELSE c[i]
  BY <1>1, <1>4 DEF Skip
<1>7. QED
  BY <1>3, <1>5, <1>6

\* The loop of snmp_pbuf_stream_writeto() keeps a heap in order.
Moving(H, h, st) ==
  /\ HeapOk(st.H, h) /\ DOMAIN st.H = DOMAIN H
  /\ st = [err |-> st.err, H |-> st.H, S |-> st.S, T |-> st.T, len |-> st.len]
  /\ IsStream(st.S, H) /\ IsStream(st.T, H) /\ st.len \in Nat

MoveStep(st) == IF st.len = 0 \/ st.err # "OK" THEN st ELSE WriteToTurn(st)

\* The end of a turn of the loop, whether the write has failed or not.
LEMMA MovedIs ==
  ASSUME NEW H, NEW h, NEW st, Moving(H, h, st), NEW n \in 0 .. st.len,
         NEW put, Written(H, h, put)
  PROVE  Moving(H, h, Moved(st, n, put))
<1>1. CASE put.err # "OK"
  <2>1. Moved(st, n, put) = [st EXCEPT !.err = put.err]
    BY <1>1 DEF Moved
  <2>2. QED
    BY <2>1 DEF Moving
<1>2. CASE put.err = "OK"
  <2>1. PICK S, l : S = Advanced(st.S, n) /\ l = st.len - n
    OBVIOUS
  <2>2. Moved(st, n, put) = [st EXCEPT !.H = put.H, !.T = put.S, !.S = S, !.len = l]
    BY <1>2, <2>1 DEF Moved
  <2>3. IsStream(S, H) /\ l \in Nat
    <3>1. IsStream(st.S, H) /\ st.len \in Nat
      BY DEF Moving
    <3>2. n \in Int /\ st.len - n \in Nat
      BY <3>1
    <3>3. QED
      BY <2>1, <3>1, <3>2, AdvancedIs
  <2>4. HeapOk(put.H, h) /\ DOMAIN put.H = DOMAIN H /\ IsStream(put.S, H)
    BY DEF Written
  <2>5. QED
    BY <2>2, <2>3, <2>4 DEF Moving
<1>3. QED
  BY <1>1, <1>2

\* A turn of the loop.
LEMMA MoveStepOk ==
  ASSUME NEW H, NEW h, NEW st, Moving(H, h, st)
  PROVE  Moving(H, h, MoveStep(st))
<1>1. CASE st.len = 0 \/ st.err # "OK"
  BY <1>1 DEF MoveStep
<1>2. CASE ~ (st.len = 0 \/ st.err # "OK")
  <2>1. PICK F, at : F = st.H /\ at = Skip(F, st.S.pbuf, st.S.offset)
    OBVIOUS
  <2>2. HeapOk(F, h) /\ DOMAIN F = DOMAIN H /\ IsStream(st.S, H) /\ IsStream(st.T, H) /\ st.len \in Nat
    BY <2>1 DEF Moving
  <2>3. at.q \in DOMAIN F \cup {NULL}
    <3>1. Linked(F) /\ st.S.pbuf \in DOMAIN F
      BY <2>2 DEF HeapOk, IsStream
    <3>2. QED
      BY <2>1, <3>1, SkipIs
  <2>4. CASE at.q = NULL
    <3>1. MoveStep(st) = [st EXCEPT !.err = "BUF"]
      BY <1>2, <2>1, <2>4 DEF MoveStep, WriteToTurn
    <3>2. QED
      BY <3>1 DEF Moving
  <2>5. CASE at.q # NULL
    <3>1. PICK n : n = Smaller(st.len, F[at.q].len)
      OBVIOUS
    <3>2. F[at.q].len \in Nat
      BY <2>2, <2>3, <2>5 DEF HeapOk, Linked, IsPbuf
    <3>3. n \in 0 .. st.len
      BY <2>2, <3>1, <3>2 DEF Smaller
    <3>4. PICK bytes, put : bytes = MemoryAt(F, at.q, at.offset, n) /\ put = WriteBuf(F, st.T, bytes)
      OBVIOUS
    <3>5. Len(bytes) \in Nat
      BY <2>2, <3>3, <3>4 DEF MemoryAt
    <3>6. Written(F, h, put)
      <4>1. IsStream(st.T, F)
        BY <2>2, SameStream
      <4>2. QED
        BY <2>2, <3>4, <3>5, <4>1, WriteBufOk
    <3>7. Written(H, h, put)
      <4>1. IsStream(put.S, H)
        BY <2>2, <3>6, SameStream DEF Written
      <4>2. QED
        BY <2>2, <3>6, <4>1 DEF Written
    <3>8. MoveStep(st) = Moved(st, n, put)
      <4>1. MoveStep(st) = WriteToTurn(st)
        BY <1>2 DEF MoveStep
      <4>2. Skip(st.H, st.S.pbuf, st.S.offset) = at /\ st.H = F /\ ~ (at.q = NULL)
        BY <2>1, <2>5
      <4>3. WriteToTurn(st) = Moved(st, Smaller(st.len, F[at.q].len),
                                    WriteBuf(F, st.T, MemoryAt(F, at.q, at.offset,
                                                               Smaller(st.len, F[at.q].len))))
        BY <4>2 DEF WriteToTurn
      <4>4. QED
        BY <3>1, <3>4, <4>1, <4>3
    <3>9. QED
      BY <3>3, <3>7, <3>8, MovedIs
  <2>6. QED
    BY <2>4, <2>5
<1>3. QED
  BY <1>1, <1>2

\* The states of the loop.
MovingOn(f, n, start) == f = [i \in 0 .. n |-> IF i = 0 THEN start ELSE MoveStep(f[i - 1])]

\* The loop has its states.
LEMMA MoveRuns ==
  ASSUME NEW turns \in Nat, NEW start
  PROVE  \E f : MovingOn(f, turns, start)
<1> DEFINE P == {n \in Nat : \E f : MovingOn(f, n, start)}
<1>1. 0 \in P
  <2>1. MovingOn([i \in 0 .. 0 |-> start], 0, start)
    BY DEF MovingOn
  <2>2. QED
    BY <2>1
<1>2. ASSUME NEW n \in 0 .. turns - 1, n \in P
      PROVE  n + 1 \in P
  <2>1. PICK f : MovingOn(f, n, start)
    BY <1>2
  <2> DEFINE g == [i \in 0 .. n + 1 |-> IF i = n + 1 THEN MoveStep(f[n]) ELSE f[i]]
  <2>2. \A i \in 0 .. n : f[i] = IF i = 0 THEN start ELSE MoveStep(f[i - 1])
    BY <2>1 DEF MovingOn
  <2>3. ASSUME NEW i \in 0 .. n + 1
        PROVE  g[i] = IF i = 0 THEN start ELSE MoveStep(g[i - 1])
    <3>1. CASE i = n + 1
      <4>1. g[i] = MoveStep(f[n]) /\ g[i - 1] = f[n] /\ i # 0
        BY <3>1
      <4>2. QED
        BY <4>1
    <3>2. CASE i # n + 1
      <4>1. i \in 0 .. n /\ g[i] = f[i] /\ (i # 0 => g[i - 1] = f[i - 1])
        BY <3>2
      <4> HIDE DEF g
      <4>2. QED
        BY <2>2, <4>1
    <3>3. QED
      BY <3>1, <3>2
  <2>4. g = [i \in 0 .. n + 1 |-> g[i]]
    OBVIOUS
  <2> HIDE DEF g
  <2>5. MovingOn(g, n + 1, start)
    BY <2>3, <2>4 DEF MovingOn
  <2>6. QED
    BY <2>5
<1>3. turns \in P
  <2> HIDE DEF P
  <2>1. turns \in 0 .. turns
    OBVIOUS
  <2>2. QED
    BY <1>1, <1>2, <2>1, CountingUp
<1>4. QED
  BY <1>3

\* snmp_pbuf_stream_writeto() keeps a heap in order.
LEMMA WriteToOk ==
  ASSUME NEW H, NEW h, HeapOk(H, h), NEW S, IsStream(S, H), NEW T, IsStream(T, H), NEW len \in Nat
  PROVE  Moving(H, h, WriteTo(H, S, T, len))
<1>1. PICK all : all = IF len = 0 THEN Smaller(S.length, T.length) ELSE len
  OBVIOUS
<1>2. all \in Nat
  BY <1>1 DEF IsStream, Smaller
<1>3. PICK start, none : start = [err |-> "OK", H |-> H, S |-> S, T |-> T, len |-> all]
                         /\ none = [err |-> "ARG", H |-> H, S |-> S, T |-> T, len |-> len]
  OBVIOUS
<1>4. Moving(H, h, start) /\ Moving(H, h, none)
  BY <1>2, <1>3 DEF Moving
<1>5. PICK after : after = CHOOSE f : MovingOn(f, all, start)
  OBVIOUS
<1>6. MovingOn(after, all, start)
  BY <1>2, <1>5, MoveRuns
<1>7. WriteTo(H, S, T, len) = IF len > S.length \/ len > T.length THEN none ELSE after[all]
  BY <1>1, <1>3, <1>5 DEF WriteTo, MovingOn, MoveStep
<1>8. Moving(H, h, after[all])
  <2> DEFINE P == {i \in 0 .. all : Moving(H, h, after[i])}
  <2>1. 0 \in P
    <3>1. after[0] = start
      BY <1>2, <1>6 DEF MovingOn
    <3>2. QED
      BY <1>2, <1>4, <3>1
  <2>2. ASSUME NEW i \in 0 .. all - 1, i \in P
        PROVE  i + 1 \in P
    <3>1. i + 1 \in 0 .. all /\ i + 1 # 0 /\ (i + 1) - 1 = i
      BY <1>2
    <3>2. after[i + 1] = MoveStep(after[i])
      BY <1>6, <3>1 DEF MovingOn
    <3>3. Moving(H, h, MoveStep(after[i]))
      BY <2>2, MoveStepOk
    <3>4. QED
      BY <3>1, <3>2, <3>3
  <2>3. all \in P
    <3> HIDE DEF P
    <3>1. all \in 0 .. all
      BY <1>2
    <3>2. QED
      BY <1>2, <2>1, <2>2, <3>1, CountingUp
  <2>4. QED
    BY <2>3
<1>9. QED
  BY <1>4, <1>7, <1>8

-----------------------------------------------------------------------------
(* The theorems.                                                           *)

\* A heap in order is what pbuf.h says of it.
LEMMA RefsFollow ==
  ASSUME HeapInv
  PROVE  RefsArePointers
BY DEF HeapInv, HeapOk, Linked, Counted, RefsArePointers

\* In a heap in order, tot_len is the length of the contents, and payloads lie within
\* their buffers.
LEMMA LengthsFollow ==
  ASSUME HeapInv
  PROVE  ChainsWellFormed
<1>1. ASSUME NEW p \in DOMAIN pbufs
      PROVE  /\ pbufs[p].payload \in 0 .. Len(pbufs[p].mem) - pbufs[p].len
             /\ pbufs[p].tot_len = Len(Content(pbufs, p)) % Width
  <2>1. PICK b : b = pbufs[p]
    OBVIOUS
  <2>2. IsPbuf(b) /\ Buffered(b)
    BY <2>1 DEF HeapInv, HeapOk, Linked
  <2>3. b.payload \in 0 .. Len(b.mem) - b.len
    <3>1. Len(b.mem) \in Nat
      BY <2>2 DEF Buffered
    <3>2. QED
      BY <2>2, <3>1 DEF IsPbuf, Buffered
  <2>4. Len(Content(pbufs, p)) = b.tot_len
    BY <2>1, ContentLength DEF HeapInv
  <2>5. b.tot_len % Width = b.tot_len
    BY <2>2, FitsWidth DEF IsPbuf
  <2>6. QED
    BY <2>1, <2>3, <2>4, <2>5
<1>2. QED
  BY <1>1 DEF ChainsWellFormed

\* What a step of the heap or of a stream preserves.
LEMMA StreamStep ==
  ASSUME StreamInv, [StreamNext]_vars
  PROVE  StreamInv'
<1>1. HeapInv /\ \A s \in DOMAIN streams : IsStream(streams[s], pbufs)
  BY DEF StreamInv
<1>2. ASSUME UNCHANGED vars
      PROVE  StreamInv'
  BY <1>1, <1>2 DEF vars, pbufVars, StreamInv, HeapInv
<1>3. ASSUME Closed, Next, UNCHANGED <<streams, byte>>
      PROVE  StreamInv'
  <2>1. HeapInv'
    BY <1>1, <1>3, HeapStep
  <2>2. DOMAIN streams' = {}
    BY <1>3 DEF Closed
  <2>3. QED
    BY <2>1, <2>2 DEF StreamInv
<1>4. ASSUME Open
      PROVE  StreamInv'
  <2>1. UNCHANGED pbufVars
    BY <1>4 DEF Open
  <2>2. PICK over \in Injection(Streams, {p \in DOMAIN pbufs : Held(p) /\ Exclusive(p)}),
             offset \in [Streams -> 0 .. Width], length \in [Streams -> 0 .. Width] :
          streams' = [s \in Streams |->
                        [pbuf |-> over[s], offset |-> offset[s], length |-> length[s]]]
    BY <1>4 DEF Open
  <2>3. ASSUME NEW s \in Streams
        PROVE  IsStream(streams'[s], pbufs)
    <3>1. over[s] \in DOMAIN pbufs
      BY DEF Injection
    <3>2. offset[s] \in Nat /\ length[s] \in Nat
      BY ConstantsAssumption DEF ConstantsAssumption
    <3>3. streams'[s] = [pbuf |-> over[s], offset |-> offset[s], length |-> length[s]]
      BY <2>2
    <3>4. QED
      BY <3>1, <3>2, <3>3 DEF IsStream
  <2>4. DOMAIN streams' = Streams
    BY <2>2
  <2>5. QED
    BY <1>1, <2>1, <2>3, <2>4 DEF StreamInv, HeapInv, pbufVars
<1>5. ASSUME NEW s \in DOMAIN streams, NEW S, IsStream(S, pbufs),
             UNCHANGED pbufVars, streams' \in {streams, [streams EXCEPT ![s] = S]}
      PROVE  StreamInv'
  <2>1. \A t \in DOMAIN streams' : IsStream(streams'[t], pbufs)
    BY <1>1, <1>5
  <2>2. QED
    BY <1>1, <1>5, <2>1 DEF StreamInv, HeapInv, pbufVars
<1>6. ASSUME NEW s \in DOMAIN streams, StreamRead(s)
      PROVE  StreamInv'
  <2>1. PICK S : S = Advanced(streams[s], 1)
    OBVIOUS
  <2>2. IsStream(S, pbufs)
    BY <1>1, <2>1, AdvancedIs
  <2>3. UNCHANGED pbufVars /\ streams' \in {streams, [streams EXCEPT ![s] = S]}
    BY <1>6, <2>1 DEF StreamRead
  <2>4. QED
    BY <1>5, <2>2, <2>3
<1>7. ASSUME NEW s \in DOMAIN streams, NEW n \in Int
      PROVE  IsStream(Seek(streams[s], n), pbufs)
  <2>1. IsStream(Advanced(streams[s], n), pbufs) /\ IsStream(streams[s], pbufs)
    BY <1>1, AdvancedIs
  <2>2. QED
    BY <2>1 DEF Seek
<1>8. ASSUME NEW s \in DOMAIN streams, NEW n \in Int, StreamSeek(s, n)
      PROVE  StreamInv'
  <2>1. PICK S : S = Seek(streams[s], n)
    OBVIOUS
  <2>2. UNCHANGED pbufVars /\ streams' = [streams EXCEPT ![s] = S] /\ IsStream(S, pbufs)
    BY <1>7, <1>8, <2>1 DEF StreamSeek
  <2>3. QED
    BY <1>5, <2>2
<1>9. ASSUME NEW s \in DOMAIN streams, NEW offset \in Int, StreamSeekAbs(s, offset)
      PROVE  StreamInv'
  <2>1. PICK n : n = offset - streams[s].offset
    OBVIOUS
  <2>2. n \in Int
    BY <1>1, <2>1 DEF IsStream
  <2>3. PICK S : S = Seek(streams[s], n)
    OBVIOUS
  <2>4. UNCHANGED pbufVars /\ streams' = [streams EXCEPT ![s] = S] /\ IsStream(S, pbufs)
    BY <1>7, <1>9, <2>1, <2>2, <2>3 DEF StreamSeekAbs, SeekAbs
  <2>5. QED
    BY <1>5, <2>4
<1>10. ASSUME NEW s \in DOMAIN streams, NEW bytes \in StreamData, StreamWrite(s, bytes)
       PROVE  StreamInv'
  <2>1. PICK put : put = WriteBuf(pbufs, streams[s], bytes)
    OBVIOUS
  <2>2. Len(bytes) \in Nat
    BY StreamDataAssumption DEF StreamDataAssumption
  <2>3. Written(pbufs, held, put)
    BY <1>1, <2>1, <2>2, WriteBufOk DEF HeapInv
  <2>4. HeapOk(put.H, held) /\ DOMAIN put.H = DOMAIN pbufs /\ IsStream(put.S, pbufs)
    BY <2>3 DEF Written
  <2>5. pbufs' = put.H /\ streams' = [streams EXCEPT ![s] = put.S] /\ held' = held
    BY <1>10, <2>1 DEF StreamWrite
  <2>6. HeapInv'
    BY <2>4, <2>5 DEF HeapInv
  <2>7. \A t \in DOMAIN streams' : IsStream(streams'[t], pbufs)
    BY <1>1, <2>4, <2>5
  <2>8. \A t \in DOMAIN streams' : IsStream(streams'[t], pbufs')
    BY <2>4, <2>5, <2>7, SameStream
  <2>9. QED
    BY <2>6, <2>8 DEF StreamInv
<1>11. ASSUME NEW s \in DOMAIN streams, NEW t \in DOMAIN streams, NEW len \in Nat,
              StreamWriteTo(s, t, len)
       PROVE  StreamInv'
  <2>1. PICK put : put = WriteTo(pbufs, streams[s], streams[t], len)
    OBVIOUS
  <2>2. Moving(pbufs, held, put)
    BY <1>1, <2>1, WriteToOk DEF HeapInv
  <2>3. HeapOk(put.H, held) /\ DOMAIN put.H = DOMAIN pbufs
        /\ IsStream(put.S, pbufs) /\ IsStream(put.T, pbufs)
    BY <2>2 DEF Moving
  <2>4. pbufs' = put.H /\ streams' = [streams EXCEPT ![s] = put.S, ![t] = put.T] /\ held' = held
    BY <1>11, <2>1 DEF StreamWriteTo
  <2>5. HeapInv'
    BY <2>3, <2>4 DEF HeapInv
  <2>6. \A x \in DOMAIN streams' : IsStream(streams'[x], pbufs)
    BY <1>1, <2>3, <2>4
  <2>7. \A x \in DOMAIN streams' : IsStream(streams'[x], pbufs')
    BY <2>3, <2>4, <2>6, SameStream
  <2>8. QED
    BY <2>5, <2>7 DEF StreamInv
<1>12. \A n \in 0 .. MaxLen : n \in Nat /\ n \in Int
  OBVIOUS
<1>13. \A n \in -MaxLen .. MaxLen : n \in Int
  OBVIOUS
<1>14. QED
  BY <1>2, <1>3, <1>4, <1>6, <1>8, <1>9, <1>10, <1>11, <1>12, <1>13 DEF StreamNext

\* In the beginning there are neither pbufs nor streams.
LEMMA StreamBegins ==
  ASSUME StreamInit
  PROVE  StreamInv
<1>1. HeapInv
  BY HeapInit DEF StreamInit
<1>2. DOMAIN streams = {}
  BY DEF StreamInit
<1>3. QED
  BY <1>1, <1>2 DEF StreamInv

\* The heap is in order whatever the users of the library do.
THEOREM HeapStaysInOrder == Spec => []HeapInv
<1>1. Init => HeapInv
  BY HeapInit
<1>2. HeapInv /\ [Next]_pbufVars => HeapInv'
  <2>1. ASSUME HeapInv, UNCHANGED pbufVars
        PROVE  HeapInv'
    BY <2>1 DEF HeapInv, pbufVars
  <2>2. QED
    BY <2>1, HeapStep
<1>3. QED
  BY <1>1, <1>2, PTL DEF Spec

\* And whatever is written through streams.
LEMMA StreamsStayInOrder == StreamSpec => []StreamInv
<1>1. StreamInit => StreamInv
  BY StreamBegins
<1>2. StreamInv /\ [StreamNext]_vars => StreamInv'
  BY StreamStep
<1>3. QED
  BY <1>1, <1>2, PTL DEF StreamSpec

\* The reference count of a pbuf is the number of pointers to it: those that users
\* hold and those of other pbufs.  Nothing in use is freed, and nothing is lost.
THEOREM RefsCountPointers == StreamSpec => []RefsArePointers
<1>1. StreamInv => RefsArePointers
  BY RefsFollow DEF StreamInv
<1>2. QED
  BY <1>1, StreamsStayInOrder, PTL

\* tot_len is the length of the chain, and payload lies within its buffer.
THEOREM LengthsAreKept == StreamSpec => []ChainsWellFormed
<1>1. StreamInv => ChainsWellFormed
  BY LengthsFollow DEF StreamInv
<1>2. QED
  BY <1>1, StreamsStayInOrder, PTL
=============================================================================
